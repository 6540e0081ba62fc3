---------------------------- MODULE ConfigProofs ----------------------------
(***************************************************************************)
(* The configuration of a node, for all values of the constants:           *)
(*   - on disk, the file the writer goroutine keeps (ConfigStore): no save *)
(*     is lost, Close flushes, and the file implements DurableStore;       *)
(*   - in use, the peer table of the VPN (PeerTable).  For any subnet, any *)
(*     set of peers and any number of changes between two refreshes no     *)
(*     address inside the subnet is given out twice or taken from the      *)
(*     reserved ones, and no entry of netIPToPeer is stale.                *)
(***************************************************************************)
EXTENDS ConfigStore, PeerTable, WellFoundedInduction, TLAPS

(***************************************************************************)
(* The file, for any mutators and bounds.                                  *)
(***************************************************************************)

(* Versions are ordered: what is on disk, promised or carried by the       *)
(* writer was in memory, and the writer carries nothing older than the     *)
(* disk.                                                                   *)
Ordered ==
  /\ fileKind # "whole" => fileVer = 0
  /\ up => /\ fileVer <= mem /\ saved <= mem /\ atClose <= mem
           /\ writer \in {"stage", "rename"} => fileVer <= data /\ data <= mem

(* The final flush carries what Close found in memory. *)
Flushing ==
  up => /\ closing = "no" => ~final /\ writer # "done"
        /\ closing = "done" => writer = "done"
        /\ writer = "done" => final
        /\ final /\ writer \in {"stage", "rename"} => data >= atClose
        /\ writer = "done" /\ ~broken => fileVer >= atClose
        /\ broken => writer = "done"

StoreInv == Values /\ Ordered /\ Flushing /\ NoLostSave

LEMMA StoreInitInv == StoreInit => StoreInv
BY DEF StoreInit, StoreInv, Values, Ordered, Flushing, NoLostSave,
     Kinds

LEMMA StoreNextInv == StoreInv /\ [StoreNext]_storeVars => StoreInv'
<1> SUFFICES ASSUME StoreInv, [StoreNext]_storeVars PROVE StoreInv'
  OBVIOUS
<1> USE DEF StoreInv, Values, Ordered, Flushing, NoLostSave, Kinds,
      wvars, hist, file, Save
<1>1. CASE MutateAndSave
  BY <1>1 DEF MutateAndSave
<1>2. CASE MutateOnly
  BY <1>2 DEF MutateOnly
<1>3. ASSUME NEW m \in Mutators, Mutate(m) PROVE StoreInv'
  BY <1>3 DEF Mutate
<1>4. ASSUME NEW m \in Mutators, SaveLater(m) PROVE StoreInv'
  BY <1>4 DEF SaveLater
<1>5. CASE WriterTriggered
  BY <1>5 DEF WriterTriggered
<1>6. CASE WriterClosed
  BY <1>6 DEF WriterClosed
<1>7. CASE Marshal
  BY <1>7 DEF Marshal
<1>8. CASE Stage
  BY <1>8 DEF Stage
<1>9. CASE Rename
  BY <1>9 DEF Rename, AfterWrite
<1>10. CASE WriteFailed
  BY <1>10 DEF WriteFailed, AfterWrite
<1>11. CASE Close
  BY <1>11 DEF Close
<1>12. CASE CloseReturns
  BY <1>12 DEF CloseReturns
<1>13. CASE Exit
  BY <1>13 DEF Exit
<1>14. CASE LoadConfig
  BY <1>14 DEF LoadConfig, Boot
<1>15. CASE NewConfig
  BY <1>15 DEF NewConfig, Boot
<1>16. CASE LoadCorrupted
  BY <1>16 DEF LoadCorrupted, Boot
<1>17. ASSUME NEW v \in 0..MaxVersion, ImportConfig(v) PROVE StoreInv'
  BY <1>17 DEF ImportConfig
<1>18. ASSUME NEW k \in {"absent", "corrupt", "unreadable"}, Damage(k)
      PROVE StoreInv'
  BY <1>18 DEF Damage
<1>19. CASE UNCHANGED storeVars
  BY <1>19 DEF storeVars
<1> QED
  BY <1>1, <1>2, <1>3, <1>4, <1>5, <1>6, <1>7, <1>8, <1>9, <1>10, <1>11, <1>12,
     <1>13, <1>14, <1>15, <1>16, <1>17, <1>18, <1>19, Zenon DEF StoreNext,
           WriterStep

LEMMA FlagsInit == StoreInit => Flags
BY Zenon DEF StoreInit, Flags

LEMMA FlagsNext == Flags /\ [StoreNext]_storeVars => Flags'
<1> SUFFICES ASSUME Flags, [StoreNext]_storeVars PROVE Flags'
  OBVIOUS
<1> USE DEF Flags, wvars, hist, file, Save
<1>1. CASE MutateAndSave \/ MutateOnly \/ Close
            \/ CloseReturns \/ Exit
  BY <1>1, Zenon DEF MutateAndSave, MutateOnly, Close,
       CloseReturns, Exit
<1>2. ASSUME NEW m \in Mutators, Mutate(m) \/ SaveLater(m)
      PROVE Flags'
  BY <1>2, Zenon DEF Mutate, SaveLater
<1>3. CASE WriterStep
  BY <1>3, Zenon DEF WriterStep, WriterTriggered, WriterClosed,
       Marshal, Stage, Rename, WriteFailed
<1>4. CASE LoadConfig \/ NewConfig \/ LoadCorrupted
  BY <1>4, Zenon DEF LoadConfig, NewConfig, LoadCorrupted, Boot
<1>5. ASSUME NEW v \in 0..MaxVersion, ImportConfig(v) PROVE Flags'
  BY <1>5 DEF ImportConfig
<1>6. ASSUME NEW k \in {"absent", "corrupt", "unreadable"}, Damage(k)
      PROVE Flags'
  BY <1>6, Zenon DEF Damage
<1>7. CASE UNCHANGED storeVars
  BY <1>7 DEF storeVars
<1> QED
  BY <1>1, <1>2, <1>3, <1>4, <1>5, <1>6, <1>7 DEF StoreNext

LEMMA StoreInvariant == StoreSpec => []StoreInv
BY StoreInitInv, StoreNextInv, PTL DEF StoreSpec

(* Every variable keeps its type, whatever the mutators and bounds. *)
THEOREM TypeCorrect == StoreSpec => []StoreTypeOK
<1>1. StoreInv => Values
  BY DEF StoreInv
<1>2. Values /\ Flags => StoreTypeOK
  BY DEF StoreTypeOK
<1> QED
  BY StoreInvariant, FlagsInit, FlagsNext, <1>1, <1>2, PTL DEF StoreSpec

(* No Save is lost to the capacity-one trigger channel: a request that     *)
(* finds it full is dropped, and still covered.                            *)
THEOREM SavesAreKept == StoreSpec => []NoLostSave
<1>1. StoreInv => NoLostSave
  BY DEF StoreInv
<1> QED
  BY StoreInvariant, <1>1, PTL

(* Close returns only when what it found in memory is on disk, unless the  *)
(* final write failed.                                                     *)
THEOREM CloseIsFlush == StoreSpec => []CloseFlushes
<1>1. StoreInv => CloseFlushes
  BY DEF StoreInv, Flushing, CloseFlushes
<1> QED
  BY StoreInvariant, <1>1, PTL

(* A corrupted file is either still there, untouched while the process is  *)
(* down, or copied: the start that reads it copies it before any writer    *)
(* runs.                                                                   *)
Preserved == damage = "corrupt" => backup \/ (fileKind = "corrupt" /\ ~up)

LEMMA PreservedNext == Flags /\ Preserved /\ [StoreNext]_storeVars => Preserved'
<1> SUFFICES ASSUME Flags, Preserved, [StoreNext]_storeVars PROVE Preserved'
  OBVIOUS
<1> USE DEF Flags, Preserved, wvars, hist, file, Save
<1>1. CASE MutateAndSave \/ MutateOnly \/ Close
            \/ CloseReturns \/ Exit
  BY <1>1 DEF MutateAndSave, MutateOnly, Close, CloseReturns,
       Exit
<1>2. ASSUME NEW m \in Mutators, Mutate(m) \/ SaveLater(m) PROVE Preserved'
  BY <1>2 DEF Mutate, SaveLater
<1>3. CASE WriterStep
  BY <1>3 DEF WriterStep, WriterTriggered, WriterClosed,
       Marshal, Stage, Rename, WriteFailed
<1>4. CASE LoadConfig \/ NewConfig \/ LoadCorrupted
  BY <1>4 DEF LoadConfig, NewConfig, LoadCorrupted, Boot
<1>5. ASSUME NEW v \in 0..MaxVersion, ImportConfig(v) PROVE Preserved'
  BY <1>5 DEF ImportConfig
<1>6. ASSUME NEW k \in {"absent", "corrupt", "unreadable"}, Damage(k)
      PROVE Preserved'
  BY <1>6 DEF Damage
<1>7. CASE UNCHANGED storeVars
  BY <1>7 DEF storeVars
<1> QED
  BY <1>1, <1>2, <1>3, <1>4, <1>5, <1>6, <1>7 DEF StoreNext

(* A corrupted config is overwritten only after it was copied aside, over  *)
(* any number of starts, unless the copy failed (backupCorruptedFile).     *)
THEOREM CorruptedIsCopied == StoreSpec => []CorruptPreserved
<1>1. StoreInit => Preserved
  BY DEF StoreInit, Preserved
<1>2. Preserved => CorruptPreserved
  BY DEF Preserved, CorruptPreserved
<1> QED
  BY FlagsInit, FlagsNext, PreservedNext, <1>1, <1>2, PTL DEF StoreSpec

LEMMA StepRefines ==
  StoreInv /\ [StoreNext]_storeVars => [Durable!DNext]_(Durable!dvars)
<1> SUFFICES ASSUME StoreInv, [StoreNext]_storeVars
      PROVE [Durable!DNext]_(Durable!dvars)
  OBVIOUS
<1> USE DEF Durable!DNext, Durable!dvars, wvars, hist,
      file
<1>1. CASE MutateAndSave \/ MutateOnly
  BY <1>1 DEF MutateAndSave, MutateOnly, Durable!Change
<1>2. ASSUME NEW m \in Mutators, Mutate(m) \/ SaveLater(m)
      PROVE [Durable!DNext]_(Durable!dvars)
  BY <1>2 DEF Mutate, SaveLater, Durable!Change
<1>3. CASE WriterTriggered \/ WriterClosed \/ Marshal
            \/ Stage \/ WriteFailed
  BY <1>3 DEF WriterTriggered, WriterClosed, Marshal, Stage,
       WriteFailed
<1>4. CASE Rename
  BY <1>4 DEF Rename, StoreInv, Ordered, Values, Durable!Persist
<1>5. CASE Close \/ CloseReturns
  BY <1>5 DEF Close, CloseReturns
<1>6. CASE Exit
  BY <1>6, Zenon DEF Exit, Durable!Stop
<1>7. CASE LoadConfig \/ NewConfig \/ LoadCorrupted
  BY <1>7 DEF LoadConfig, NewConfig, LoadCorrupted, Boot,
       StoreInv, Ordered, Durable!Start
<1>8. ASSUME NEW v \in 0..MaxVersion, ImportConfig(v)
      PROVE [Durable!DNext]_(Durable!dvars)
  BY <1>8 DEF ImportConfig, Durable!Replace
<1>9. ASSUME NEW k \in {"absent", "corrupt", "unreadable"}, Damage(k)
      PROVE  [Durable!DNext]_(Durable!dvars)
  BY <1>9 DEF Damage, Durable!Replace
<1>10. CASE UNCHANGED storeVars
  BY <1>10 DEF storeVars
<1> QED
  BY <1>1, <1>2, <1>3, <1>4, <1>5, <1>6, <1>7, <1>8, <1>9, <1>10 DEF StoreNext,
       WriterStep

(* The writer goroutine and the file implement a durable value: the disk   *)
(* moves forward only, to versions that were in memory, and a start comes  *)
(* back with the disk.                                                     *)
THEOREM Refinement == StoreSpec => ImplementsDurableStore
<1>1. StoreInit => Durable!DInit
  BY DEF StoreInit, Durable!DInit
<1> QED
  BY StoreInvariant, <1>1, StepRefines, PTL DEF StoreSpec,
       ImplementsDurableStore, Durable!DSpec

(***************************************************************************)
(* The peer table.                                                         *)
(***************************************************************************)

(* The inductive invariant: the two safety properties need only the types. *)
IInv == TypeOK /\ NoStaleRoute /\ SubnetAddressesUnique

(* A non-empty bounded set of naturals has a maximum: MaxOf is one. *)
LEMMA MaxOfBounded ==
  ASSUME NEW S, NEW n \in Nat, S \subseteq 0 .. n, S # {}
  PROVE  MaxOf(S) \in S /\ \A b \in S : b <= MaxOf(S)
<1> DEFINE T == {n - a : a \in S}
<1>1. T \subseteq Nat /\ T # {}
  <2>1. \A a \in S : n - a \in Nat
    OBVIOUS
  <2>2. PICK a \in S : TRUE
    BY Zenon
  <2>3. n - a \in T
    OBVIOUS
  <2> QED
    BY <2>1, <2>3
<1>2. PICK x \in T : \A y \in T : ~ (<<y, x>> \in OpToRel(<, Nat))
  <2> HIDE DEF T
  <2> QED BY <1>1, NatLessThanWellFounded, WFMin, Zenon
<1>3. \A y \in T : ~ (y < x)
  BY <1>1, <1>2, Zenon DEF OpToRel
<1>4. PICK a \in S : x = n - a
  OBVIOUS
<1>5. \A b \in S : b <= a
  BY <1>3, <1>4
<1> QED
  BY <1>5, Zenon DEF MaxOf

(* GenerateNextIpAddr returns an address above every one in use, skips the *)
(* reserved ones, and leaves the subnet by at most one.                    *)
LEMMA Generated ==
  ASSUME IInv
  PROVE  /\ GenerateNextIpAddr \in Addresses
         /\ GenerateNextIpAddr \notin Reserved
         /\ \A a \in Used : a < GenerateNextIpAddr
<1>1. Used \subseteq 0 .. Broadcast /\ Used # {} /\ Used \subseteq Subnet
  BY SubnetAssumption DEF Used, Subnet
<1>2. Broadcast \notin Used
  BY SubnetAssumption DEF IInv, TypeOK, SubnetAddressesUnique, Used, Subnet
<1>3. MaxIP \in Used /\ \A b \in Used : b <= MaxIP
  BY <1>1, MaxOfBounded, SubnetAssumption, Zenon DEF MaxIP
<1>4. MaxIP \in Nat /\ Network <= MaxIP /\ MaxIP < Broadcast
  BY <1>1, <1>2, <1>3, SubnetAssumption DEF Subnet
<1>5. \E a \in (MaxIP + 1) .. (MaxIP + 3) :
        a \notin Reserved /\ \A b \in (MaxIP + 1) .. (a - 1) : b \in Reserved
  <2>1. CASE MaxIP + 1 \notin Reserved
    BY <1>4, <2>1
  <2>2. CASE MaxIP + 1 \in Reserved /\ MaxIP + 2 \notin Reserved
    BY <1>4, <2>2
  <2>3. CASE MaxIP + 1 \in Reserved /\ MaxIP + 2 \in Reserved
    <3>1. MaxIP + 3 \notin Reserved
      BY <1>4, <2>3 DEF Reserved
    <3> QED
      BY <1>4, <2>3, <3>1
  <2> QED
    BY <2>1, <2>2, <2>3
<1>6. /\ GenerateNextIpAddr \in (MaxIP + 1) .. (MaxIP + 3)
      /\ GenerateNextIpAddr \notin Reserved
      /\ \A b \in (MaxIP + 1) .. (GenerateNextIpAddr - 1) : b \in Reserved
  <2> HIDE DEF MaxIP, Reserved
  <2> QED BY <1>5 DEF GenerateNextIpAddr
<1>7. Broadcast + 1 \notin Reserved
  BY PeersAssumption, SubnetAssumption DEF Reserved, IInv, TypeOK, Subnet
<1>8. GenerateNextIpAddr <= Broadcast + 1
  BY <1>4, <1>6, <1>7, SubnetAssumption
<1>9. GenerateNextIpAddr \in Addresses
  BY <1>4, <1>6, <1>8, SubnetAssumption DEF Addresses
<1> QED
  BY <1>1, <1>3, <1>4, <1>6, <1>9 DEF Subnet

(* The reserved DNS address is in the subnet and belongs to no peer. *)
LEMMA DNSIPFree ==
  ASSUME NEW ips, NEW peers, None \notin peers
  PROVE  /\ ComputeDNSIP(ips, peers) \in Subnet \cup {None}
         /\ \A q \in peers : ips[q] \in Subnet => ips[q] # ComputeDNSIP(ips, peers)
<1> DEFINE free == {a \in (Network + 1) .. (Broadcast - 1) :
                      Free(a, None, ips, peers, None)}
<1>1. CASE free = {}
  BY <1>1, PeersAssumption, SubnetAssumption DEF ComputeDNSIP, Subnet
<1>2. CASE free # {}
  <2>1. free \subseteq 0 .. Broadcast
    BY SubnetAssumption
  <2>2. MaxOf(free) \in free
    <3> HIDE DEF free
    <3> QED BY <1>2, <2>1, MaxOfBounded, SubnetAssumption, Zenon
  <2>3. ComputeDNSIP(ips, peers) = MaxOf(free)
    BY <1>2 DEF ComputeDNSIP
  <2> QED
    BY <2>2, <2>3, SubnetAssumption DEF Free, Subnet
<1> QED
  BY <1>1, <1>2

LEMMA InitIInv == Init => IInv
<1> SUFFICES ASSUME Init PROVE IInv
  OBVIOUS
<1>1. dnsIP \in Subnet \cup {None}
  BY DNSIPFree DEF Init
<1> QED
  BY <1>1, PeersAssumption, SubnetAssumption, InputAssumption
  DEF Init, IInv, TypeOK, NoStaleRoute, SubnetAddressesUnique, Addresses, Subnet

(* What a config change has to show: the tables are left alone. *)
LEMMA ChangeKeepsTables ==
  ASSUME IInv, Emit,
         known' \subseteq Peers, allowed' \subseteq known',
         ipAddr' \in [Peers -> Addresses],
         ipAddrV6' \in [Peers -> Reported \cup {None}], UNCHANGED dnsIP
  PROVE  TypeOK' /\ NoStaleRoute'
<1>1. TypeOK'
  BY InputAssumption DEF IInv, TypeOK, Emit, tableVars
<1>2. NoStaleRoute'
  BY ZenonT(30) DEF IInv, NoStaleRoute, Emit, tableVars
<1> QED
  BY <1>1, <1>2

(* Dropping a VpnPeer removes every entry that leads to it: by             *)
(* NoStaleRoute these are the ones at its own addresses.                   *)
LEMMA DropKeepsIInv ==
  ASSUME IInv, NEW p \in Peers, Drop(p), UNCHANGED <<confVars, changes, phase>>,
         todo' \subseteq Peers
  PROVE  IInv'
<1>1. TypeOK'
  <2>1. Local \in Addresses
    BY SubnetAssumption DEF Addresses
  <2> QED
    BY <2>1 DEF IInv, TypeOK, Drop, confVars
<1>2. NoStaleRoute'
  <2>1. \A a \in Keys : netIP'[a] # None => netIP'[a] = netIP[a] /\ netIP[a] # p
    BY DEF IInv, Drop, NoStaleRoute
  <2>2. \A q \in Peers \ {p} : localIP'[q] = localIP[q] /\ localIPv6'[q] = localIPv6[q]
    BY DEF IInv, TypeOK, Drop
  <2>3. netIP \in [Keys -> Peers \cup {None}] /\ vpnPeers' = vpnPeers \ {p}
    BY DEF IInv, TypeOK, Drop
  <2> QED
    BY <2>1, <2>2, <2>3 DEF IInv, NoStaleRoute
<1>3. SubnetAddressesUnique'
  BY DEF IInv, SubnetAddressesUnique, confVars
<1> QED
  BY <1>1, <1>2, <1>3 DEF IInv

(* Moving a key of a peer leaves no entry at the old one, adds at most the *)
(* new one, and keeps the others.                                          *)
LEMMA RekeyMoves ==
  ASSUME NEW m \in [Keys -> Peers \cup {None}], NEW p \in Peers,
         NEW old, NEW new
  PROVE  /\ Rekey(m, p, old, new) \in [Keys -> Peers \cup {None}]
         /\ \A a \in Keys : Rekey(m, p, old, new)[a] # None =>
              \/ a = new /\ old # new /\ Rekey(m, p, old, new)[a] = p
              \/ Rekey(m, p, old, new)[a] = m[a] /\ (old = new \/ a # old)
<1>1. CASE old = new
  BY <1>1 DEF Rekey
<1>2. CASE old # new
  <2>1. Rekey(m, p, old, new) =
          [a \in Keys |-> CASE a = new -> p [] a = old -> None [] OTHER -> m[a]]
    BY <1>2 DEF Rekey
  <2>2. \A a \in Keys : Rekey(m, p, old, new)[a] =
          (IF a = new THEN p ELSE IF a = old THEN None ELSE m[a])
    BY <1>2, <2>1
  <2> QED
    BY <1>2, <2>1, <2>2
<1> QED
  BY <1>1, <1>2

LEMMA NextIInv == IInv /\ [Next]_vars => IInv'
<1> SUFFICES ASSUME IInv, [Next]_vars PROVE IInv'
  OBVIOUS
<1>1. ASSUME NEW p \in Peers, AddPeer(p) PROVE IInv'
  <2>1. PICK a \in Manual \cup {GenerateNextIpAddr} :
          /\ a = GenerateNextIpAddr \/ CheckIPUnique(a, p)
          /\ ipAddr' = [ipAddr EXCEPT ![p] = a]
    BY <1>1, Zenon DEF AddPeer
  <2>2. a \in Addresses
    BY <2>1, Generated DEF Addresses
  <2>3. a \in Subnet => /\ a \notin {Local, Broadcast, dnsIP}
                        /\ \A q \in known \ {p} : ipAddr[q] # a
    <3>1. CASE a = GenerateNextIpAddr
      <4>1. Local \in Used
        BY DEF Used
      <4>2. \A q \in known : ipAddr[q] \in Subnet => ipAddr[q] \in Used
        BY DEF Used
      <4>3. a \in Int
        BY <2>2, SubnetAssumption, InputAssumption DEF Addresses
      <4>4. a \notin {Broadcast, dnsIP} /\ \A b \in Used : b < a
        BY <3>1, Generated DEF Reserved
      <4> QED
        BY <4>1, <4>2, <4>3, <4>4, SubnetAssumption DEF Subnet
    <3>2. CASE CheckIPUnique(a, p)
      BY <3>2 DEF CheckIPUnique, Free
    <3> QED
      BY <2>1, <3>1, <3>2
  <2>4. /\ known' = known \cup {p} /\ UNCHANGED dnsIP
        /\ Emit /\ ipAddrV6' = ipAddrV6 /\ allowed' \subseteq allowed \cup {p}
    BY <1>1 DEF AddPeer
  <2>5. ipAddr' \in [Peers -> Addresses]
    BY <2>1, <2>2 DEF IInv, TypeOK
  <2>6. TypeOK' /\ NoStaleRoute'
    BY <2>4, <2>5, ChangeKeepsTables, ZenonT(30) DEF IInv, TypeOK
  <2>7. SubnetAddressesUnique'
    <3>1. known \subseteq Peers /\ ipAddr \in [Peers -> Addresses] /\ SubnetAddressesUnique
      BY Zenon DEF IInv, TypeOK
    <3> QED
      BY <2>1, <2>3, <2>4, <3>1 DEF SubnetAddressesUnique
  <2> QED
    BY <2>6, <2>7, Zenon DEF IInv
<1>2. ASSUME NEW p \in Peers, UpdatePeerSettings(p) PROVE IInv'
  <2>1. PICK a \in Manual \cup {ipAddr[p]} :
          CheckIPUnique(a, p) /\ ipAddr' = [ipAddr EXCEPT ![p] = a]
    BY <1>2, Zenon DEF UpdatePeerSettings
  <2>2. a \in Addresses
    BY <2>1 DEF Addresses, IInv, TypeOK
  <2>3. /\ p \in known /\ known' = known /\ UNCHANGED dnsIP
        /\ Emit /\ ipAddrV6' = ipAddrV6 /\ allowed' \subseteq allowed \cup {p}
    BY <1>2 DEF UpdatePeerSettings
  <2>4. ipAddr' \in [Peers -> Addresses]
    BY <2>1, <2>2 DEF IInv, TypeOK
  <2>5. TypeOK' /\ NoStaleRoute'
    BY <2>3, <2>4, ChangeKeepsTables, ZenonT(30) DEF IInv, TypeOK
  <2>6. SubnetAddressesUnique'
    BY <2>1, <2>3 DEF IInv, TypeOK, SubnetAddressesUnique, CheckIPUnique, Free
  <2> QED
    BY <2>5, <2>6 DEF IInv
<1>3. ASSUME NEW p \in Peers, LearnIPv6(p) PROVE IInv'
  <2>1. TypeOK' /\ NoStaleRoute'
    BY <1>3, ChangeKeepsTables, ZenonT(30) DEF LearnIPv6, IInv, TypeOK
  <2>2. SubnetAddressesUnique'
    BY <1>3 DEF LearnIPv6, IInv, SubnetAddressesUnique
  <2> QED
    BY <2>1, <2>2 DEF IInv
<1>4. ASSUME NEW p \in Peers, RemovePeer(p) PROVE IInv'
  <2>1. TypeOK' /\ NoStaleRoute'
    <3>1. Local \in Addresses
      BY SubnetAssumption DEF Addresses
    <3>2. /\ known' \subseteq Peers /\ allowed' \subseteq known'
          /\ ipAddr' \in [Peers -> Addresses]
          /\ ipAddrV6' \in [Peers -> Reported \cup {None}]
          /\ Emit /\ UNCHANGED dnsIP
      BY <1>4, <3>1 DEF RemovePeer, IInv, TypeOK
    <3> QED
      BY <3>2, ChangeKeepsTables
  <2>2. SubnetAddressesUnique'
    BY <1>4 DEF RemovePeer, IInv, SubnetAddressesUnique
  <2> QED
    BY <2>1, <2>2 DEF IInv
<1>5. ASSUME NEW p \in Peers, RefreshCopy(p) PROVE IInv'
  <2>1. /\ UNCHANGED <<confVars, changes, phase, exitAllowed>>
        /\ todo' \subseteq todo /\ vpnPeers' = vpnPeers \cup {p}
        /\ localIP' = [localIP EXCEPT ![p] = ipAddr[p]]
        /\ localIPv6' = [localIPv6 EXCEPT ![p] = ipAddrV6[p]]
    BY <1>5 DEF RefreshCopy
  <2> DEFINE oldIP == IF p \in vpnPeers THEN localIP[p] ELSE None
             four == Rekey(netIP, p, oldIP, ipAddr[p])
  <2>2. netIP' = Rekey(four, p, localIPv6[p], ipAddrV6[p])
    BY <1>5 DEF RefreshCopy
  <2>3. netIP \in [Keys -> Peers \cup {None}]
    BY DEF IInv, TypeOK
  <2>4. four \in [Keys -> Peers \cup {None}]
    BY <2>3, RekeyMoves
  <2>5. netIP' \in [Keys -> Peers \cup {None}]
    BY <2>2, <2>4, RekeyMoves
  <2>6. \A a \in Keys : netIP'[a] # None =>
          \/ netIP'[a] = p /\ a \in {ipAddr[p], ipAddrV6[p]}
          \/ netIP'[a] = netIP[a] /\ netIP[a] # p
    <3> SUFFICES ASSUME NEW a \in Keys, netIP'[a] # None
                 PROVE  \/ netIP'[a] = p /\ a \in {ipAddr[p], ipAddrV6[p]}
                        \/ netIP'[a] = netIP[a] /\ netIP[a] # p
      OBVIOUS
    <3>1. \/ a = ipAddrV6[p] /\ netIP'[a] = p
          \/ netIP'[a] = four[a] /\ (a # localIPv6[p] \/ a = ipAddrV6[p])
      <4> HIDE DEF four
      <4> QED BY <2>2, <2>4, RekeyMoves
    <3>2. four[a] # None =>
            \/ a = ipAddr[p] /\ four[a] = p
            \/ four[a] = netIP[a] /\ (a # oldIP \/ a = ipAddr[p])
      <4> HIDE DEF oldIP
      <4> QED BY <2>3, RekeyMoves
    <3>3. netIP[a] = p => p \in vpnPeers /\ a \in {localIP[p], localIPv6[p]}
      BY PeersAssumption DEF IInv, NoStaleRoute
    <3> HIDE DEF four
    <3> QED
      BY <3>1, <3>2, <3>3
  <2>7. TypeOK'
    <3>1. ipAddr[p] \in Addresses /\ ipAddrV6[p] \in Reported \cup {None}
      BY DEF IInv, TypeOK
    <3> HIDE DEF four
    <3> QED BY <2>1, <2>5, <3>1, Zenon DEF IInv, TypeOK, confVars
  <2>8. NoStaleRoute'
    <3>1. /\ localIP'[p] = ipAddr[p] /\ localIPv6'[p] = ipAddrV6[p]
          /\ \A q \in Peers \ {p} : localIP'[q] = localIP[q] /\ localIPv6'[q] = localIPv6[q]
      BY <2>1 DEF IInv, TypeOK
    <3> HIDE DEF four
    <3> QED BY <2>1, <2>3, <2>6, <3>1 DEF IInv, NoStaleRoute
  <2>9. SubnetAddressesUnique'
    BY <2>1 DEF IInv, SubnetAddressesUnique, confVars
  <2> QED
    BY <2>7, <2>8, <2>9, Zenon DEF IInv
<1>6. ASSUME NEW p \in Peers, RefreshDelete(p) PROVE IInv'
  BY <1>6, DropKeepsIInv, ZenonT(30) DEF RefreshDelete, IInv, TypeOK
<1>7. ASSUME NEW p \in Peers, CloseDrop(p) PROVE IInv'
  BY <1>7, DropKeepsIInv, ZenonT(30) DEF CloseDrop, IInv, TypeOK
<1>8. CASE RefreshStart \/ RefreshCopied \/ CloseTunnel \/ Closed \/ UNCHANGED vars
  <2>1. /\ UNCHANGED <<confVars, tableVars>> /\ changes' \in {0, changes}
        /\ todo' \subseteq Peers
        /\ phase' \in {phase, "copy", "delete", "closing", "closed"}
    BY <1>8, ZenonT(30) DEF RefreshStart, RefreshCopied, CloseTunnel, Closed, vars, IInv, TypeOK
  <2>2. TypeOK'
    <3>1. /\ changes \in 0 .. MaxChanges
          /\ phase \in {"idle", "copy", "delete", "closing", "closed"}
      BY Zenon DEF IInv, TypeOK
    <3>2. /\ changes' \in 0 .. MaxChanges
          /\ phase' \in {"idle", "copy", "delete", "closing", "closed"}
      BY <2>1, <3>1, InputAssumption
    <3> QED
      BY <2>1, <3>2, ZenonT(30) DEF IInv, TypeOK, confVars, tableVars
  <2>3. NoStaleRoute' /\ SubnetAddressesUnique'
    BY <2>1, ZenonT(30) DEF IInv, NoStaleRoute, SubnetAddressesUnique, confVars, tableVars
  <2> QED
    BY <2>2, <2>3 DEF IInv
<1>9. CASE RefreshEnd
  <2>1. TypeOK'
    BY <1>9 DEF RefreshEnd, IInv, TypeOK, confVars
  <2>2. NoStaleRoute' /\ SubnetAddressesUnique'
    BY <1>9, ZenonT(30) DEF RefreshEnd, IInv, NoStaleRoute, SubnetAddressesUnique, confVars
  <2> QED
    BY <2>1, <2>2 DEF IInv
<1>10. CASE Restart
  <2>1. /\ dnsIP' \in Subnet \cup {None}
        /\ \A q \in known : ipAddr[q] \in Subnet => ipAddr[q] # dnsIP'
    BY <1>10, DNSIPFree, PeersAssumption, ZenonT(30) DEF Restart, IInv, TypeOK
  <2>2. TypeOK'
    <3>1. changes' \in 0 .. MaxChanges
      BY <1>10, InputAssumption DEF Restart, IInv, TypeOK
    <3> QED
      BY <1>10, <2>1, <3>1, ZenonT(30) DEF Restart, IInv, TypeOK, tableVars
  <2>3. NoStaleRoute' /\ SubnetAddressesUnique'
    BY <1>10, <2>1, ZenonT(30)
       DEF Restart, IInv, NoStaleRoute, SubnetAddressesUnique, tableVars
  <2> QED
    BY <2>2, <2>3 DEF IInv
<1> QED
  BY <1>1, <1>2, <1>3, <1>4, <1>5, <1>6, <1>7, <1>8, <1>9, <1>10 DEF Next

(* The inductive invariant holds in every reachable state. *)
THEOREM Invariance == Spec => []IInv
BY InitIInv, NextIInv, PTL DEF Spec

(* Every entry of netIPToPeer leads to a running VpnPeer with that         *)
(* address, however many changes a RefreshPeersList has to copy.           *)
THEOREM RoutesAreFresh == Spec => []NoStaleRoute
<1>1. IInv => NoStaleRoute
  BY DEF IInv
<1> QED
  BY Invariance, <1>1, PTL

(* The addresses GenerateNextIpAddr and CheckIPUnique give out inside the  *)
(* subnet are unique and never reserved ones, across restarts.             *)
THEOREM AddressesAreUnique == Spec => []SubnetAddressesUnique
<1>1. IInv => SubnetAddressesUnique
  BY DEF IInv
<1> QED
  BY Invariance, <1>1, PTL
=============================================================================
