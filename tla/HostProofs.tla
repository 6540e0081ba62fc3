----------------------------- MODULE HostProofs -----------------------------
(***************************************************************************)
(* The P2P host, for all values of the constants:                          *)
(*   - its connections (P2PHost, Proxy): protection from trimming follows  *)
(*     the known peers, for any peers, bootstrap peers, connections and    *)
(*     number of changes;                                                  *)
(*   - its sockets (SockMark): BoundToUplink and IndexFresh, for any       *)
(*     sockets, uplinks, routing tables and bounds.                        *)
(***************************************************************************)
EXTENDS Proxy, SockMark, TLAPS

(***************************************************************************)
(* Connections.  ProtectionFollows speaks of a round that has visited its  *)
(* whole list; the inductive invariant adds what holds while               *)
(* connectToKnownPeers is still at it.                                     *)
(***************************************************************************)

IInv ==
  /\ ProtectionFollows
  /\ kept \subseteq known
  /\ maint = "protect" => kept \subseteq protected \cup lost \cup todo

LEMMA InitHolds == Init => IInv
BY DEF Init, HostInit, IInv, ProtectionFollows

(* The goroutine of Bootstrap and its dials leave the peers alone. *)
LEMMA BootKeeps == ASSUME IInv, BootNext PROVE IInv'
<1>1. UNCHANGED <<maint, todo, known, removing, protected, kept, leaked, lost>>
  BY DEF BootNext, Bootstrap, BootTimeout, BootReceive, BootFinished, BootJoined,
         BootConnected, BootDialEnds, BootSend, maintVars, peerVars
<1> QED BY <1>1 DEF IInv, ProtectionFollows

(* A round takes its list, protects one peer after the other, and has them *)
(* all when its list is empty.                                             *)
LEMMA MaintainKeeps == ASSUME IInv, MaintainNext PROVE IInv'
<1>1. CASE StartMaintain \/ MaintainCancelled
  BY <1>1 DEF StartMaintain, MaintainCancelled, peerVars, IInv, ProtectionFollows
<1>2. CASE RoundStart
  BY <1>2 DEF RoundStart, IInv, ProtectionFollows
<1>3. ASSUME NEW p \in Peers, ProtectPeer(p) PROVE IInv'
  <2>1. (protected \subseteq known \cup removing \cup leaked)'
    BY <1>3 DEF ProtectPeer, IInv, ProtectionFollows
  <2>2. (kept \subseteq protected \cup lost \cup todo)'
    BY <1>3 DEF ProtectPeer, IInv
  <2> QED BY <1>3, <2>1, <2>2 DEF ProtectPeer, IInv, ProtectionFollows
<1>4. CASE DialBootstraps
  BY <1>4 DEF DialBootstraps, peerVars, IInv, ProtectionFollows
<1>5. CASE RoundTimeout \/ \E t \in Targets : WorkEnds(t)
  BY <1>5 DEF RoundTimeout, WorkEnds, peerVars, IInv, ProtectionFollows
<1>6. CASE RoundJoined
  BY <1>6 DEF RoundJoined, peerVars, IInv, ProtectionFollows
<1> QED BY <1>1, <1>2, <1>3, <1>4, <1>5, <1>6 DEF MaintainNext

(* Adding and the two steps of removing.  A peer the last one unprotects   *)
(* is unknown, and so not kept, or known again, and so lost.               *)
LEMMA PeersKeep == ASSUME IInv, PeersNext PROVE IInv'
<1>1. ASSUME NEW p \in Peers, AddPeer(p) PROVE IInv'
  BY <1>1 DEF AddPeer, maintVars, IInv, ProtectionFollows
<1>2. ASSUME NEW p \in Peers, RemovePeer(p) PROVE IInv'
  BY <1>2 DEF RemovePeer, maintVars, IInv, ProtectionFollows
<1>3. ASSUME NEW p \in Peers, UnprotectPeer(p) PROVE IInv'
  BY <1>3 DEF UnprotectPeer, maintVars, IInv, ProtectionFollows
<1> QED BY <1>1, <1>2, <1>3 DEF PeersNext

(* The proxy never touches the host. *)
LEMMA ProxyLeavesHost == ASSUME ProxyNext PROVE UNCHANGED hostVars
<1>1. ASSUME NEW c \in Conns, ClientNext(c) \/ ProxyConn(c) \/ ExitNext(c)
      PROVE  UNCHANGED hostVars
  BY <1>1, Zenon DEF OnlySession, ClientNext, ClientConnects, ClientAsks, ClientLeaves,
     ProxyConn, ProxyFails, OpenStream, LocalAuth, LocalAuthFails, ReplyMethod, Reply,
     CopyDownEnds, CopyUpEnds, SessionOver,
     ExitNext, ExitDenies, ExitDisabled, ExitServes, ExitMethod, ExitAnswers, TargetEnds,
     ExitReturns
<1>2. ASSUME NEW c \in Conns, Accept(c) \/ Offer(c) \/ DropConn(c)
      PROVE  UNCHANGED hostVars
  BY <1>2 DEF Accept, Offer, DropConn
<1>3. CASE AcceptEnds \/ AcceptFails \/ ServeConn \/ ServeConnsEnds \/ SOCKS5Close \/ LinkLost
  BY <1>3 DEF AcceptEnds, AcceptFails, ServeConn, ServeConnsEnds, SOCKS5Close, LinkLost, OnlySession
<1> QED BY <1>1, <1>2, <1>3 DEF ProxyNext

LEMMA NextHolds == ASSUME IInv, [Next]_vars PROVE IInv'
<1>1. CASE HostNext
  <2>1. CASE Cancel
    BY <2>1 DEF Cancel, maintVars, peerVars, IInv, ProtectionFollows
  <2> QED BY <1>1, <2>1, BootKeeps, MaintainKeeps, PeersKeep DEF HostNext
<1>2. CASE CloseHost
  BY <1>2 DEF CloseHost, P2pClose, maintVars, peerVars, IInv, ProtectionFollows
<1>3. CASE UNCHANGED hostVars
  BY <1>3 DEF hostVars, maintVars, peerVars, IInv, ProtectionFollows
<1> QED BY <1>1, <1>2, <1>3, ProxyLeavesHost DEF Next, vars

(* A removed peer keeps no protection from connection trimming but what a  *)
(* round of connectToKnownPeers that still had it on its list gave it, and *)
(* a peer that stayed known through a round has it, unless the             *)
(* UnprotectPeer of an earlier removal came after it was added again.      *)
THEOREM ProtectionHolds == Spec => []ProtectionFollows
<1>1. IInv => ProtectionFollows
  BY DEF IInv
<1> QED BY InitHolds, NextHolds, <1>1, PTL DEF Spec

(***************************************************************************)
(* Sockets.                                                                *)
(***************************************************************************)

Pcs == {"scan4", "scan6", "swap4", "swap6", "snapshot", "rebind", "resync", "select",
        "sweep", "registerRoute", "registerIface", "ended", "failed"}
TaskPcs == {"none", "load4", "load6", "set6", "set4", "failed", "done"}

(* No uplink, or what a scan may find. *)
Indexes == {0} \cup {bestUplink(t) : t \in Tables}
PerFamily == [Families -> Indexes]

Watcher == [pc : Pcs, found : PerFamily, moved : BOOLEAN, todo : SUBSET Socks,
            pending : BOOLEAN, burst : Nat, due : BOOLEAN]
Socket == [kind : AllKinds, life : {"none", "open", "closed"}, opt : PerFamily]
Task == [pc : TaskPcs, idx : PerFamily]

Types ==
  /\ table \in [Families -> Tables] /\ index \in PerFamily
  /\ notice \in BOOLEAN /\ registry \subseteq Socks
  /\ sock \in [Socks -> Socket] /\ task \in [Socks -> Task]
  /\ watcher \in Watcher
  /\ stale \in [Families -> SUBSET Socks]

-----------------------------------------------------------------------------
(***************************************************************************)
(* A change of the network is known to the indexes or on its way there: a  *)
(* notification or the timer waits, the scan of its family is still to     *)
(* come, or the scan has seen it and its result is not stored yet.         *)
(***************************************************************************)
Unscanned(f) == watcher.pc = "scan4" \/ (f = 6 /\ watcher.pc = "scan6")
Unstored(f) ==
  \/ f = 4 /\ watcher.pc \in {"scan6", "swap4"}
  \/ f = 6 /\ watcher.pc \in {"swap4", "swap6"}

Fresh(f) ==
  \/ f \in blind \/ notice \/ watcher.pending \/ Unscanned(f)
  \/ Unstored(f) /\ watcher.found[f] = bestUplink(table[f])
  \/ ~Unstored(f) /\ index[f] = bestUplink(table[f])

FreshInv == \A f \in Families : Fresh(f)

(***************************************************************************)
(* The option of an open, registered socket is in step with the index, or  *)
(* the watcher has replaced the index and will bind the socket again, or   *)
(* it is excused, or its creation has still to write it and has read no    *)
(* index that was replaced since.                                          *)
(***************************************************************************)
Due(s, f) ==
  \/ f = 4 /\ watcher.pc = "swap6" /\ watcher.moved
  \/ watcher.pc = "snapshot"
  \/ watcher.pc = "rebind" /\ s \in watcher.todo

Loaded(f, pc) == (f = 4 /\ pc \in {"load6", "set6", "set4"}) \/ (f = 6 /\ pc = "set6")
Past(f, pc) == pc = "done" \/ (f = 6 /\ pc = "set4")

InStep(s, f) ==
  \/ sock[s].opt[f] = index[f] \/ Due(s, f) \/ s \in stale[f]
  \/ /\ ~Past(f, task[s].pc) /\ sock[s].opt[f] = 0
     /\ Loaded(f, task[s].pc) => task[s].idx[f] = index[f]

Registrations ==
  \A s \in Socks :
    /\ sock[s].life = "none" => task[s].pc = "none" /\ sock[s].opt = NoTask.idx
    /\ sock[s].life = "open" => task[s].pc # "none"
    /\ sock[s].life = "open" /\ Registered(sock[s].kind) => s \in registry
    /\ sock[s].life = "closed" => task[s].pc = "done"

Tracked(s) == sock[s].life = "open" /\ Registered(sock[s].kind) /\ task[s].pc # "failed"
BoundInv == \A s \in Socks : Tracked(s) => \A f \in FamiliesOf(sock[s].kind) : InStep(s, f)

-----------------------------------------------------------------------------
LEMMA InitTypes == MarkInit => Types
<1> SUFFICES ASSUME MarkInit PROVE Types
  OBVIOUS
<1>1. [f \in Families |-> 0] \in PerFamily /\ NoTask \in Task
  BY Zenon DEF PerFamily, Indexes, NoTask, Task, TaskPcs
<1>2. watcher \in Watcher
  BY <1>1, Zenon DEF MarkInit, Watcher, Pcs
<1>3. sock \in [Socks -> Socket]
  BY <1>1, Zenon DEF MarkInit, Socket, AllKinds
<1> QED BY <1>1, <1>2, <1>3, Zenon DEF MarkInit, Types

(* The creation of a socket leaves the network and the watcher alone. *)
LEMMA CreationQuiet == Creation => UNCHANGED <<table, index, notice, blind, watcher>>
<1> SUFFICES ASSUME NEW s \in Socks,
                    \/ \E kind \in Kinds : ControlFunc(s, kind)
                    \/ CreateFails(s) \/ CloseSocket(s)
                    \/ \E f, pc, next : \/ LoadIndex(s, f, pc, next) \/ SetOption(s, f, pc, next)
                                         \/ SkipOption(s, f, pc, next) \/ OptionRefused(s, f, pc, next)
             PROVE  UNCHANGED <<table, index, notice, blind, watcher>>
  BY Zenon DEF Creation
<1>1. CASE (\E kind \in Kinds : ControlFunc(s, kind)) \/ CreateFails(s) \/ CloseSocket(s)
  BY <1>1, Zenon DEF ControlFunc, CreateFails, CloseSocket
<1>2. CASE \E f, pc, next : LoadIndex(s, f, pc, next) \/ SetOption(s, f, pc, next)
  BY <1>2, Zenon DEF LoadIndex, SetOption
<1>3. CASE \E f, pc, next : SkipOption(s, f, pc, next) \/ OptionRefused(s, f, pc, next)
  BY <1>3, Zenon DEF SkipOption, OptionRefused
<1> QED BY <1>1, <1>2, <1>3, Zenon

LEMMA CreationTypes == ASSUME Types, Creation PROVE Types'
<1>1. UNCHANGED <<table, index, notice, watcher>>
  BY CreationQuiet, Zenon
<1>2. NoTask.idx \in PerFamily
  BY Zenon DEF NoTask, PerFamily, Indexes
<1>3. PICK s \in Socks :
        \/ \E kind \in Kinds : ControlFunc(s, kind)
        \/ \E f \in Families, pc \in TaskPcs, next \in TaskPcs :
             \/ LoadIndex(s, f, pc, next) \/ SetOption(s, f, pc, next)
             \/ SkipOption(s, f, pc, next) \/ OptionRefused(s, f, pc, next)
        \/ CreateFails(s) \/ CloseSocket(s)
  BY DEF Creation, Families, TaskPcs
<1>4. PICK k \in Socket, t \in Task : k = sock[s] /\ t = task[s]
  BY Zenon DEF Types
<1>5. ASSUME NEW pc \in TaskPcs, Step(s, pc) PROVE task' \in [Socks -> Task]
  <2>1. [t EXCEPT !.pc = pc, !.idx = IF pc = "done" THEN NoTask.idx ELSE @] \in Task
    BY <1>2, Zenon DEF Task
  <2> QED BY <1>4, <1>5, <2>1, Zenon DEF Step, Types
<1>6. ASSUME NEW kind \in Kinds, ControlFunc(s, kind) PROVE Types'
  <2>1. [k EXCEPT !.kind = kind, !.life = "open"] \in Socket
    BY KindsKnown, Zenon DEF Socket
  <2>2. sock' \in [Socks -> Socket]
    BY <1>4, <1>6, <2>1, Zenon DEF ControlFunc, Types
  <2>3. task' \in [Socks -> Task]
    BY <1>5, <1>6, Zenon DEF ControlFunc, TaskPcs
  <2> QED BY <1>1, <1>6, <2>2, <2>3, Zenon DEF ControlFunc, Types
<1>7. ASSUME NEW f \in Families, NEW pc \in TaskPcs, NEW next \in TaskPcs, LoadIndex(s, f, pc, next)
      PROVE  Types'
  <2>1. [t EXCEPT !.pc = next, !.idx = [t.idx EXCEPT ![f] = index[f]]] \in Task
    BY Zenon DEF Task, PerFamily, Types
  <2>2. task' \in [Socks -> Task]
    BY <1>4, <1>7, <2>1, Zenon DEF LoadIndex, Types
  <2> QED BY <1>1, <1>7, <2>2, Zenon DEF LoadIndex, Types
<1>8. ASSUME NEW f \in Families, NEW pc \in TaskPcs, NEW next \in TaskPcs, SetOption(s, f, pc, next)
      PROVE  Types'
  <2>1. [k EXCEPT !.opt = [k.opt EXCEPT ![f] = t.idx[f]]] \in Socket
    BY Zenon DEF Socket, Task, PerFamily
  <2>2. sock' \in [Socks -> Socket]
    BY <1>4, <1>8, <2>1, Zenon DEF SetOption, Types
  <2>3. task' \in [Socks -> Task]
    BY <1>5, <1>8, Zenon DEF SetOption
  <2>4. stale' \in [Families -> SUBSET Socks]
    BY <1>8, Zenon DEF SetOption, Types
  <2> QED BY <1>1, <1>8, <2>2, <2>3, <2>4, Zenon DEF SetOption, Types
<1>9. ASSUME NEW f \in Families, NEW pc \in TaskPcs, NEW next \in TaskPcs,
             SkipOption(s, f, pc, next) \/ OptionRefused(s, f, pc, next)
      PROVE  Types'
  <2>1. task' \in [Socks -> Task]
    <3>1. PICK n \in TaskPcs : Step(s, n)
      BY <1>9, Zenon DEF SkipOption, OptionRefused, TaskPcs
    <3> QED BY <1>5, <3>1, Zenon
  <2>2. stale' \in [Families -> SUBSET Socks]
    <3>1. CASE SkipOption(s, f, pc, next)
      BY <3>1, Zenon DEF SkipOption, Types
    <3>2. CASE OptionRefused(s, f, pc, next)
      <4>1. stale' = [stale EXCEPT ![f] = @ \cup {s}]
        BY <3>2, Zenon DEF OptionRefused
      <4> QED BY <4>1, Zenon DEF Types
    <3> QED BY <1>9, <3>1, <3>2, Zenon
  <2> QED BY <1>1, <1>9, <2>1, <2>2, Zenon DEF SkipOption, OptionRefused, Types
<1>10. CASE CreateFails(s) \/ CloseSocket(s)
  <2>1. [k EXCEPT !.life = "closed", !.opt = NoTask.idx] \in Socket
    BY <1>2, Zenon DEF Socket
  <2>2. sock' \in [Socks -> Socket]
    BY <1>4, <1>10, <2>1, Zenon DEF CreateFails, CloseSocket, Types
  <2>3. task' \in [Socks -> Task]
    BY <1>5, <1>10, Zenon DEF CreateFails, CloseSocket, TaskPcs, Types
  <2>4. stale' \in [Families -> SUBSET Socks]
    BY <1>10 DEF CreateFails, CloseSocket, Types
  <2> QED BY <1>1, <1>10, <2>2, <2>3, <2>4, Zenon DEF CreateFails, CloseSocket, Types
<1> QED BY <1>3, <1>6, <1>7, <1>8, <1>9, <1>10, Zenon

LEMMA RestTypes == ASSUME Types, [MarkNext]_markVars, ~Creation PROVE Types'
<1>0. PICK w \in Watcher : w = watcher
  BY Zenon DEF Types
<1>1. CASE System
  <2>1. CASE TimerDue
    <3>1. [w EXCEPT !.due = TRUE] \in Watcher
      BY Zenon DEF Watcher
    <3> QED BY <1>0, <2>1, <3>1, Zenon DEF TimerDue, Types
  <2>2. CASE notifyNetChange
    BY <2>2, Zenon DEF notifyNetChange, Types
  <2>3. ASSUME NEW f \in Families, NEW t \in Tables, NetworkChanges(f, t) PROVE Types'
    BY <2>3, Zenon DEF NetworkChanges, Types
  <2> QED BY <1>1, <2>1, <2>2, <2>3, Zenon DEF System
<1>2. ASSUME NEW f \in Families, NEW pc, NEW next \in Pcs, Scan(f, pc, next) \/ ScanFails(f, pc, next)
      PROVE  Types'
  <2>1. bestUplink(table[f]) \in Indexes /\ 0 \in Indexes
    BY Zenon DEF Types, Indexes
  <2>2. PICK u \in Indexes : watcher' = [watcher EXCEPT !.pc = next, !.found[f] = u]
    BY <1>2, <2>1, Zenon DEF Scan, ScanFails
  <2>3. [w EXCEPT !.pc = next, !.found = [w.found EXCEPT ![f] = u]] \in Watcher
    BY Zenon DEF Watcher, PerFamily
  <2>4. watcher' \in Watcher
    BY <1>0, <2>2, <2>3, Zenon
  <2> QED BY <1>2, <2>4, Zenon DEF Scan, ScanFails, Types
<1>3. CASE Swap4 \/ Swap6
  <2>1. AfterDetect \in Pcs
    BY Zenon DEF AfterDetect, Pcs
  <2>2. PICK f \in Families, m \in BOOLEAN, pc \in Pcs :
          /\ watcher' = [watcher EXCEPT !.pc = pc, !.moved = m, !.found[f] = 0]
          /\ index' = [index EXCEPT ![f] = watcher.found[f]]
    <3>1. CASE Swap4
      <4>1. PICK m \in BOOLEAN : m = (index[4] # watcher.found[4])
        BY Zenon
      <4> QED BY <3>1, <4>1, Zenon DEF Swap4, Families, Pcs
    <3>2. CASE Swap6
      <4>1. PICK pc \in Pcs : pc = IF watcher.moved \/ index[6] # watcher.found[6]
                                   THEN "snapshot" ELSE AfterDetect
        BY <2>1, Zenon DEF Pcs
      <4> QED BY <3>2, <4>1, Zenon DEF Swap6, Families
    <3> QED BY <1>3, <3>1, <3>2, Zenon
  <2>3. [w EXCEPT !.pc = pc, !.moved = m, !.found = [w.found EXCEPT ![f] = 0]] \in Watcher
    BY Zenon DEF Watcher, PerFamily, Indexes
  <2>4. watcher' \in Watcher
    BY <1>0, <2>2, <2>3, Zenon
  <2>5. index' \in PerFamily
    BY <1>0, <2>2, Zenon DEF Types, Watcher, PerFamily
  <2> QED BY <1>3, <2>4, <2>5, Zenon DEF Swap4, Swap6, Types
<1>4. CASE Snapshot \/ OnSweep
  <2>1. \A pc \in Pcs : [w EXCEPT !.pc = pc, !.todo = registry] \in Watcher
    BY Zenon DEF Watcher, Types
  <2>2. watcher' \in Watcher
    BY <1>0, <1>4, <2>1, Zenon DEF Snapshot, OnSweep, Pcs
  <2> QED BY <1>4, <2>2, Zenon DEF Snapshot, OnSweep, Types
<1>5. ASSUME NEW s \in Socks,
             Evict(s) \/ KeepLive(s) \/ \E F \in SUBSET FamiliesOf(sock[s].kind) : Rebind(s, F)
      PROVE  Types'
  <2>1. \A pc \in Pcs : [w EXCEPT !.pc = pc, !.todo = w.todo \ {s}] \in Watcher
    BY Zenon DEF Watcher
  <2>2. watcher' \in Watcher
    BY <1>0, <1>5, <2>1, Zenon DEF Evict, KeepLive, Rebind, Visited, Pcs
  <2>3. CASE Evict(s) \/ KeepLive(s)
    BY <2>2, <2>3, Zenon DEF Evict, KeepLive, Types
  <2>4. ASSUME NEW F, Rebind(s, F) PROVE Types'
    <3>1. PICK k \in Socket : k = sock[s]
      BY Zenon DEF Types
    <3>2. PICK wr : wr = {f \in FamiliesOf(sock[s].kind) \ F : Writes(sock[s].kind, f, index[f], TRUE)}
      BY Zenon
    <3>3. /\ sock' = [sock EXCEPT ![s].opt = [f \in Families |-> IF f \in wr THEN index[f] ELSE @[f]]]
          /\ stale' = [f \in Families |-> IF f \in wr THEN stale[f] \ {s} ELSE
                                           IF f \in F THEN stale[f] \cup {s} ELSE stale[f]]
      BY <2>4, <3>2, Zenon DEF Rebind
    <3>4. PICK o : o = [f \in Families |-> IF f \in wr THEN index[f] ELSE k.opt[f]]
      BY Zenon
    <3>5. o \in PerFamily
      BY <3>4, Zenon DEF PerFamily, Socket, Types
    <3>6. [k EXCEPT !.opt = o] \in Socket
      BY <3>5, Zenon DEF Socket
    <3>7. sock' = [sock EXCEPT ![s] = [k EXCEPT !.opt = o]]
      BY <3>1, <3>3, <3>4, Zenon
    <3>8. sock' \in [Socks -> Socket]
      BY <3>6, <3>7, Zenon DEF Types
    <3>9. stale' \in [Families -> SUBSET Socks]
      BY <3>3, Zenon DEF Types
    <3> QED BY <2>2, <2>4, <3>8, <3>9, Zenon DEF Rebind, Types
  <2> QED BY <1>5, <2>3, <2>4, Zenon
<1>6. CASE \/ RebindDone \/ Resync \/ SweepDone \/ RegisterFails \/ OnDone
           \/ \E cb : Register(cb, "registerRoute", "registerIface") \/ Register(cb, "registerIface", "select")
  <2>1. \A pc \in Pcs : [w EXCEPT !.pc = pc] \in Watcher
    BY Zenon DEF Watcher
  <2>2. PICK pc \in Pcs : Goto(pc)
    <3>1. AfterDetect \in Pcs /\ {"select", "failed", "ended", "registerIface"} \subseteq Pcs
      BY Zenon DEF AfterDetect, Pcs
    <3>2. \/ Goto(AfterDetect) \/ Goto("select") \/ Goto("failed") \/ Goto("ended")
          \/ Goto("registerIface")
      BY <1>6, Zenon DEF RebindDone, Resync, SweepDone, RegisterFails, OnDone, Register
    <3> QED BY <3>1, <3>2, Zenon
  <2>3. watcher' \in Watcher
    BY <1>0, <2>1, <2>2, Zenon DEF Goto
  <2> QED BY <1>6, <2>3, Zenon DEF RebindDone, Resync, SweepDone, RegisterFails, OnDone, Register, Types
<1>7. CASE OnNotice \/ OnTimer
  <2>1. /\ [w EXCEPT !.pending = TRUE] \in Watcher
        /\ [w EXCEPT !.pending = FALSE, !.due = FALSE, !.burst = 0, !.pc = "scan4"] \in Watcher
        /\ [w EXCEPT !.due = FALSE, !.burst = w.burst + 1] \in Watcher
    <3>1. "scan4" \in Pcs /\ w.burst + 1 \in Nat
      BY DEF Watcher, Pcs
    <3>2. [w EXCEPT !.pending = TRUE] \in Watcher
      BY Zenon DEF Watcher
    <3>3. [w EXCEPT !.pending = FALSE, !.due = FALSE, !.burst = 0, !.pc = "scan4"] \in Watcher
      BY <3>1, Zenon DEF Watcher
    <3>4. [w EXCEPT !.due = FALSE, !.burst = w.burst + 1] \in Watcher
      BY <3>1, Zenon DEF Watcher
    <3> QED BY <3>2, <3>3, <3>4, Zenon
  <2>2. watcher' \in Watcher
    BY <1>0, <1>7, <2>1, Zenon DEF OnNotice, OnTimer
  <2> QED BY <1>7, <2>2, Zenon DEF OnNotice, OnTimer, Types
<1>8. CASE UNCHANGED markVars
  BY <1>8, Zenon DEF markVars, Types
<1>9. \A x \in {"scan6", "swap4"} : x \in Pcs
  BY Zenon DEF Pcs
<1>10. 4 \in Families /\ 6 \in Families
  BY Zenon DEF Families
<1> QED BY <1>1, <1>2, <1>3, <1>4, <1>5, <1>6, <1>7, <1>8, <1>9, <1>10, Zenon DEF MarkNext, Watch

LEMMA NextTypes == Types /\ [MarkNext]_markVars => Types'
BY CreationTypes, RestTypes, Zenon

-----------------------------------------------------------------------------
(* No change of the network is lost. *)

(* Steps between two re-detections. *)
Resting == {"snapshot", "rebind", "resync", "select", "sweep", "registerRoute",
            "registerIface", "ended", "failed"}

LEMMA QuietFresh ==
  ASSUME FreshInv, UNCHANGED <<table, index, notice, blind>>,
         (watcher.pc \in Resting /\ watcher'.pc \in Resting) \/ watcher'.pc = watcher.pc,
         watcher'.pending = watcher.pending, watcher'.found = watcher.found
  PROVE  FreshInv'
BY DEF FreshInv, Fresh, Unscanned, Unstored, Resting

LEMMA InitFresh == MarkInit => FreshInv
BY DEF MarkInit, FreshInv, Fresh, Unscanned

LEMMA NextFresh == Types /\ FreshInv /\ [MarkNext]_markVars => FreshInv'
<1> SUFFICES ASSUME Types, FreshInv, [MarkNext]_markVars PROVE FreshInv'
  OBVIOUS
<1>0. watcher \in Watcher /\ Families = {4, 6}
  BY Zenon DEF Types, Families
<1>1. CASE Creation \/ UNCHANGED markVars
  <2>1. UNCHANGED <<table, index, notice, blind, watcher>>
    BY <1>1, CreationQuiet, Zenon DEF markVars
  <2> QED BY <2>1, QuietFresh, Zenon
<1>2. CASE System
  <2>1. ASSUME NEW f \in Families, NEW t \in Tables, NetworkChanges(f, t) PROVE FreshInv'
    <3>1. /\ UNCHANGED <<index, watcher>> /\ table' = [table EXCEPT ![f] = t]
          /\ notice' \/ (blind' = blind \cup {f} /\ notice' = notice)
          /\ blind \subseteq blind' /\ (notice => notice')
      BY <2>1, Zenon DEF NetworkChanges, Types
    <3> QED BY <3>1, Zenon DEF FreshInv, Fresh, Unscanned, Unstored, Types
  <2>2. CASE notifyNetChange
    BY <2>2, Zenon DEF notifyNetChange, FreshInv, Fresh
  <2>3. CASE TimerDue
    <3>1. watcher'.pc = watcher.pc /\ watcher'.pending = watcher.pending /\ watcher'.found = watcher.found
      BY <1>0, <2>3, Zenon DEF TimerDue, Watcher
    <3> QED BY <2>3, <3>1, QuietFresh, Zenon DEF TimerDue
  <2> QED BY <1>2, <2>1, <2>2, <2>3, Zenon DEF System
<1>3. ASSUME NEW f \in Families, NEW pc, NEW next,
             (f = 4 /\ pc = "scan4" /\ next = "scan6") \/ (f = 6 /\ pc = "scan6" /\ next = "swap4"),
             Scan(f, pc, next) \/ ScanFails(f, pc, next)
      PROVE  FreshInv'
  <2>1. PICK u : /\ watcher' = [watcher EXCEPT !.pc = next, !.found[f] = u]
                 /\ \/ u = bestUplink(table[f]) /\ blind' = blind \ {f}
                    \/ blind' = blind \cup {f}
    BY <1>3, Zenon DEF Scan, ScanFails
  <2>2. /\ watcher'.pc = next /\ watcher'.pending = watcher.pending /\ watcher'.found[f] = u
        /\ \A g \in Families \ {f} : watcher'.found[g] = watcher.found[g]
    BY <1>0, <2>1, Zenon DEF Watcher, PerFamily
  <2>3. UNCHANGED <<table, index, notice>> /\ watcher.pc = pc
    BY <1>3, Zenon DEF Scan, ScanFails
  <2>4. ASSUME NEW g \in Families \ {f} PROVE Fresh(g)'
    BY <1>0, <1>3, <2>1, <2>2, <2>3 DEF FreshInv, Fresh, Unscanned, Unstored
  <2>5. Fresh(f)'
    BY <1>0, <1>3, <2>1, <2>2, <2>3, Zenon DEF Fresh, Unscanned, Unstored
  <2> QED BY <2>4, <2>5, Zenon DEF FreshInv
<1>4. CASE Swap4
  <2>1. /\ watcher.pc = "swap4" /\ watcher'.pc = "swap6" /\ watcher'.pending = watcher.pending
        /\ watcher'.found[6] = watcher.found[6]
        /\ index'[4] = watcher.found[4] /\ UNCHANGED <<table, notice, blind>>
    BY <1>0, <1>4 DEF Swap4, Watcher, PerFamily, Types
  <2> QED BY <1>0, <2>1 DEF FreshInv, Fresh, Unscanned, Unstored
<1>5. CASE Swap6
  <2>1. /\ watcher.pc = "swap6" /\ watcher'.pc \in Resting /\ watcher'.pending = watcher.pending
        /\ index'[6] = watcher.found[6] /\ index'[4] = index[4]
        /\ UNCHANGED <<table, notice, blind>>
    BY <1>0, <1>5 DEF Swap6, Watcher, PerFamily, Types, AfterDetect, Resting
  <2> QED BY <1>0, <2>1 DEF FreshInv, Fresh, Unscanned, Unstored, Resting
<1>6. CASE \/ Snapshot \/ OnSweep \/ RebindDone \/ Resync \/ SweepDone \/ RegisterFails \/ OnDone
           \/ \E s \in Socks : Evict(s) \/ KeepLive(s) \/ \E F \in SUBSET FamiliesOf(sock[s].kind) : Rebind(s, F)
           \/ Register("route", "registerRoute", "registerIface")
           \/ Register("iface", "registerIface", "select")
  <2>1. UNCHANGED <<table, index, notice, blind>> /\ watcher.pc \in Resting
    BY <1>6, Zenon DEF Snapshot, OnSweep, RebindDone, Resync, SweepDone, RegisterFails, OnDone, Evict, KeepLive,
       Rebind, Register, Resting
  <2>2. watcher'.pc \in Resting /\ watcher'.pending = watcher.pending /\ watcher'.found = watcher.found
    BY <1>0, <1>6, ZenonT(40) DEF Snapshot, OnSweep, RebindDone, Resync, SweepDone, RegisterFails, OnDone, Evict,
       KeepLive, Rebind, Register, Goto, Visited, AfterDetect, Resting, Watcher
  <2> QED BY <2>1, <2>2, QuietFresh, Zenon
<1>7. CASE OnNotice \/ OnTimer
  <2>1. watcher'.pending \/ watcher'.pc = "scan4"
    BY <1>0, <1>7, Zenon DEF OnNotice, OnTimer, Watcher
  <2> QED BY <2>1, Zenon DEF FreshInv, Fresh, Unscanned
<1>8. Scan(4, "scan4", "scan6") \/ ScanFails(4, "scan4", "scan6") => FreshInv'
  BY <1>0, <1>3, Zenon
<1>9. Scan(6, "scan6", "swap4") \/ ScanFails(6, "scan6", "swap4") => FreshInv'
  BY <1>0, <1>3, Zenon
<1> QED BY <1>1, <1>2, <1>4, <1>5, <1>6, <1>7, <1>8, <1>9, Zenon DEF MarkNext, Watch

(***************************************************************************)
(* For any sockets, uplinks, tables and order of changes, notifications    *)
(* and scans: at rest the indexes are the best uplinks, except for a       *)
(* family whose scan failed or that changed before Start was listening.    *)
(***************************************************************************)
THEOREM IndexesAreFresh == MarkSpec => []IndexFresh
<1>1. FreshInv => IndexFresh
  BY Zenon DEF FreshInv, Fresh, Unscanned, Unstored, IndexFresh
<1> QED BY InitTypes, NextTypes, InitFresh, NextFresh, <1>1, PTL DEF MarkSpec

-----------------------------------------------------------------------------
(* Every socket is bound. *)

LEMMA InitBound == MarkInit => Registrations /\ BoundInv
BY DEF MarkInit, Registrations, BoundInv, Tracked, NoTask

(* What a step of a creation does to its socket; the others stay. *)
LEMMA OneSocket ==
  ASSUME Types, NEW s \in Socks, NEW q \in Socks, q # s,
         \/ \E kind \in Kinds : ControlFunc(s, kind)
         \/ \E f \in Families, pc \in TaskPcs, next \in TaskPcs :
              \/ LoadIndex(s, f, pc, next) \/ SetOption(s, f, pc, next)
              \/ SkipOption(s, f, pc, next) \/ OptionRefused(s, f, pc, next)
         \/ CreateFails(s) \/ CloseSocket(s)
  PROVE  /\ sock'[q] = sock[q] /\ task'[q] = task[q] /\ registry \subseteq registry'
         /\ \A g \in Families : q \in stale[g] <=> q \in stale'[g]
<1>1. CASE \E kind \in Kinds : ControlFunc(s, kind)
  BY <1>1, Zenon DEF ControlFunc, Step, Types
<1>2. ASSUME NEW f \in Families, NEW pc, NEW next, LoadIndex(s, f, pc, next) \/ SkipOption(s, f, pc, next)
      PROVE  /\ sock'[q] = sock[q] /\ task'[q] = task[q] /\ registry \subseteq registry'
             /\ stale' = stale
  BY <1>2, Zenon DEF LoadIndex, SkipOption, Step, Types
<1>3. ASSUME NEW f \in Families, NEW pc, NEW next, SetOption(s, f, pc, next)
      PROVE  /\ sock'[q] = sock[q] /\ task'[q] = task[q] /\ registry \subseteq registry'
             /\ stale' = stale \/ stale' = [stale EXCEPT ![f] = @ \cup {s}]
  BY <1>3, Zenon DEF SetOption, Step, Types
<1>4. ASSUME NEW f \in Families, NEW pc, NEW next, OptionRefused(s, f, pc, next)
      PROVE  /\ sock'[q] = sock[q] /\ task'[q] = task[q] /\ registry \subseteq registry'
             /\ stale' = [stale EXCEPT ![f] = @ \cup {s}]
  BY <1>4, Zenon DEF OptionRefused, Step, Types
<1>5. CASE CreateFails(s) \/ CloseSocket(s)
  BY <1>5 DEF CreateFails, CloseSocket, Step, Types
<1>6. ASSUME NEW f \in Families,
             stale' = stale \/ stale' = [stale EXCEPT ![f] = @ \cup {s}]
      PROVE  \A g \in Families : q \in stale[g] <=> q \in stale'[g]
  BY <1>6 DEF Types
<1> QED BY <1>1, <1>2, <1>3, <1>4, <1>5, <1>6, Zenon

(* What each step of a creation does to its own socket, by fields. *)
LEMMA OwnControl ==
  ASSUME Types, NEW s \in Socks, NEW kind \in Kinds, ControlFunc(s, kind)
  PROVE  /\ sock[s].life = "none" /\ sock'[s].life = "open" /\ sock'[s].kind = kind
         /\ sock'[s].opt = sock[s].opt /\ task'[s].pc = "load4" /\ stale' = stale
         /\ Registered(kind) => s \in registry'
BY Zenon DEF ControlFunc, Step, Types, Socket, Task

LEMMA OwnLoad ==
  ASSUME Types, NEW s \in Socks, NEW f \in Families, NEW pc, NEW next, LoadIndex(s, f, pc, next)
  PROVE  /\ task[s].pc = pc /\ task'[s].pc = next /\ task'[s].idx[f] = index[f]
         /\ \A g \in Families \ {f} : task'[s].idx[g] = task[s].idx[g]
         /\ sock' = sock /\ stale' = stale
<1>1. task' = [task EXCEPT ![s].pc = next, ![s].idx[f] = index[f]]
  BY Zenon DEF LoadIndex
<1>2. task \in [Socks -> Task]
  BY Zenon DEF Types
<1>3. /\ task'[s].pc = next /\ task'[s].idx[f] = index[f]
      /\ \A g \in Families \ {f} : task'[s].idx[g] = task[s].idx[g]
  BY <1>1, <1>2, Zenon DEF Task, PerFamily
<1> QED BY <1>3, Zenon DEF LoadIndex

LEMMA OwnSkip ==
  ASSUME Types, NEW s \in Socks, NEW f, NEW pc, NEW next, SkipOption(s, f, pc, next)
  PROVE  /\ task[s].pc = pc /\ task'[s].pc = next
         /\ next # "done" => task'[s].idx = task[s].idx
         /\ sock' = sock /\ stale' = stale
<1>1. task \in [Socks -> Task]
  BY Zenon DEF Types
<1>2. Step(s, next)
  BY Zenon DEF SkipOption
<1>3. task'[s].pc = next /\ (next # "done" => task'[s].idx = task[s].idx)
  BY <1>1, <1>2, Zenon DEF Step, Task
<1> QED BY <1>3, Zenon DEF SkipOption

LEMMA OwnSet ==
  ASSUME Types, NEW s \in Socks, NEW f \in Families, NEW pc, NEW next, SetOption(s, f, pc, next)
  PROVE  /\ task[s].pc = pc /\ task'[s].pc = next
         /\ next # "done" => task'[s].idx = task[s].idx
         /\ sock'[s].life = sock[s].life /\ sock'[s].kind = sock[s].kind
         /\ sock'[s].opt[f] = task[s].idx[f]
         /\ \A g \in Families \ {f} : sock'[s].opt[g] = sock[s].opt[g]
         /\ task[s].idx[f] = index[f] \/ s \in stale'[f]
         /\ \A g \in Families : stale[g] \subseteq stale'[g]
<1>1. /\ task[s].pc = pc /\ task'[s].pc = next
      /\ next # "done" => task'[s].idx = task[s].idx
  BY Zenon DEF SetOption, Step, Types, Task
<1>2. /\ sock'[s].life = sock[s].life /\ sock'[s].kind = sock[s].kind
      /\ sock'[s].opt[f] = task[s].idx[f]
      /\ \A g \in Families \ {f} : sock'[s].opt[g] = sock[s].opt[g]
  BY DEF SetOption, Types, Socket, PerFamily
<1>3. /\ task[s].idx[f] = index[f] \/ s \in stale'[f]
      /\ \A g \in Families : stale[g] \subseteq stale'[g]
  BY Zenon DEF SetOption, Types
<1> QED BY <1>1, <1>2, <1>3, Zenon

LEMMA OwnRefused ==
  ASSUME Types, NEW s \in Socks, NEW f \in Families, NEW pc, NEW next, OptionRefused(s, f, pc, next)
  PROVE  /\ task[s].pc = pc
         /\ task'[s].pc = IF confident(sock[s].kind) THEN "failed" ELSE next
         /\ sock' = sock /\ s \in stale'[f] /\ f \in FamiliesOf(sock[s].kind)
         /\ \A g \in Families : stale[g] \subseteq stale'[g]
<1>1. PICK n : n = IF confident(sock[s].kind) THEN "failed" ELSE next
  OBVIOUS
<1>2. Step(s, n) /\ stale' = [stale EXCEPT ![f] = @ \cup {s}]
  BY <1>1, Zenon DEF OptionRefused
<1>3. task'[s].pc = n
  BY <1>2, Zenon DEF Step, Types, Task
<1>4. s \in stale'[f] /\ \A g \in Families : stale[g] \subseteq stale'[g]
  BY <1>2, Zenon DEF Types
<1> QED BY <1>1, <1>3, <1>4, Zenon DEF OptionRefused

LEMMA OwnClosed ==
  ASSUME Types, NEW s \in Socks, CreateFails(s) \/ CloseSocket(s)
  PROVE  sock'[s].life = "closed" /\ task'[s].pc = "done"
<1>1. sock'[s].life = "closed"
  BY DEF CreateFails, CloseSocket, Types, Socket
<1>2. task'[s].pc = "done"
  BY DEF CreateFails, CloseSocket, Step, Types, Task
<1> QED BY <1>1, <1>2, Zenon

(* What an option excuses or excludes, by the kind of the socket. *)
LEMMA KindFacts ==
  ASSUME NEW kind \in AllKinds
  PROVE  /\ FamiliesOf(kind) \subseteq Families
         /\ \A f \in FamiliesOf(kind) : f \in unicastIFFamilies(kind)
         /\ ~confident(kind) => FamiliesOf(kind) = {4}
BY Zenon DEF AllKinds, Families, FamiliesOf, unicastIFFamilies, confident

LEMMA NextRegistrations == Types /\ Registrations /\ [MarkNext]_markVars => Registrations'
<1> SUFFICES ASSUME Types, Registrations, [MarkNext]_markVars
             PROVE  Registrations'
  OBVIOUS
<1> DEFINE Fine(s) ==
      /\ sock[s].life = "none" => task[s].pc = "none" /\ sock[s].opt = NoTask.idx
      /\ sock[s].life = "open" => task[s].pc # "none"
      /\ sock[s].life = "open" /\ Registered(sock[s].kind) => s \in registry
      /\ sock[s].life = "closed" => task[s].pc = "done"
<1>1. \A s \in Socks : Fine(s)
  BY Zenon DEF Registrations
<1>2. ASSUME NEW s \in Socks, Fine(s)'
      PROVE  (\A q \in Socks \ {s} : sock'[q] = sock[q] /\ task'[q] = task[q]
                                     /\ registry \subseteq registry') => Registrations'
  <2>1. ASSUME NEW q \in Socks \ {s}, sock'[q] = sock[q], task'[q] = task[q], registry \subseteq registry'
        PROVE  Fine(q)'
    BY <1>1, <2>1, Zenon
  <2> QED BY <1>2, <2>1 DEF Registrations
<1> HIDE DEF Fine
<1>3. ASSUME NEW s \in Socks, NEW kind \in Kinds, ControlFunc(s, kind)
      PROVE  Registrations'
  <2>1. Fine(s)'
    BY <1>3, OwnControl, Zenon DEF Fine
  <2>2. \A q \in Socks \ {s} : sock'[q] = sock[q] /\ task'[q] = task[q] /\ registry \subseteq registry'
    BY <1>3, OneSocket, Zenon
  <2> QED BY <1>2, <2>1, <2>2, Zenon
<1>4. ASSUME NEW s \in Socks, NEW f \in Families, NEW pc \in TaskPcs \ {"none"},
             NEW next \in TaskPcs \ {"none"}, pc # "done",
             \/ LoadIndex(s, f, pc, next) \/ SetOption(s, f, pc, next)
             \/ SkipOption(s, f, pc, next) \/ OptionRefused(s, f, pc, next)
      PROVE  Registrations'
  <2>1. sock[s].life = "open"
    <3>1. task[s].pc = pc
      BY <1>4, Zenon DEF LoadIndex, SetOption, SkipOption, OptionRefused
    <3>2. sock[s].life \in {"none", "open", "closed"}
      BY Zenon DEF Types, Socket
    <3> QED BY <1>1, <1>4, <3>1, <3>2, Zenon DEF Fine
  <2>2. sock'[s].life = "open" /\ sock'[s].kind = sock[s].kind /\ task'[s].pc # "none"
    <3>1. CASE LoadIndex(s, f, pc, next)
      BY <1>4, <2>1, <3>1, OwnLoad
    <3>2. CASE SetOption(s, f, pc, next)
      BY <1>4, <2>1, <3>2, OwnSet
    <3>3. CASE SkipOption(s, f, pc, next)
      BY <1>4, <2>1, <3>3, OwnSkip
    <3>4. CASE OptionRefused(s, f, pc, next)
      BY <1>4, <2>1, <3>4, OwnRefused, Zenon
    <3> QED BY <1>4, <3>1, <3>2, <3>3, <3>4, Zenon
  <2>3. registry' = registry
    BY <1>4, Zenon DEF LoadIndex, SetOption, SkipOption, OptionRefused
  <2>4. Fine(s)'
    BY <1>1, <2>1, <2>2, <2>3, Zenon DEF Fine
  <2>5. \A q \in Socks \ {s} : sock'[q] = sock[q] /\ task'[q] = task[q] /\ registry \subseteq registry'
    BY <1>4, OneSocket, Zenon
  <2> QED BY <1>2, <2>4, <2>5, Zenon
<1>5. ASSUME NEW s \in Socks, CreateFails(s) \/ CloseSocket(s)
      PROVE  Registrations'
  <2>1. Fine(s)'
    BY <1>5, OwnClosed, Zenon DEF Fine
  <2>2. \A q \in Socks \ {s} : sock'[q] = sock[q] /\ task'[q] = task[q] /\ registry \subseteq registry'
    BY <1>5, OneSocket, Zenon
  <2> QED BY <1>2, <2>1, <2>2, Zenon
<1>6. CASE Creation
  BY <1>3, <1>4, <1>5, <1>6 DEF Creation, Families, TaskPcs
<1>7. ASSUME NEW s \in Socks, Evict(s)
      PROVE  Registrations'
  <2>1. sock' = sock /\ task' = task /\ registry' = registry \ {s} /\ sock[s].life = "closed"
    BY <1>7, Zenon DEF Evict
  <2> QED BY <1>1, <2>1, Zenon DEF Fine, Registrations
<1>8. ASSUME NEW s \in Socks, NEW F \in SUBSET FamiliesOf(sock[s].kind), Rebind(s, F)
      PROVE  Registrations'
  <2>1. PICK o : sock' = [sock EXCEPT ![s].opt = o]
    BY <1>8, Zenon DEF Rebind, Types, Socket, PerFamily
  <2>2. task' = task /\ registry' = registry /\ sock[s].life = "open"
    BY <1>8, Zenon DEF Rebind
  <2>3. sock'[s].life = "open" /\ sock'[s].kind = sock[s].kind
    BY <2>1, <2>2, Zenon DEF Types, Socket
  <2>4. Fine(s)'
    BY <1>1, <2>2, <2>3, Zenon DEF Fine
  <2>5. \A q \in Socks \ {s} : sock'[q] = sock[q]
    BY <2>1, Zenon DEF Types
  <2> QED BY <1>2, <2>2, <2>4, <2>5, Zenon
<1>9. CASE UNCHANGED <<sock, task, registry>>
  BY <1>1, <1>9, Zenon DEF Fine, Registrations
<1>10. Watch => \/ UNCHANGED <<sock, task, registry>>
                \/ \E s \in Socks : Evict(s) \/ \E F \in SUBSET FamiliesOf(sock[s].kind) : Rebind(s, F)
  BY Zenon DEF Watch, Scan, ScanFails, Swap4, Swap6, Snapshot, KeepLive, RebindDone, Resync, SweepDone,
         Register, RegisterFails
<1>11. System \/ OnNotice \/ OnTimer \/ OnSweep \/ OnDone \/ UNCHANGED markVars => UNCHANGED <<sock, task, registry>>
  BY Zenon DEF System, NetworkChanges, notifyNetChange, TimerDue, OnNotice, OnTimer, OnSweep, OnDone, markVars
<1> QED BY <1>6, <1>7, <1>8, <1>9, <1>10, <1>11, Zenon DEF MarkNext

(* A step that leaves a socket, its creation and the index alone, and      *)
(* neither its excuse nor its turn is taken away, leaves it in step.       *)
LEMMA StaysInStep ==
  ASSUME NEW s, NEW f, InStep(s, f), sock'[s].opt[f] = sock[s].opt[f], index'[f] = index[f],
         s \in stale[f] => s \in stale'[f], Due(s, f) => Due(s, f)',
         \/ task'[s] = task[s]
         \/ /\ Past(f, task'[s].pc) => Past(f, task[s].pc)
            /\ Loaded(f, task'[s].pc) =>
                 (Loaded(f, task[s].pc) /\ task'[s].idx[f] = task[s].idx[f]) \/ task'[s].idx[f] = index[f]
  PROVE  InStep(s, f)'
BY Zenon DEF InStep, Past, Loaded

(* The steps of a creation: the index it loads is the one its option has   *)
(* to get, until a re-detection replaces it and owes the socket a turn.    *)
LEMMA CreationBound == Types /\ Registrations /\ BoundInv /\ Creation => BoundInv'
<1> SUFFICES ASSUME Types, Registrations, BoundInv, Creation
             PROVE  BoundInv'
  OBVIOUS
<1>1. watcher' = watcher /\ index' = index
  BY CreationQuiet, Zenon
<1>2. \A q, g : Due(q, g) <=> Due(q, g)'
  BY <1>1, Zenon DEF Due
<1>3. PICK s \in Socks :
        \/ \E kind \in Kinds : ControlFunc(s, kind)
        \/ LoadIndex(s, 4, "load4", "load6") \/ LoadIndex(s, 6, "load6", "set6")
        \/ SetOption(s, 6, "set6", "set4") \/ SkipOption(s, 6, "set6", "set4")
        \/ OptionRefused(s, 6, "set6", "set4")
        \/ SetOption(s, 4, "set4", "done") \/ SkipOption(s, 4, "set4", "done")
        \/ OptionRefused(s, 4, "set4", "done")
        \/ CreateFails(s) \/ CloseSocket(s)
  BY Zenon DEF Creation
<1>4. ASSUME NEW q \in Socks \ {s}, Tracked(q)', NEW f \in FamiliesOf(sock'[q].kind)
      PROVE  InStep(q, f)'
  <2>1. /\ sock'[q] = sock[q] /\ task'[q] = task[q]
        /\ \A g \in Families : q \in stale[g] <=> q \in stale'[g]
    BY <1>3, <1>4, OneSocket DEF Families, TaskPcs
  <2>2. sock[q].kind \in AllKinds
    BY Zenon DEF Types, Socket
  <2>3. f \in Families /\ f \in FamiliesOf(sock[q].kind)
    BY <1>4, <2>1, <2>2, KindFacts, Zenon
  <2>4. InStep(q, f)
    BY <1>4, <2>1, <2>3, Zenon DEF BoundInv, Tracked
  <2> QED BY <1>1, <1>2, <2>1, <2>3, <2>4, StaysInStep, Zenon
<1>5. SUFFICES ASSUME Tracked(s)', NEW f \in FamiliesOf(sock'[s].kind)
               PROVE  InStep(s, f)'
  BY <1>4, Zenon DEF BoundInv
<1>6. sock[s].kind \in AllKinds /\ sock[s].opt \in PerFamily
  BY Zenon DEF Types, Socket
<1>7. ASSUME NEW kind \in Kinds, ControlFunc(s, kind)
      PROVE  InStep(s, f)'
  <2>1. /\ sock[s].life = "none" /\ sock'[s].kind = kind /\ sock'[s].opt = sock[s].opt
        /\ task'[s].pc = "load4"
    BY <1>7, OwnControl, Zenon
  <2>2. f \in Families
    BY <2>1, KindsKnown, KindFacts, Zenon
  <2>3. sock'[s].opt[f] = 0
    BY <2>1, <2>2 DEF Registrations, NoTask
  <2> QED BY <2>1, <2>3, Zenon DEF InStep, Past, Loaded
<1>8. ASSUME sock'[s].life = sock[s].life, sock'[s].kind = sock[s].kind, task[s].pc # "failed"
      PROVE  InStep(s, f) /\ f \in Families /\ f \in FamiliesOf(sock[s].kind)
  BY <1>5, <1>6, <1>8, KindFacts, Zenon DEF BoundInv, Tracked
<1>9. ASSUME NEW g \in Families, NEW pc \in TaskPcs, NEW next \in TaskPcs,
             LoadIndex(s, g, pc, next), pc # "failed",
             (g = 4 /\ pc = "load4" /\ next = "load6") \/ (g = 6 /\ pc = "load6" /\ next = "set6")
      PROVE  InStep(s, f)'
  <2>1. /\ task[s].pc = pc /\ task'[s].pc = next /\ task'[s].idx[g] = index[g]
        /\ \A h \in Families \ {g} : task'[s].idx[h] = task[s].idx[h]
        /\ sock' = sock /\ stale' = stale
    BY <1>9, OwnLoad, Zenon
  <2>2. InStep(s, f) /\ f \in Families
    BY <1>8, <1>9, <2>1, Zenon
  <2>3. ~Past(f, task'[s].pc)
    BY <1>9, <2>1, Zenon DEF Past
  <2>4. Loaded(f, task'[s].pc) =>
          (Loaded(f, task[s].pc) /\ task'[s].idx[f] = task[s].idx[f]) \/ task'[s].idx[f] = index[f]
    BY <1>9, <2>1, <2>2, Zenon DEF Loaded, Families
  <2> QED BY <1>1, <1>2, <2>1, <2>2, <2>3, <2>4, StaysInStep, Zenon
<1>10. ASSUME NEW g \in Families, NEW pc \in TaskPcs, NEW next \in TaskPcs,
              (g = 6 /\ pc = "set6" /\ next = "set4") \/ (g = 4 /\ pc = "set4" /\ next = "done")
       PROVE  \A h \in Families \ {g} :
                /\ Past(h, next) => Past(h, pc)
                /\ Loaded(h, next) => Loaded(h, pc) /\ next # "done"
  BY <1>10 DEF Past, Loaded, Families
<1>11. ASSUME NEW g \in Families, NEW pc \in TaskPcs, NEW next \in TaskPcs,
              (g = 6 /\ pc = "set6" /\ next = "set4") \/ (g = 4 /\ pc = "set4" /\ next = "done"),
              SetOption(s, g, pc, next)
       PROVE  InStep(s, f)'
  <2>1. /\ task[s].pc = pc /\ task'[s].pc = next
        /\ next # "done" => task'[s].idx = task[s].idx
        /\ sock'[s].life = sock[s].life /\ sock'[s].kind = sock[s].kind
        /\ sock'[s].opt[g] = task[s].idx[g]
        /\ \A h \in Families \ {g} : sock'[s].opt[h] = sock[s].opt[h]
        /\ task[s].idx[g] = index[g] \/ s \in stale'[g]
        /\ \A h \in Families : stale[h] \subseteq stale'[h]
    BY <1>11, OwnSet, Zenon
  <2>2. InStep(s, f) /\ f \in Families
    BY <1>8, <1>11, <2>1, Zenon
  <2>3. CASE f = g
    BY <1>1, <2>1, <2>3, Zenon DEF InStep
  <2>4. CASE f # g
    <3>1. /\ Past(f, task'[s].pc) => Past(f, task[s].pc)
          /\ Loaded(f, task'[s].pc) => Loaded(f, task[s].pc) /\ next # "done"
      <4>1. /\ Past(f, next) => Past(f, pc)
            /\ Loaded(f, next) => Loaded(f, pc) /\ next # "done"
        BY <1>10, <1>11, <2>2, <2>4, ZenonT(40)
      <4> QED BY <2>1, <4>1, Zenon
    <3>2. sock'[s].opt[f] = sock[s].opt[f] /\ (s \in stale[f] => s \in stale'[f])
      BY <2>1, <2>2, <2>4, Zenon
    <3>3. Loaded(f, task'[s].pc) => task'[s].idx[f] = task[s].idx[f]
      BY <2>1, <3>1, Zenon
    <3> QED BY <1>1, <1>2, <2>2, <3>1, <3>2, <3>3, StaysInStep, Zenon
  <2> QED BY <2>3, <2>4, Zenon
<1>12. ASSUME NEW g \in Families, NEW pc \in TaskPcs, NEW next \in TaskPcs,
              (g = 6 /\ pc = "set6" /\ next = "set4") \/ (g = 4 /\ pc = "set4" /\ next = "done"),
              SkipOption(s, g, pc, next)
       PROVE  InStep(s, f)'
  <2>1. /\ task[s].pc = pc /\ task'[s].pc = next
        /\ next # "done" => task'[s].idx = task[s].idx
        /\ sock' = sock /\ stale' = stale
    BY <1>12, OwnSkip, Zenon
  <2>2. InStep(s, f) /\ f \in Families /\ f \in FamiliesOf(sock[s].kind)
    BY <1>8, <1>12, <2>1, Zenon
  <2>3. CASE f = g
    <3>1. task[s].idx[f] = 0
      BY <1>6, <1>12, <2>2, <2>3, KindFacts, Zenon DEF SkipOption, Writes
    <3>2. Loaded(f, task[s].pc)
      BY <1>12, <2>1, <2>3, Zenon DEF Loaded
    <3>3. sock[s].opt[f] = index[f] \/ Due(s, f) \/ s \in stale[f]
      BY <2>2, <3>1, <3>2, Zenon DEF InStep
    <3> QED BY <1>1, <1>2, <2>1, <3>3, Zenon DEF InStep
  <2>4. CASE f # g
    <3>1. /\ Past(f, task'[s].pc) => Past(f, task[s].pc)
          /\ Loaded(f, task'[s].pc) => Loaded(f, task[s].pc) /\ next # "done"
      <4>1. /\ Past(f, next) => Past(f, pc)
            /\ Loaded(f, next) => Loaded(f, pc) /\ next # "done"
        BY <1>10, <1>12, <2>2, <2>4, ZenonT(40)
      <4> QED BY <2>1, <4>1, Zenon
    <3>2. sock'[s].opt[f] = sock[s].opt[f] /\ (s \in stale[f] => s \in stale'[f])
      BY <2>1, <2>2, <2>4, Zenon
    <3>3. Loaded(f, task'[s].pc) => task'[s].idx[f] = task[s].idx[f]
      BY <2>1, <3>1, Zenon
    <3> QED BY <1>1, <1>2, <2>2, <3>1, <3>2, <3>3, StaysInStep, Zenon
  <2> QED BY <2>3, <2>4, Zenon
<1>13. ASSUME NEW g \in Families, NEW pc \in TaskPcs, NEW next \in TaskPcs,
              (g = 6 /\ pc = "set6" /\ next = "set4") \/ (g = 4 /\ pc = "set4" /\ next = "done"),
              OptionRefused(s, g, pc, next)
       PROVE  InStep(s, f)'
  <2>1. /\ task[s].pc = pc /\ task'[s].pc = IF confident(sock[s].kind) THEN "failed" ELSE next
        /\ sock' = sock /\ s \in stale'[g] /\ g \in FamiliesOf(sock[s].kind)
    BY <1>13, OwnRefused, Zenon
  <2>2. ~confident(sock[s].kind)
    BY <1>5, <2>1, Zenon DEF Tracked
  <2>3. f = g
    BY <1>5, <1>6, <2>1, <2>2, KindFacts
  <2> QED BY <2>1, <2>3, Zenon DEF InStep
<1>14. ~(CreateFails(s) \/ CloseSocket(s))
  BY <1>5, OwnClosed, Zenon DEF Tracked
<1>15. /\ 4 \in Families /\ 6 \in Families
       /\ {"load4", "load6", "set6", "set4", "done"} \subseteq TaskPcs
  BY Zenon DEF Families, TaskPcs
<1> QED BY <1>3, <1>7, <1>9, <1>11, <1>12, <1>13, <1>14, <1>15, Zenon

(* The other steps: an index that is replaced owes every registered socket *)
(* a turn, and the turn writes the index or excuses the socket.            *)
LEMMA RestBound ==
  Types /\ Registrations /\ BoundInv /\ [System \/ Watch \/ OnNotice \/ OnTimer \/ OnSweep \/ OnDone]_markVars
    => BoundInv'
<1> SUFFICES ASSUME Types, Registrations, BoundInv,
                    [System \/ Watch \/ OnNotice \/ OnTimer \/ OnSweep \/ OnDone]_markVars
             PROVE  BoundInv'
  OBVIOUS
<1>1. \A s \in Socks : sock[s].kind \in AllKinds
  BY Zenon DEF Types, Socket
<1>2. ASSUME sock' = sock, task' = task, stale' = stale,
             \A s \in Socks : Tracked(s) => \A f \in Families :
               \/ Due(s, f)' \/ (index'[f] = index[f] /\ ~Due(s, f))
      PROVE  BoundInv'
  <2>1. ASSUME NEW s \in Socks, Tracked(s), NEW f \in FamiliesOf(sock[s].kind)
        PROVE  InStep(s, f)'
    <3>1. InStep(s, f) /\ f \in Families
      BY <1>1, <2>1, KindFacts, Zenon DEF BoundInv
    <3>2. CASE Due(s, f)'
      BY <3>2, Zenon DEF InStep
    <3>3. CASE index'[f] = index[f] /\ ~Due(s, f)
      BY <1>2, <3>1, <3>3, StaysInStep, Zenon
    <3> QED BY <1>2, <2>1, <3>1, <3>2, <3>3, Zenon
  <2> QED BY <1>2, <2>1, Zenon DEF BoundInv, Tracked
<1>3. watcher \in Watcher /\ index \in PerFamily
  BY Zenon DEF Types
<1>4. ASSUME UNCHANGED <<sock, task, stale, index>>, UNCHANGED watcher.pc,
             UNCHANGED watcher.moved, UNCHANGED watcher.todo
      PROVE  BoundInv'
  <2>1. \A s, f : Due(s, f) <=> Due(s, f)'
    BY <1>4, Zenon DEF Due
  <2> QED BY <1>2, <1>4, <2>1, Zenon
<1>5. CASE System \/ UNCHANGED markVars
  <2>1. UNCHANGED <<sock, task, stale, index>>
    BY <1>5, Zenon DEF System, NetworkChanges, notifyNetChange, TimerDue, markVars
  <2>2. UNCHANGED watcher.pc /\ UNCHANGED watcher.moved /\ UNCHANGED watcher.todo
    BY <1>3, <1>5, Zenon DEF System, NetworkChanges, notifyNetChange, TimerDue, markVars, Watcher
  <2> QED BY <1>4, <2>1, <2>2, Zenon
<1>6. CASE Swap4
  <2>1. /\ watcher'.pc = "swap6" /\ watcher'.moved = (index[4] # watcher.found[4])
        /\ index' = [index EXCEPT ![4] = watcher.found[4]]
    BY <1>3, <1>6, Zenon DEF Swap4, Watcher
  <2>2. \A s, f : ~Due(s, f)
    BY <1>6, Zenon DEF Swap4, Due
  <2>3. index'[6] = index[6] /\ index'[4] = watcher.found[4]
    BY <1>3, <2>1 DEF PerFamily, Families
  <2>4. \A s, f : f = 4 /\ index[4] # watcher.found[4] => Due(s, f)'
    BY <2>1, Zenon DEF Due
  <2> QED BY <1>2, <1>6, <2>2, <2>3, <2>4, Zenon DEF Swap4, Families
<1>7. CASE Swap6
  <2>1. /\ watcher'.pc = IF watcher.moved \/ index[6] # watcher.found[6] THEN "snapshot" ELSE AfterDetect
        /\ index' = [index EXCEPT ![6] = watcher.found[6]]
    BY <1>3, <1>7, Zenon DEF Swap6, Watcher
  <2>2. index'[4] = index[4] /\ index'[6] = watcher.found[6]
    BY <1>3, <2>1 DEF PerFamily, Families
  <2>3. CASE watcher.moved \/ index[6] # watcher.found[6]
    <3>1. \A s, f : Due(s, f)'
      BY <2>1, <2>3, Zenon DEF Due
    <3> QED BY <1>2, <1>7, <3>1, Zenon DEF Swap6
  <2>4. CASE ~(watcher.moved \/ index[6] # watcher.found[6])
    <3>1. \A s, f : ~Due(s, f)
      BY <1>7, <2>4, Zenon DEF Due, Swap6
    <3> QED BY <1>2, <1>7, <2>2, <2>4, <3>1, Zenon DEF Swap6, Families
  <2> QED BY <2>3, <2>4, Zenon
<1>8. CASE Snapshot
  <2>1. watcher'.pc = "rebind" /\ watcher'.todo = registry
    BY <1>3, <1>8, Zenon DEF Snapshot, Watcher
  <2>2. \A s \in Socks : Tracked(s) => \A f : Due(s, f)'
    BY <2>1, Zenon DEF Registrations, Tracked, Due
  <2> QED BY <1>2, <1>8, <2>2, Zenon DEF Snapshot
<1>9. ASSUME NEW q \in Socks, Evict(q)
      PROVE  BoundInv'
  <2>1. /\ watcher'.pc = watcher.pc /\ watcher'.moved = watcher.moved
        /\ watcher'.todo = watcher.todo \ {q}
    BY <1>3, <1>9, Zenon DEF Evict, Visited, Watcher
  <2>2. \A s \in Socks : Tracked(s) => s # q
    BY <1>9, Zenon DEF Evict, Tracked
  <2>3. \A s \in Socks : Tracked(s) => \A f : Due(s, f) => Due(s, f)'
    BY <2>1, <2>2, Zenon DEF Due
  <2> QED BY <1>2, <1>9, <2>3, Zenon DEF Evict
<1>10. ASSUME NEW q \in Socks, NEW F \in SUBSET FamiliesOf(sock[q].kind), Rebind(q, F)
       PROVE  BoundInv'
  <2>1. PICK W : W = {f \in FamiliesOf(sock[q].kind) \ F : Writes(sock[q].kind, f, index[f], TRUE)}
    BY Zenon
  <2>2. /\ sock' = [sock EXCEPT ![q].opt = [f \in Families |-> IF f \in W THEN index[f] ELSE @[f]]]
        /\ stale' = [f \in Families |-> IF f \in W THEN stale[f] \ {q} ELSE
                                         IF f \in F THEN stale[f] \cup {q} ELSE stale[f]]
        /\ index' = index /\ task' = task /\ watcher.pc = "rebind"
    BY <1>10, <2>1, Zenon DEF Rebind
  <2>3. W = FamiliesOf(sock[q].kind) \ F
    BY <1>1, <2>1, KindFacts, Zenon DEF Writes
  <2>4. /\ sock'[q].life = sock[q].life /\ sock'[q].kind = sock[q].kind
        /\ \A f \in W \cap Families : sock'[q].opt[f] = index[f]
    BY <2>2, Zenon DEF Types, Socket
  <2>5. ASSUME NEW f \in FamiliesOf(sock'[q].kind)
        PROVE  InStep(q, f)'
    <3>1. f \in Families /\ (f \in W \/ (f \in F /\ f \notin W))
      <4>1. f \in FamiliesOf(sock[q].kind) /\ sock[q].kind \in AllKinds
        BY <1>1, <2>4, <2>5, Zenon
      <4> QED BY <2>3, <4>1, KindFacts, Zenon
    <3> QED BY <2>2, <2>4, <3>1, Zenon DEF InStep
  <2>6. ASSUME NEW s \in Socks \ {q}, Tracked(s)', NEW f \in FamiliesOf(sock'[s].kind)
        PROVE  InStep(s, f)'
    <3>1. sock'[s] = sock[s] /\ task'[s] = task[s] /\ index' = index
      BY <2>2, Zenon DEF Types
    <3>2. f \in Families /\ InStep(s, f)
      BY <1>1, <2>6, <3>1, KindFacts, Zenon DEF BoundInv, Tracked
    <3>3. s \in stale[f] => s \in stale'[f]
      BY <2>2, <3>2, Zenon
    <3>4. watcher'.pc = "rebind" /\ watcher'.todo = watcher.todo \ {q}
      BY <1>3, <1>10, Zenon DEF Rebind, Visited, Watcher
    <3>5. Due(s, f) => Due(s, f)'
      BY <2>2, <3>4, Zenon DEF Due
    <3> QED BY <3>1, <3>2, <3>3, <3>5, StaysInStep, Zenon
  <2> QED BY <2>5, <2>6, Zenon DEF BoundInv
<1>11. ASSUME UNCHANGED <<sock, task, stale, index>>, \A s, f : ~Due(s, f)
       PROVE  BoundInv'
  BY <1>2, <1>11, Zenon
<1>12. CASE \/ Scan(4, "scan4", "scan6") \/ ScanFails(4, "scan4", "scan6")
            \/ Scan(6, "scan6", "swap4") \/ ScanFails(6, "scan6", "swap4")
            \/ (\E s \in Socks : KeepLive(s)) \/ RebindDone \/ Resync \/ SweepDone
            \/ Register("route", "registerRoute", "registerIface")
            \/ Register("iface", "registerIface", "select")
            \/ RegisterFails \/ OnNotice \/ OnTimer \/ OnSweep \/ OnDone
  <2>1. UNCHANGED <<sock, task, stale, index>>
    BY <1>12, Zenon DEF Scan, ScanFails, KeepLive, RebindDone, Resync, SweepDone, Register, RegisterFails,
                 OnNotice, OnTimer, OnSweep, OnDone
  <2>2. \/ watcher.pc \in {"scan4", "scan6", "sweep", "resync", "registerRoute", "registerIface", "select"}
        \/ watcher.pc = "rebind" /\ watcher.todo = {}
    BY <1>12, Zenon DEF Scan, ScanFails, KeepLive, RebindDone, Resync, SweepDone, Register, RegisterFails,
                 OnNotice, OnTimer, OnSweep, OnDone
  <2>3. \A s, f : ~Due(s, f)
    BY <2>2, Zenon DEF Due
  <2> QED BY <1>11, <2>1, <2>3, Zenon
<1> QED BY <1>5, <1>6, <1>7, <1>8, <1>9, <1>10, <1>12, Zenon DEF Watch

(***************************************************************************)
(* BoundToUplink, for any sockets and uplinks: whatever the interleaving   *)
(* of bindSocketToUplink with redetectUplinks, outside a re-detection an   *)
(* open UDP socket sends through the current uplink, unless its creation   *)
(* wrote an index that had been replaced or the option was refused.        *)
(***************************************************************************)
THEOREM SocketsAreBound == MarkSpec => []BoundToUplink
<1>1. MarkInit => Types /\ Registrations /\ BoundInv
  BY InitTypes, InitBound, Zenon
<1>2. Types /\ Registrations /\ BoundInv /\ [MarkNext]_markVars => (Types /\ Registrations /\ BoundInv)'
  <2> SUFFICES ASSUME Types, Registrations, BoundInv, [MarkNext]_markVars
               PROVE  (Types /\ Registrations /\ BoundInv)'
    OBVIOUS
  <2>1. Types' /\ Registrations'
    BY NextTypes, NextRegistrations, Zenon
  <2>2. BoundInv'
    BY CreationBound, RestBound, Zenon DEF MarkNext
  <2> QED BY <2>1, <2>2, Zenon
<1>3. Types /\ BoundInv => BoundToUplink
  <2> SUFFICES ASSUME Types, BoundInv,
                      watcher.pc \in {"select", "sweep", "resync", "registerRoute", "registerIface",
                                      "ended", "failed"},
                      NEW s \in Socks, sock[s].life = "open", task[s].pc = "done",
                      Registered(sock[s].kind), NEW f \in FamiliesOf(sock[s].kind)
               PROVE  s \in stale[f] \/ sock[s].opt[f] = index[f]
    BY Zenon DEF BoundToUplink
  <2>1. InStep(s, f)
    BY Zenon DEF BoundInv, Tracked
  <2>2. ~Due(s, f) /\ Past(f, task[s].pc)
    BY Zenon DEF Due, Past
  <2> QED BY <2>1, <2>2, Zenon DEF InStep
<1> QED BY <1>1, <1>2, <1>3, PTL DEF MarkSpec
=============================================================================
