------------------------------ MODULE SockMark ------------------------------
(***************************************************************************)
(* Socket marking on Windows: sockmark_windows.go, sock_registry_windows.go,*)
(* uplink_windows.go and the watch goroutine of manager_windows.go.        *)
(*                                                                         *)
(* Every socket of the libp2p host and of the SOCKS5 exit is bound to the  *)
(* physical uplink when it is created.  UDP sockets are also registered,   *)
(* and bound again when the watcher finds that the uplink changed.  A step *)
(* is one atomic load or swap, one critical section of the registry, one   *)
(* scan of the routing table or one socket option, so the creation of a    *)
(* socket interleaves with the watcher wherever the code lets it.          *)
(***************************************************************************)
EXTENDS Integers

CONSTANTS
  Socks,        \* sockets the process creates, each once
  Kinds,        \* kinds of sockets it creates
  Uplinks,      \* interface indexes
  Tables,       \* routing tables: the metric of the default route of each
                \* uplink, 0 where it has none or is down
  MaxMoves,   \* bound: changes of the routing tables
  MaxTrouble,   \* bound: failing scans and socket options
  BurstMax      \* notifications that fit into debounceBurstMax

AllKinds == {"udp4", "udp6", "udpDual", "udpAny", "tcp4"}
Families == {4, 6}

ASSUME KindsKnown == Kinds \subseteq AllKinds
ASSUME UplinksIndexed == Uplinks \subseteq Nat \ {0}
ASSUME TablesTyped == Tables \subseteq [Uplinks -> Nat]
ASSUME BoundsTyped == MaxMoves \in Nat /\ MaxTrouble \in Nat /\ BurstMax \in Nat

VARIABLES
  table,     \* per family, the routing table of the system
  index,     \* Manager.index4 and index6
  callbacks, \* the callbacks registered with the system
  notice,    \* netChangeCh holds a notification
  registry,  \* sockRegistry.entries
  sock,      \* the sockets: kind, life and the options in the kernel
  task,      \* per socket, bindSocketToUplink of its creation
  watcher,   \* the goroutine of Start, then of watch
  moves,   \* changes of the routing tables so far
  trouble,   \* failures so far
  stale,     \* history: per family, sockets whose creation wrote an index
             \* that a re-detection had replaced, or whose option was refused
  blind      \* history: families that changed unannounced or whose last
             \* scan failed

markVars == <<table, index, callbacks, notice, registry, sock, task, watcher,
          moves, trouble, stale, blind>>

-----------------------------------------------------------------------------
(* Operators *)

Usable(t) == {u \in Uplinks : t[u] > 0}

(* bestUplink: the lowest metric, the first row of the table on a tie. *)
bestUplink(t) ==
  IF Usable(t) = {} THEN 0
  ELSE CHOOSE u \in Usable(t) :
         \A w \in Usable(t) : t[u] < t[w] \/ (t[u] = t[w] /\ u <= w)

(* The families a socket sends with. *)
FamiliesOf(kind) ==
  CASE kind \in {"udp4", "udpAny", "tcp4"} -> {4}
    [] kind = "udp6"                       -> {6}
    [] kind = "udpDual"                    -> {4, 6}

(* unicastIFFamilies, with the IPV6_V6ONLY test of bindSocketToUplink: the *)
(* options written to a socket.  The family of udpAny cannot be told from  *)
(* its network and address: both are tried and the wrong one is refused.   *)
unicastIFFamilies(kind) == IF kind = "udpAny" THEN Families ELSE FamiliesOf(kind)
confident(kind) == kind # "udpAny"

Registered(kind) == kind # "tcp4"

(* bindSocketToUplink writes the option of f; at creation it skips a       *)
(* family without uplink.                                                  *)
Writes(kind, f, idx, rebind) == f \in unicastIFFamilies(kind) /\ (idx # 0 \/ rebind)

NoTask == [pc |-> "none", idx |-> [f \in Families |-> 0]]
MarkInit ==
  /\ table \in [Families -> Tables]
  /\ index = [f \in Families |-> 0]
  /\ callbacks = {} /\ notice = FALSE
  /\ registry = {}
  /\ sock = [s \in Socks |-> [kind |-> "udp4", life |-> "none",
                              opt |-> [f \in Families |-> 0]]]
  /\ task = [s \in Socks |-> NoTask]
  /\ watcher = [pc |-> "scan4", found |-> [f \in Families |-> 0], moved |-> FALSE,
                todo |-> {}, pending |-> FALSE, burst |-> 0, due |-> FALSE]
  /\ moves = 0 /\ trouble = 0
  /\ stale = [f \in Families |-> {}]
  /\ blind = {}

-----------------------------------------------------------------------------
(* Creation of a socket: ControlFunc, in the goroutine that dials or       *)
(* listens.                                                                *)

Step(s, pc) ==
  task' = [task EXCEPT ![s].pc = pc, ![s].idx = IF pc = "done" THEN NoTask.idx ELSE @]

(* Start has returned before the first socket is created. *)
Started == callbacks = {"route", "iface"} \/ watcher.pc = "ended"

(* The socket exists; a UDP socket is registered before anything is read. *)
ControlFunc(s, kind) ==
  /\ Started
  /\ sock[s].life = "none"
  /\ sock' = [sock EXCEPT ![s].kind = kind, ![s].life = "open"]
  /\ registry' = IF Registered(kind) THEN registry \cup {s} ELSE registry
  /\ Step(s, "load4")
  /\ UNCHANGED <<table, index, callbacks, notice, watcher, moves, trouble, stale, blind>>

LoadIndex(s, f, pc, next) ==
  /\ task[s].pc = pc
  /\ task' = [task EXCEPT ![s].pc = next, ![s].idx[f] = index[f]]
  /\ UNCHANGED <<table, index, callbacks, notice, registry, sock, watcher,
                 moves, trouble, stale, blind>>

(* An option the socket has is written, with the index that was loaded. *)
SetOption(s, f, pc, next) ==
  /\ task[s].pc = pc
  /\ Writes(sock[s].kind, f, task[s].idx[f], FALSE) /\ f \in FamiliesOf(sock[s].kind)
  /\ sock' = [sock EXCEPT ![s].opt[f] = task[s].idx[f]]
  /\ stale' = IF task[s].idx[f] = index[f] THEN stale ELSE [stale EXCEPT ![f] = @ \cup {s}]
  /\ Step(s, next)
  /\ UNCHANGED <<table, index, callbacks, notice, registry, watcher, moves,
                 trouble, blind>>

(* Nothing to write: another family, no uplink, or the wrong family of a   *)
(* socket that is not confident, whose refusal is ignored.                 *)
SkipOption(s, f, pc, next) ==
  /\ task[s].pc = pc
  /\ ~(Writes(sock[s].kind, f, task[s].idx[f], FALSE) /\ f \in FamiliesOf(sock[s].kind))
  /\ Step(s, next)
  /\ UNCHANGED <<table, index, callbacks, notice, registry, sock, watcher,
                 moves, trouble, stale, blind>>

(* The system refuses an option: a confident socket fails the dial or the  *)
(* listen (its other option no longer matters), another goes on without.   *)
OptionRefused(s, f, pc, next) ==
  LET kind == sock[s].kind IN
  /\ task[s].pc = pc
  /\ trouble < MaxTrouble
  /\ f \in FamiliesOf(kind) /\ Writes(kind, f, task[s].idx[f], FALSE)
  /\ Step(s, IF confident(kind) THEN "failed" ELSE next)
  /\ stale' = [stale EXCEPT ![f] = @ \cup {s}]
  /\ trouble' = trouble + 1
  /\ UNCHANGED <<table, index, callbacks, notice, registry, sock, watcher,
                 moves, blind>>

(* The caller closes the socket whose control function failed. *)
CreateFails(s) ==
  /\ task[s].pc = "failed"
  /\ sock' = [sock EXCEPT ![s].life = "closed", ![s].opt = NoTask.idx]
  /\ stale' = [f \in Families |-> stale[f] \ {s}]
  /\ Step(s, "done")
  /\ UNCHANGED <<table, index, callbacks, notice, registry, watcher, moves,
                 trouble, blind>>

(* The owner closes a socket it finished creating; its options go with it. *)
CloseSocket(s) ==
  /\ task[s].pc = "done" /\ sock[s].life = "open"
  /\ sock' = [sock EXCEPT ![s].life = "closed", ![s].opt = NoTask.idx]
  /\ stale' = [f \in Families |-> stale[f] \ {s}]
  /\ UNCHANGED <<table, index, callbacks, notice, registry, task, watcher,
                 moves, trouble, blind>>

Creation ==
  \E s \in Socks :
    \/ \E kind \in Kinds : ControlFunc(s, kind)
    \/ LoadIndex(s, 4, "load4", "load6")
    \/ LoadIndex(s, 6, "load6", "set6")
    \/ SetOption(s, 6, "set6", "set4")
    \/ SkipOption(s, 6, "set6", "set4")
    \/ OptionRefused(s, 6, "set6", "set4")
    \/ SetOption(s, 4, "set4", "done")
    \/ SkipOption(s, 4, "set4", "done")
    \/ OptionRefused(s, 4, "set4", "done")
    \/ CreateFails(s)
    \/ CloseSocket(s)

-----------------------------------------------------------------------------
(* The system *)

(* A default route appears or goes, or a metric changes.  Route events go  *)
(* to the route callback, metric changes to the interface callback; the    *)
(* callbacks fill a channel of one and never block.                        *)
NetworkChanges(f, t) ==
  /\ moves < MaxMoves
  /\ t # table[f]
  /\ LET announced == (IF Usable(t) = Usable(table[f]) THEN "iface" ELSE "route") \in callbacks IN
       /\ notice' = (notice \/ announced)
       /\ blind' = IF announced THEN blind ELSE blind \cup {f}
  /\ table' = [table EXCEPT ![f] = t]
  /\ moves' = moves + 1
  /\ UNCHANGED <<index, callbacks, registry, sock, task, watcher, trouble, stale>>

(* notifyNetChange for an event that changes no best route. *)
notifyNetChange ==
  /\ callbacks # {}
  /\ notice' = TRUE
  /\ UNCHANGED <<table, index, callbacks, registry, sock, task, watcher, moves,
                 trouble, stale, blind>>

(* The coalescing timer runs out.  It does not while a notification waits: *)
(* those of a burst come faster than debounceInterval.                     *)
TimerDue ==
  /\ watcher.pending /\ ~watcher.due /\ ~notice
  /\ watcher' = [watcher EXCEPT !.due = TRUE]
  /\ UNCHANGED <<table, index, callbacks, notice, registry, sock, task, moves,
                 trouble, stale, blind>>

System ==
  \/ \E f \in Families, t \in Tables : NetworkChanges(f, t)
  \/ notifyNetChange
  \/ TimerDue

-----------------------------------------------------------------------------
(* The watcher *)

Goto(pc) == watcher' = [watcher EXCEPT !.pc = pc]

(* detectUplinkIndexes: one scan per family; a failed one counts as no     *)
(* uplink.                                                                 *)
Scan(f, pc, next) ==
  /\ watcher.pc = pc
  /\ watcher' = [watcher EXCEPT !.pc = next, !.found[f] = bestUplink(table[f])]
  /\ blind' = blind \ {f}
  /\ UNCHANGED <<table, index, callbacks, notice, registry, sock, task, moves,
                 trouble, stale>>

ScanFails(f, pc, next) ==
  /\ watcher.pc = pc
  /\ trouble < MaxTrouble
  /\ watcher' = [watcher EXCEPT !.pc = next, !.found[f] = 0]
  /\ blind' = blind \cup {f}
  /\ trouble' = trouble + 1
  /\ UNCHANGED <<table, index, callbacks, notice, registry, sock, task, moves, stale>>

(* redetectUplinks is over: in Start the callbacks are next, in            *)
(* onNetworkChange the gateway's routes and forwarding.                    *)
AfterDetect == IF callbacks = {} THEN "registerRoute" ELSE "resync"

(* Mutant: only the second index decides whether to bind again. *)
Swap6Only ==
  /\ watcher.pc = "swap6"
  /\ index' = [index EXCEPT ![6] = watcher.found[6]]
  /\ watcher' = [watcher EXCEPT !.pc = IF index[6] # watcher.found[6] THEN "snapshot" ELSE AfterDetect,
                                !.moved = FALSE, !.found[6] = 0]
  /\ UNCHANGED <<table, callbacks, notice, registry, sock, task, moves, trouble,
                 stale, blind>>

Swap4 ==
  /\ watcher.pc = "swap4"
  /\ index' = [index EXCEPT ![4] = watcher.found[4]]
  /\ watcher' = [watcher EXCEPT !.pc = "swap6", !.moved = index[4] # watcher.found[4],
                                !.found[4] = 0]
  /\ UNCHANGED <<table, callbacks, notice, registry, sock, task, moves, trouble,
                 stale, blind>>

Swap6 ==
  /\ watcher.pc = "swap6"
  /\ index' = [index EXCEPT ![6] = watcher.found[6]]
  /\ watcher' = [watcher EXCEPT !.pc = IF watcher.moved \/ index[6] # watcher.found[6]
                                         THEN "snapshot" ELSE AfterDetect,
                                !.moved = FALSE, !.found[6] = 0]
  /\ UNCHANGED <<table, callbacks, notice, registry, sock, task, moves, trouble,
                 stale, blind>>

(* forEachLive copies the registry, then visits the copy unlocked. *)
Snapshot ==
  /\ watcher.pc = "snapshot"
  /\ watcher' = [watcher EXCEPT !.pc = "rebind", !.todo = registry]
  /\ UNCHANGED <<table, index, callbacks, notice, registry, sock, task, moves,
                 trouble, stale, blind>>

Visited(s, pc) == watcher' = [watcher EXCEPT !.pc = pc, !.todo = @ \ {s}]

(* Mutant: only a failed re-binding removes the entry. *)
EvictOnRebind(s) ==
  /\ watcher.pc \in {"rebind", "sweep"}
  /\ s \in watcher.todo /\ sock[s].life = "closed"
  /\ registry' = IF watcher.pc = "rebind" THEN registry \ {s} ELSE registry
  /\ Visited(s, watcher.pc)
  /\ UNCHANGED <<table, index, callbacks, notice, sock, task, moves, trouble,
                 stale, blind>>

(* Control fails on a closed socket: its entry goes. *)
Evict(s) ==
  /\ watcher.pc \in {"rebind", "sweep"}
  /\ s \in watcher.todo /\ sock[s].life = "closed"
  /\ registry' = registry \ {s}
  /\ Visited(s, watcher.pc)
  /\ UNCHANGED <<table, index, callbacks, notice, sock, task, moves, trouble,
                 stale, blind>>

(* bindSocketToUplink with rebind: this goroutine alone writes the         *)
(* indexes, and 0 is written too.  The two options are independent and are *)
(* one step; F is the set of refused ones.                                 *)
Rebind(s, F) ==
  LET kind == sock[s].kind
      written == {f \in FamiliesOf(kind) \ F : Writes(kind, f, index[f], TRUE)} IN
  /\ watcher.pc = "rebind"
  /\ s \in watcher.todo /\ sock[s].life = "open"
  /\ F = {} \/ trouble < MaxTrouble
  /\ sock' = [sock EXCEPT ![s].opt = [f \in Families |-> IF f \in written THEN index[f] ELSE @[f]]]
  /\ stale' = [f \in Families |-> IF f \in written THEN stale[f] \ {s} ELSE
                                   IF f \in F THEN stale[f] \cup {s} ELSE stale[f]]
  /\ trouble' = IF F = {} THEN trouble ELSE trouble + 1
  /\ Visited(s, "rebind")
  /\ UNCHANGED <<table, index, callbacks, notice, registry, task, moves, blind>>

RebindDone ==
  /\ watcher.pc = "rebind" /\ watcher.todo = {}
  /\ Goto(AfterDetect)
  /\ UNCHANGED <<table, index, callbacks, notice, registry, sock, task, moves,
                 trouble, stale, blind>>

(* Mutant: what arrived during the detection counts as handled. *)
ResyncDrains ==
  /\ watcher.pc = "resync"
  /\ Goto("select")
  /\ notice' = FALSE
  /\ UNCHANGED <<table, index, callbacks, registry, sock, task, moves, trouble,
                 stale, blind>>

(* resyncClientBypassRoutes and resyncServerForwarding: the watcher waits  *)
(* here for mu while a gateway call holds it.  What they do is in Netstate.*)
Resync ==
  /\ watcher.pc = "resync"
  /\ Goto("select")
  /\ UNCHANGED <<table, index, callbacks, notice, registry, sock, task, moves,
                 trouble, stale, blind>>

(* Start registers the callbacks after its first detection; a failure      *)
(* unregisters the first one and fails the start.                          *)
Register(cb, pc, next) ==
  /\ watcher.pc = pc
  /\ callbacks' = callbacks \cup {cb}
  /\ Goto(next)
  /\ UNCHANGED <<table, index, notice, registry, sock, task, moves, trouble,
                 stale, blind>>

RegisterFails ==
  /\ watcher.pc \in {"registerRoute", "registerIface"}
  /\ trouble < MaxTrouble
  /\ trouble' = trouble + 1
  /\ callbacks' = {}
  /\ Goto("failed")
  /\ UNCHANGED <<table, index, notice, registry, sock, task, moves, stale, blind>>

(* Mutant: every notification restarts the timer. *)
OnNoticeRestarts ==
  /\ watcher.pc = "select" /\ notice
  /\ notice' = FALSE
  /\ watcher' = [watcher EXCEPT !.pending = TRUE, !.due = FALSE]
  /\ UNCHANGED <<table, index, callbacks, registry, sock, task, moves, trouble,
                 stale, blind>>

(* watch: a notification.  The first one of a burst starts the timer, the  *)
(* next ones restart it, unless the burst has lasted debounceBurstMax.     *)
OnNotice ==
  /\ watcher.pc = "select" /\ notice
  /\ notice' = FALSE
  /\ watcher' =
       IF ~watcher.pending
         THEN [watcher EXCEPT !.pending = TRUE]
       ELSE IF watcher.burst >= BurstMax
         THEN [watcher EXCEPT !.pending = FALSE, !.due = FALSE, !.burst = 0, !.pc = "scan4"]
       ELSE [watcher EXCEPT !.due = FALSE, !.burst = @ + 1]
  /\ UNCHANGED <<table, index, callbacks, registry, sock, task, moves, trouble,
                 stale, blind>>

OnTimer ==
  /\ watcher.pc = "select" /\ watcher.due
  /\ watcher' = [watcher EXCEPT !.pending = FALSE, !.due = FALSE, !.burst = 0, !.pc = "scan4"]
  /\ UNCHANGED <<table, index, callbacks, notice, registry, sock, task, moves,
                 trouble, stale, blind>>

(* The periodic sweep: a snapshot, then Evict for each closed socket. *)
OnSweep ==
  /\ watcher.pc = "select"
  /\ watcher' = [watcher EXCEPT !.pc = "sweep", !.todo = registry]
  /\ UNCHANGED <<table, index, callbacks, notice, registry, sock, task, moves,
                 trouble, stale, blind>>

KeepLive(s) ==
  /\ watcher.pc = "sweep"
  /\ s \in watcher.todo /\ sock[s].life = "open"
  /\ Visited(s, "sweep")
  /\ UNCHANGED <<table, index, callbacks, notice, registry, sock, task, moves,
                 trouble, stale, blind>>

SweepDone ==
  /\ watcher.pc = "sweep" /\ watcher.todo = {}
  /\ Goto("select")
  /\ UNCHANGED <<table, index, callbacks, notice, registry, sock, task, moves,
                 trouble, stale, blind>>

(* The context is cancelled: the callbacks are unregistered. *)
OnDone ==
  /\ watcher.pc = "select"
  /\ Goto("ended")
  /\ callbacks' = {}
  /\ UNCHANGED <<table, index, notice, registry, sock, task, moves, trouble,
                 stale, blind>>

(* The watcher never stops in the middle of one of these. *)
Watch ==
  \/ Scan(4, "scan4", "scan6") \/ ScanFails(4, "scan4", "scan6")
  \/ Scan(6, "scan6", "swap4") \/ ScanFails(6, "scan6", "swap4")
  \/ Swap4 \/ Swap6 \/ Snapshot
  \/ \E s \in Socks : Evict(s) \/ KeepLive(s) \/ \E F \in SUBSET FamiliesOf(sock[s].kind) : Rebind(s, F)
  \/ RebindDone \/ Resync \/ SweepDone
  \/ Register("route", "registerRoute", "registerIface")
  \/ Register("iface", "registerIface", "select")
  \/ RegisterFails

MarkNext == Creation \/ System \/ Watch \/ OnNotice \/ OnTimer \/ OnSweep \/ OnDone

MarkSpec == MarkInit /\ [][MarkNext]_markVars

(* A goroutine with work goes on, a select takes each ready case in the    *)
(* end, a timer runs out, and a gateway call releases mu.                  *)
FairSpec ==
  /\ MarkSpec
  /\ WF_markVars(Watch) /\ SF_markVars(OnNotice) /\ SF_markVars(OnTimer) /\ SF_markVars(OnSweep)
  /\ WF_markVars(TimerDue)

-----------------------------------------------------------------------------
(* Properties *)

(* Outside a re-detection every open UDP socket that was fully created is  *)
(* bound to the current uplink of each of its families: the ones there     *)
(* before were bound again, the ones created meanwhile read the new index. *)
(* The exceptions are a socket whose creation read its index before a      *)
(* re-detection and wrote it after (bindSocketToUplink reads and writes    *)
(* without a lock), and one that refused the option, both until the next   *)
(* change.                                                                 *)
BoundToUplink ==
  watcher.pc \in {"select", "sweep", "resync", "registerRoute", "registerIface", "ended",
                 "failed"} =>
    \A s \in Socks :
      sock[s].life = "open" /\ task[s].pc = "done" /\ Registered(sock[s].kind) =>
        \A f \in FamiliesOf(sock[s].kind) : s \in stale[f] \/ sock[s].opt[f] = index[f]

(* When the watcher rests and no notification or timer is pending, the     *)
(* indexes are the best uplinks of the system, except for a family whose   *)
(* scan failed or that changed before Start registered its callbacks: no   *)
(* order of notifications and detections loses a change.                   *)
IndexFresh ==
  watcher.pc \in {"select", "sweep"} /\ ~notice /\ ~watcher.pending =>
    \A f \in Families \ blind : index[f] = bestUplink(table[f])

(* A notification leads to a re-detection even if they never stop coming   *)
(* (debounceBurstMax).                                                     *)
Redetects == (notice \/ watcher.pending) ~> (watcher.pc \in {"scan4", "ended", "failed"})

(* The registry lets go of every closed socket while the watcher lives,    *)
(* also when the network never changes again (the sweep).                  *)
ClosedEvicted ==
  \A s \in Socks :
    (sock[s].life = "closed") ~> (s \notin registry \/ watcher.pc = "ended")
=============================================================================
