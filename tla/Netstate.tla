------------------------------ MODULE Netstate ------------------------------
(***************************************************************************)
(* The gateway's OS state manager (vpn/netstate): it runs the scripts of    *)
(* NetScripts under Manager.mu, step by step, against a kernel that may     *)
(* refuse any step, a host whose default routes move at any time, and a     *)
(* process that may die between two steps.  The route monitor (Linux) or    *)
(* the network-change watcher (Windows) follows the host's uplinks.         *)
(***************************************************************************)
EXTENDS NetScripts

CONSTANTS Platforms,   \* subset of {"linux", "windows"}
          Uplinks6,    \* the uplinks that may have an IPv6 default
          MaxCalls,    \* bound: enable/disable calls
          MaxTrouble   \* bound: failed kernel operations, moves of the host's
                       \* defaults, lost subscriptions and kills, in all

VARIABLES
  plat, v6,     \* the platform; whether the host has an IPv6 stack
  live,         \* live[f]: interfaces with a default route (main table)
  os,           \* os[o]: how many copies of the object the kernel holds
  fwd, hostFwd, \* forwarding flags now, and as the host had them
  rs,           \* routeState: the objects teardown will delete, {} = nil
  ns,           \* natState; own = {} is nil
  job,          \* the call holding mu: script left and state being built
  mon,          \* the monitor: "idle" or the re-sync it wants mu for
  pend, dirty,  \* an event not yet read; an event read, not yet acted upon
  sub,          \* the netlink subscription is alive
  slips,        \* objects a failed delete or a kill left behind
  missed,       \* exemptions lost: failed adds, copies the kernel purged
  calls, trouble

kernel == <<plat, v6, live, os, fwd, hostFwd>>
monitor == <<mon, pend, dirty, sub>>
bounds == <<calls, trouble>>
vars == <<kernel, rs, ns, job, monitor, slips, missed, bounds>>

Nil == [own |-> {}, fw |-> {}, up |-> None]
NoJob == [goal |-> "none", prog |-> <<>>, ok |-> TRUE, rs |-> {}, ns |-> Nil]
Free == job.goal = "none"
Linux == plat = "linux"
FwdKeys == IF Linux THEN Fams ELSE NICs
Best(us) == IF us = {} THEN None ELSE CHOOSE u \in us : TRUE
Present(o) == os[o] > 0
Trouble == trouble < MaxTrouble /\ trouble' = trouble + 1

Init ==
  /\ plat \in Platforms /\ v6 \in BOOLEAN
  /\ live \in [Fams -> SUBSET Uplinks]
  /\ live["v6"] \subseteq (IF v6 /\ Linux THEN Uplinks6 ELSE {})
  /\ os = [o \in Objects |-> 0]
  /\ \E on \in BOOLEAN : hostFwd = [k \in FwdKeys |-> on /\ k # Tun]
  /\ fwd = hostFwd
  /\ rs = {} /\ ns = Nil /\ job = NoJob
  /\ mon = "idle" /\ pend = FALSE /\ dirty = FALSE /\ sub \in BOOLEAN
  /\ ~Linux => sub
  /\ slips = {} /\ missed = {}
  /\ calls = 0 /\ trouble = 0

(***************************************************************************)
(* Calls of the manager; each takes mu and is a no-op when already done.    *)
(***************************************************************************)
Call(goal, prog, r, n) ==
  /\ Free /\ calls < MaxCalls
  /\ calls' = calls + 1
  /\ job' = [goal |-> goal, prog |-> prog, ok |-> TRUE, rs |-> r, ns |-> n]
  /\ UNCHANGED <<kernel, rs, ns, monitor, slips, missed, trouble>>

EnableClientRoutes ==
  /\ rs = {}
  /\ Call("client", IF Linux THEN setupGatewayRoutes(v6)
                             ELSE setupGatewayRoutesWin(v6), {}, ns)
UndoRoutes(r) ==
  IF Linux THEN teardownGatewayRoutes(r) ELSE teardownGatewayRoutesWin(r)
DisableClientRoutes == rs # {} /\ Call("client", UndoRoutes(rs), {}, ns)

EnableServerNAT ==
  /\ ns.own = {}
  /\ Call("server", IF Linux THEN setupNATLinux(v6) ELSE setupNATWin, rs, Nil)
UndoNAT(n) == IF Linux THEN teardownNATLinux(n) ELSE teardownNATWin(n)
DisableServerNAT == ns.own # {} /\ Call("server", UndoNAT(ns), rs, Nil)

(***************************************************************************)
(* One step of the script in progress.                                     *)
(***************************************************************************)
head == Head(job.prog)
Doing(k) == job.prog # <<>> /\ head.do = k
Recorded ==
  IF job.goal = "client"
  THEN [job EXCEPT !.prog = Tail(@), !.rs = @ \cup head.rec]
  ELSE [job EXCEPT !.prog = Tail(@), !.ns.own = @ \cup head.rec]
Expand(prog) == [job EXCEPT !.prog = prog \o Tail(@)]
Untouched == UNCHANGED <<plat, v6, live, hostFwd, rs, ns, mon, dirty, sub,
                         calls>>
\* A main-table default changed: the monitor gets an event if it listens.
Notify(o) == pend' = (pend \/ (sub /\ o[1] = "tun"))

Create ==
  /\ (Doing("add") /\ ~Present(head.obj)) \/ Doing("insert")
  /\ os' = [os EXCEPT ![head.obj] = @ + 1]
  /\ job' = Recorded
  /\ missed' = missed \ {head.obj} /\ Notify(head.obj)
  /\ Untouched /\ UNCHANGED <<fwd, slips, trouble>>

Delete ==
  /\ Doing("del")
  /\ LET o == head.obj
         n == IF Present(o) THEN os[o] - 1 ELSE 0
     IN /\ os' = [os EXCEPT ![o] = n]
        /\ slips' = IF n = 0 THEN slips \ {o} ELSE slips
        /\ Notify(o)
  /\ job' = Recorded
  /\ Untouched /\ UNCHANGED <<fwd, missed, trouble>>

CloseSession ==
  /\ Doing("close")
  /\ os' = [o \in Objects |-> IF o \in head.rec THEN os[o] - 1 ELSE os[o]]
  /\ slips' = slips \ {o \in head.rec : os'[o] = 0}
  /\ job' = [job EXCEPT !.prog = Tail(@)]
  /\ Untouched /\ UNCHANGED <<fwd, pend, missed, trouble>>

Without(k, objs) == [o \in Objects |-> IF o \in objs THEN 0 ELSE k[o]]
Wipe(objs) ==
  /\ os' = Without(os, objs)
  /\ slips' = slips \ objs

Flush ==
  /\ Doing("flush")
  /\ Wipe(UNION {Copies(f, NICs) : f \in Fams})
  /\ job' = Recorded
  /\ Untouched /\ UNCHANGED <<fwd, pend, missed, trouble>>

\* ClearChain, then DeleteChain, which is refused while a rule jumps there.
DropChain ==
  /\ Doing("dropchain")
  /\ LET f == head.obj[2]
         used == {c \in {Chain(f)} : \E j \in Jumps(f) : Present(j)}
     IN /\ os' = Without(os, (Body(f) \cup {Chain(f)}) \ used)
        /\ slips' = (slips \ (Body(f) \cup {Chain(f)})) \cup used
  /\ job' = Recorded
  /\ Untouched /\ UNCHANGED <<fwd, pend, missed, trouble>>

\* Stale NAT is looked for by its chain (Linux) or its name (Windows).
Stale ==
  /\ Doing("stale")
  /\ job' = Expand(IF ~Present(head.obj) THEN <<>>
                   ELSE IF Linux THEN teardownIptablesRules(head.obj[2])
                   ELSE <<Step("remove", WinNat, "abort", {})>>)
  /\ Untouched /\ UNCHANGED <<os, fwd, pend, slips, missed, trouble>>
RemoveStaleNat ==
  /\ Doing("remove") /\ Wipe({head.obj})
  /\ job' = Recorded
  /\ Untouched /\ UNCHANGED <<fwd, pend, missed, trouble>>

ForwardOn ==
  /\ Doing("fwdon")
  /\ LET k == head.obj[3]
     IN /\ fwd' = [fwd EXCEPT ![k] = TRUE]
        /\ job' = [Recorded EXCEPT !.ns.fw = IF fwd[k] THEN @ ELSE @ \cup {k},
                                   !.ns.up = IF k \in Uplinks THEN k ELSE @]
  /\ Untouched /\ UNCHANGED <<os, pend, slips, missed, trouble>>
ForwardOff ==
  /\ Doing("fwdoff")
  /\ fwd' = [fwd EXCEPT ![head.obj[3]] = FALSE]
  /\ slips' = slips \ {head.obj}
  /\ job' = Recorded
  /\ Untouched /\ UNCHANGED <<os, pend, missed, trouble>>

\* getDefaultRoutes: at setup the whole main table, the TUN default included.
Defaults(f) == Copies(f, live[f] \cup IF Present(TunRoute(f)) THEN {Tun} ELSE {})
\* liveExemptionDefaults: awl's own default left out.
Exempt(f) == Defaults(f) \ {Copy(f, Tun)}

Snapshot ==
  /\ Doing("snapshot")
  /\ job' = Expand(routesOf(head.obj[2], Defaults(head.obj[2])))
  /\ Untouched /\ UNCHANGED <<os, fwd, pend, slips, missed, trouble>>

CopiesOf(r, f) == {o \in r : o[1] = "copy" /\ o[2] = f}

\* reconcile, one family: the record becomes the desired set at once.
Reconcile ==
  /\ Doing("reconcile")
  /\ LET f == head.obj[2]
         old == CopiesOf(job.rs, f)
     IN job' = [Expand(reconcileTable(f, old, Exempt(f)))
                  EXCEPT !.rs = (@ \ old) \cup Exempt(f)]
  /\ Untouched /\ UNCHANGED <<os, fwd, pend, slips, missed, trouble>>

BypassRoutes ==
  /\ Doing("bypass")
  /\ job' = [Expand(replaceBypassRoutes(job.rs, head.fail))
               EXCEPT !.rs = @ \ Bypasses]
  /\ Untouched /\ UNCHANGED <<os, fwd, pend, slips, missed, trouble>>
BypassUplink ==
  /\ Doing("bypassup")
  /\ job' = Expand(addBypassRoute(Best(live["v4"]), head.fail))
  /\ Untouched /\ UNCHANGED <<os, fwd, pend, slips, missed, trouble>>

\* Forwarding on the TUN and on the uplink of the moment, if there is one.
UplinkForwarding ==
  /\ Doing("uplink")
  /\ LET on(k) == Step("fwdon", Fwd(k), head.fail, {})
         best == Best(live["v4"])
     IN job' = Expand(<<on(Tun)>> \o IF best = None THEN <<>> ELSE <<on(best)>>)
  /\ Untouched /\ UNCHANGED <<os, fwd, pend, slips, missed, trouble>>
ResyncForwarding ==
  /\ Doing("refwd")
  /\ job' = Expand(resyncForwarding(job.ns, Best(live["v4"])))
  /\ Untouched /\ UNCHANGED <<os, fwd, pend, slips, missed, trouble>>

(***************************************************************************)
(* A step that fails: the kernel refuses it, or an "add" finds its object   *)
(* there already.  What a failed removal leaves is a slip.                  *)
(***************************************************************************)
AfterFailure ==
  CASE head.fail = "abort" -> [job EXCEPT !.prog = <<>>, !.ok = FALSE]
    [] head.fail = "undo" ->
         [job EXCEPT !.ok = FALSE,
                     !.prog = IF job.goal = "client" THEN UndoRoutes(job.rs)
                                                     ELSE UndoNAT(job.ns)]
    [] head.fail = "undo6" ->
         [job EXCEPT !.prog = teardownIptablesRules("v6")
                              \o restoreForwarding(job.ns)]
    [] head.fail = "restore6" -> [job EXCEPT !.prog = restoreForwarding(job.ns)]
    [] head.fail = "stop" -> [job EXCEPT !.prog = <<>>]
    [] head.fail = "ignore" -> [job EXCEPT !.prog = Tail(@)]

LeftBy(o) ==
  CASE head.do \in {"del", "remove", "fwdoff"} -> {o}
    [] head.do = "close" -> head.rec
    [] head.do = "flush" -> UNION {Copies(f, NICs) : f \in Fams}
    [] head.do = "dropchain" -> {Chain(o[2])} \cup Body(o[2])
    [] OTHER -> {}
Wanted ==
  CASE head.do = "add" -> {head.obj}
    [] head.do = "reconcile" ->
         Exempt(head.obj[2]) \cup CopiesOf(job.rs, head.obj[2])
    [] head.do = "bypassup" -> {Bypass(u) : u \in live["v4"]}
    [] head.do \in {"refwd", "fwdon"} -> {Fwd(None)}
    [] OTHER -> {}

StepFails ==
  /\ job.prog # <<>> /\ ~Doing("bypass")
  /\ \/ Doing("add") /\ Present(head.obj) /\ UNCHANGED trouble
     \/ Trouble
  /\ job' = AfterFailure
  /\ slips' = slips \cup {o \in LeftBy(head.obj) :
                            IF o[1] = "fwd" THEN fwd[o[3]] ELSE Present(o)}
  /\ missed' = missed \cup Wanted
  /\ Untouched /\ UNCHANGED <<os, fwd, pend>>

\* The call returns: its state is published, or dropped after an error.
Finish ==
  /\ ~Free /\ job.prog = <<>>
  /\ rs' = IF job.goal # "client" THEN rs ELSE IF job.ok THEN job.rs ELSE {}
  /\ ns' = IF job.goal # "server" THEN ns ELSE IF job.ok THEN job.ns ELSE Nil
  /\ job' = NoJob
  /\ UNCHANGED <<kernel, monitor, slips, missed, bounds>>

(***************************************************************************)
(* The monitor: events mark it dirty, a tick starts the re-syncs.          *)
(***************************************************************************)
ReadEvent ==
  /\ pend /\ mon = "idle"
  /\ pend' = FALSE /\ dirty' = TRUE
  /\ UNCHANGED <<kernel, rs, ns, job, mon, sub, slips, missed, bounds>>

Tick ==
  /\ dirty /\ mon = "idle"
  /\ dirty' = FALSE
  /\ mon' = IF Linux THEN "reconcile" ELSE "bypass"
  /\ UNCHANGED <<kernel, rs, ns, job, pend, sub, slips, missed, bounds>>

\* Each re-sync takes mu and bails out when its role is off.
Resync(m, next, goal, prog) ==
  /\ mon = m /\ Free
  /\ mon' = next
  /\ job' = [goal |-> goal, prog |-> prog, ok |-> TRUE, rs |-> rs, ns |-> ns]
  /\ UNCHANGED <<kernel, rs, ns, pend, dirty, sub, slips, missed, bounds>>

reconcile ==
  LET step(f) == Step("reconcile", Rule(f), "ignore", {})
  IN Resync("reconcile", "idle", "client",
            IF rs = {} THEN <<>>
            ELSE <<step("v4")>> \o IF Rule("v6") \in rs THEN <<step("v6")>>
                                                        ELSE <<>>)
resyncClientBypassRoutes ==
  Resync("bypass", "forwarding", "client",
         IF rs = {} THEN <<>> ELSE <<Step("bypass", Bypass(None), "ignore", {})>>)
resyncServerForwarding ==
  Resync("forwarding", "idle", "server",
         IF ns.own = {} THEN <<>> ELSE <<Step("refwd", Fwd(None), "ignore", {})>>)

\* The subscription dies and what was queued is lost; a new one catches up.
SubscriptionDies ==
  /\ Linux /\ sub /\ Trouble
  /\ sub' = FALSE /\ pend' = FALSE
  /\ UNCHANGED <<kernel, rs, ns, job, mon, dirty, slips, missed, calls>>
resubscribeForgets ==
  /\ ~sub /\ mon = "idle"
  /\ sub' = TRUE
  /\ UNCHANGED <<kernel, rs, ns, job, mon, pend, dirty, slips, missed, bounds>>
resubscribe ==
  /\ ~sub /\ mon = "idle"
  /\ sub' = TRUE /\ dirty' = TRUE
  /\ UNCHANGED <<kernel, rs, ns, job, mon, pend, slips, missed, bounds>>

(***************************************************************************)
(* The environment.                                                        *)
(***************************************************************************)
\* The host's defaults move; a link that goes down takes its copies with it.
HostMoves(f, us, linkDown) ==
  LET gone == IF linkDown
              THEN {o \in Objects : o[1] \in {"copy", "bypass"} /\ o[2] = f
                                    /\ o[3] \in live[f] \ us /\ Present(o)}
              ELSE {}
  IN /\ Trouble /\ us # live[f]
     /\ f = "v6" => v6 /\ Linux /\ us \subseteq Uplinks6
     /\ live' = [live EXCEPT ![f] = us]
     /\ Wipe(gone) /\ missed' = missed \cup gone
     /\ pend' = sub
     /\ UNCHANGED <<plat, v6, fwd, hostFwd, rs, ns, job, mon, dirty, sub, calls>>

\* kill -9: the TUN goes with what is bound to it, so do WFP's dynamic
\* sessions; the rest stays in the kernel and nobody remembers it.
DiesWithProcess(o) == (o[3] = Tun /\ o[1] # "copy") \/ o \in FenceObjects \cup WfpObjects
Crash ==
  /\ Trouble
  /\ os' = Without(os, {o \in Objects : DiesWithProcess(o)})
  /\ fwd' = [k \in FwdKeys |-> fwd[k] /\ k # Tun]
  /\ slips' = {o \in Objects : os'[o] > 0}
              \cup {Fwd(k) : k \in {k \in FwdKeys : fwd'[k] # hostFwd[k]}}
  /\ rs' = {} /\ ns' = Nil /\ job' = NoJob
  /\ mon' = "idle" /\ pend' = FALSE /\ dirty' = FALSE
  /\ sub' \in (IF Linux THEN BOOLEAN ELSE {TRUE})
  /\ UNCHANGED <<plat, v6, live, hostFwd, missed, calls>>

Next ==
  \/ EnableClientRoutes \/ DisableClientRoutes
  \/ EnableServerNAT \/ DisableServerNAT
  \/ Create \/ Delete \/ CloseSession \/ Flush \/ DropChain \/ Stale \/ RemoveStaleNat
  \/ ForwardOn \/ ForwardOff \/ Snapshot \/ Reconcile \/ BypassRoutes
  \/ BypassUplink \/ UplinkForwarding \/ ResyncForwarding \/ StepFails \/ Finish
  \/ ReadEvent \/ Tick \/ reconcile
  \/ resyncClientBypassRoutes \/ resyncServerForwarding
  \/ SubscriptionDies \/ resubscribe
  \/ \E f \in Fams, us \in SUBSET Uplinks, down \in BOOLEAN :
        HostMoves(f, us, down)
  \/ Crash

Spec == Init /\ [][Next]_vars

-----------------------------------------------------------------------------
\* What the published state answers for.
Owned ==
  rs \cup (IF Linux THEN UNION {NatObjects(o[2]) : o \in ns.own} ELSE ns.own)

\* Whenever no call is in progress, every object of awl's in the kernel is one
\* the manager's state will remove, or one a failed removal or a kill left
\* behind, and a forwarding flag differs from what the host had only while the
\* server is on and will restore it, or because a restore failed or was cut
\* short: no rollback, teardown, re-sync or stale clean-up forgets anything.
NothingForgotten ==
  Free => /\ \A o \in Objects : Present(o) => o \in Owned \cup slips
          /\ \A k \in FwdKeys :
               fwd[k] # hostFwd[k] => k \in ns.fw \/ Fwd(k) \in slips

\* What must be up before an object may be: the private-subnet drops before
\* the accept, a filled chain before the jumps and the masquerade, the WFP
\* blocks before the capture and the NAT, and the permits of awl's own traffic
\* before the block that would cut it.
Guards(o) ==
  CASE o[1] = "drop" -> {<<"conntrack", o[2], None>>}
    [] o[1] = "accept" -> {<<"drop", o[2], None>>}
    [] o[1] \in {"out", "return"} -> Body(o[2])
    [] o[1] = "masq" -> Jumps(o[2])
    [] o[1] = "block" -> {Permits(o[2])}
    [] o[1] \in {"half0", "half1", "bypass"} -> {Block(f) : f \in Fams}
    [] o[1] = "winnat" -> {WfpBlock}
    [] OTHER -> {}

\* The fail-closed order of setup, rollback and teardown, at every step of
\* every interleaving: an object that needs guards is never there without
\* them, unless a failed removal or a kill left it or broke them.
FailClosed ==
  \A o \in Objects :
    Present(o) /\ o \notin slips /\ Guards(o) \cap slips = {}
      => \A g \in Guards(o) : Present(g)

Settled == Free /\ mon = "idle" /\ ~pend /\ ~dirty /\ sub

\* Once the monitor has nothing left to do, the gateway's exemptions are those
\* of the live defaults, whatever moved while the call was running: copies in
\* the exemption table, bypass routes and forwarding on the best uplink.
ExemptionsFollow ==
  Settled =>
    /\ Linux /\ rs # {} => \A f \in Fams : Rule(f) \in rs =>
         \A o \in Copies(f, Uplinks) \ missed :
           o \in rs <=> o \in Exempt(f) /\ Present(o)
    /\ ~Linux /\ rs # {} => \A u \in {Best(live["v4"])} \ {None} :
         Bypass(u) \in rs \/ Bypass(u) \in missed
    /\ ~Linux /\ ns.own # {} /\ live["v4"] # {} /\ Fwd(None) \notin missed =>
         ns.up = Best(live["v4"])
=============================================================================
