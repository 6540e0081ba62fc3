----------------------------- MODULE NetScripts -----------------------------
(***************************************************************************)
(* What vpn/netstate does to the operating system, as data: every setup,    *)
(* rollback, teardown and stale clean-up of the gateway is a script, a      *)
(* sequence of steps on kernel objects, each of which may fail.  The module *)
(* holds the scripts of the two platforms (routes_linux.go, nat_linux.go,   *)
(* routes_windows.go, nat_windows.go); Netstate runs them under the         *)
(* manager's mutex.                                                         *)
(***************************************************************************)
EXTENDS Naturals, Sequences, SequencesExt, FiniteSets

CONSTANTS Uplinks,   \* physical interfaces that can hold a default route
          Tun,       \* the TUN adapter
          None       \* no interface

Fams == {"v4", "v6"}
NICs == Uplinks \cup {Tun}

ASSUME InterfacesAssumption ==
  /\ IsFiniteSet(Uplinks)
  /\ Tun \notin Uplinks /\ None \notin NICs
  /\ Fams \cap (NICs \cup {None}) = {}

(***************************************************************************)
(* Kernel objects, as <<kind, family, interface>>.                         *)
(***************************************************************************)
Rule(f) == <<"rule", f, None>>           \* ip rule: fwmark -> tableID
Copy(f, u) == <<"copy", f, u>>           \* a default route copied to tableID
TunRoute(f) == <<"tun", f, Tun>>         \* default route via the TUN
Chain(f) == <<"chain", f, None>>         \* AWL-FORWARD / AWL6-FORWARD
Body(f) == {<<k, f, None>> : k \in {"conntrack", "drop", "accept"}}
Jumps(f) == {<<k, f, None>> : k \in {"out", "return"}}
Masq(f) == <<"masq", f, None>>
Fence == <<"fence", "v4", None>>         \* client WFP session
Permits(f) == <<"permits", f, None>>     \* its permits at the layer of f
Block(f) == <<"block", f, None>>         \* its block below them
Half(k, f) == <<k, f, Tun>>              \* a /1 route via the TUN
Bypass(u) == <<"bypass", "v4", u>>       \* bypass prefixes routed on u
Wfp == <<"wfp", "v4", None>>             \* server WFP session
WfpBlock == <<"wfpblock", "v4", None>>   \* its block of private subnets
WinNat == <<"winnat", "v4", None>>
Fwd(k) == <<"fwd", "v4", k>>             \* IP forwarding, per family or NIC

Copies(f, us) == {Copy(f, u) : u \in us}
Halves == {Half(k, f) : k \in {"half0", "half1"}, f \in Fams}
Bypasses == {Bypass(u) : u \in Uplinks}
NatObjects(f) == {Chain(f), Masq(f)} \cup Body(f) \cup Jumps(f)
LinuxObjects ==
  UNION {{Rule(f), TunRoute(f)} \cup Copies(f, NICs) \cup NatObjects(f)
         : f \in Fams}
FenceObjects == {Fence} \cup UNION {{Permits(f), Block(f)} : f \in Fams}
WfpObjects == {Wfp, WfpBlock}
WindowsObjects == FenceObjects \cup WfpObjects \cup {WinNat} \cup Halves \cup Bypasses
Objects == LinuxObjects \cup WindowsObjects

(***************************************************************************)
(* Steps.  "fail" says what an error at the step leads to: "abort" returns  *)
(* it as is, "undo" tears down what the call recorded so far, "undo6" and   *)
(* "restore6" give up the optional NAT6 part only, "stop" ends the script   *)
(* without an error, "ignore" goes on.  "rec" is recorded on success; the   *)
(* closing of a WFP session takes it away instead.                          *)
(***************************************************************************)
Step(do, o, fail, rec) == [do |-> do, obj |-> o, fail |-> fail, rec |-> rec]
Add(o, fail, rec) == Step("add", o, fail, rec)       \* refused if present
Insert(o, fail, rec) == Step("insert", o, fail, rec) \* duplicates allowed
Del(o) == Step("del", o, "ignore", {})
\* A dynamic WFP session goes with every rule added under it.
Close(objs) ==
  IF objs = {} THEN <<>> ELSE <<Step("close", Fence, "ignore", objs)>>
Dels(objs) == [i \in 1..Cardinality(objs) |-> Del(SetToSeq(objs)[i])]
Adds(objs, fail) ==
  [i \in 1..Cardinality(objs) |-> Add(SetToSeq(objs)[i], fail, {})]

(***************************************************************************)
(* Linux, client routes.                                                   *)
(***************************************************************************)
\* Teardown order: TUN default, copies, rule, one family after the other.
teardownRoutesOf(f, rs) ==
  Dels(rs \cap {TunRoute(f)}) \o Dels(rs \cap Copies(f, NICs))
  \o Dels(rs \cap {Rule(f)})

teardownGatewayRoutes(rs) ==
  teardownRoutesOf("v4", rs) \o teardownRoutesOf("v6", rs)

\* tableID is flushed as a whole, whatever is in it.
cleanupStaleRoutes ==
  <<Del(Rule("v4")), Step("flush", Rule("v4"), "ignore", {}), Del(Rule("v6"))>>

\* Once the defaults of a family are read: the rule, the copies, the capture.
routesOf(f, copies) ==
  LET fail == IF f = "v4" THEN "abort" ELSE "undo"
  IN <<Add(Rule(f), fail, {Rule(f)} \cup copies)>>
     \o Adds(copies, "undo")
     \o <<Add(TunRoute(f), "undo", {TunRoute(f)})>>

setupIPv6TunRouteNoRollback(v6) ==
  IF v6 THEN <<Step("snapshot", Rule("v6"), "abort", {})>> ELSE <<>>
setupIPv6TunRoute(v6) ==
  IF v6 THEN <<Step("snapshot", Rule("v6"), "undo", {})>> ELSE <<>>

setupGatewayRoutes(v6) ==
  cleanupStaleRoutes \o <<Step("snapshot", Rule("v4"), "abort", {})>>
  \o setupIPv6TunRoute(v6)

\* The exemption copies that went stale leave, the new ones arrive.
reconcileTable(f, old, new) ==
  Dels(old \ new) \o Adds(new \ old, "ignore")

(***************************************************************************)
(* Linux, server NAT.                                                      *)
(***************************************************************************)
teardownIptablesRules(f) ==
  <<Del(Masq(f)), Del(<<"return", f, None>>), Del(<<"out", f, None>>),
    Step("dropchain", Chain(f), "ignore", {})>>

\* The last step of the IPv6 half sets ip6tablesOK.
setupIptables(f) ==
  LET fail == IF f = "v4" THEN "undo" ELSE "undo6"
  IN <<Add(Chain(f), fail, {}),
       Insert(<<"conntrack", f, None>>, fail, {}),
       Insert(<<"drop", f, None>>, fail, {}),
       Insert(<<"accept", f, None>>, fail, {}),
       Insert(<<"out", f, None>>, fail, {}),
       Insert(<<"return", f, None>>, fail, {}),
       Insert(Masq(f), fail, {Chain(f)})>>

\* NAT6 is optional: its errors never fail the enable.
setupNATv6(v6) ==
  IF v6
  THEN <<Step("fwdon", Fwd("v6"), "stop", {}),
         Step("stale", Chain("v6"), "restore6", {})>> \o setupIptables("v6")
  ELSE <<>>

setupNATLinux(v6) ==
  <<Step("stale", Chain("v4"), "abort", {}),
    Step("fwdon", Fwd("v4"), "abort", {Chain("v4")})>>
  \o setupIptables("v4") \o setupNATv6(v6)

fwdOff(k) == Step("fwdoff", Fwd(k), "ignore", {})

teardownNATLinux(ns) ==
  LET six == Chain("v6") \in ns.own
  IN teardownIptablesRules("v4")
     \o (IF six THEN teardownIptablesRules("v6") ELSE <<>>)
     \o (IF "v4" \in ns.fw THEN <<fwdOff("v4")>> ELSE <<>>)
     \o (IF six /\ "v6" \in ns.fw THEN <<fwdOff("v6")>> ELSE <<>>)

\* setupNATv6's own rollbacks.
restoreForwarding(ns) == IF "v6" \in ns.fw THEN <<fwdOff("v6")>> ELSE <<>>

(***************************************************************************)
(* Windows, client routes.                                                 *)
(***************************************************************************)
\* The session is recorded as soon as it is open; at each layer the permits
\* come before the block.
setupClientFence ==
  LET add(o) == Insert(o, "undo", {o})
  IN <<add(Fence), add(Permits("v4")), add(Block("v4")),
       add(Permits("v6")), add(Block("v6"))>>

captureRoutes(v6) ==
  LET half(k, f) == Add(Half(k, f), "undo", {Half(k, f)})
  IN <<half("half0", "v4"), half("half1", "v4")>>
     \o (IF v6 THEN <<half("half0", "v6"), half("half1", "v6")>> ELSE <<>>)
replaceBypass(fail) == Step("bypass", Bypass(None), fail, {})

\* Mutant: the capture before the fence
setupGatewayRoutesWinFenceLast(v6) ==
  captureRoutes(v6) \o setupClientFence \o <<replaceBypass("undo")>>
setupGatewayRoutesWin(v6) ==
  setupClientFence \o captureRoutes(v6) \o <<replaceBypass("undo")>>

\* Bypass routes first, then the capture, the fence last.
teardownGatewayRoutesWin(rs) ==
  Dels(rs \cap Bypasses) \o Dels(rs \cap Halves) \o Close(rs \cap FenceObjects)

\* The recorded rows go, whatever comes after; then the uplink is looked up.
replaceBypassRoutes(rs, fail) ==
  Dels(rs \cap Bypasses) \o <<Step("bypassup", Bypass(None), fail, {})>>
\* One row per prefix arrives on the best uplink, if there is one.
addBypassRoute(best, fail) ==
  IF best = None THEN <<>> ELSE <<Add(Bypass(best), fail, {Bypass(best)})>>

(***************************************************************************)
(* Windows, server NAT.                                                    *)
(***************************************************************************)
setupWFP == <<Insert(Wfp, "undo", {Wfp}), Insert(WfpBlock, "undo", {WfpBlock})>>

setupNATWin ==
  <<Step("stale", WinNat, "abort", {})>> \o setupWFP \o
  <<Step("uplink", Fwd(None), "undo", {}), Add(WinNat, "undo", {WinNat})>>

teardownNATWin(ns) ==
  Dels(ns.own \cap {WinNat})
  \o [i \in 1..Cardinality(ns.fw) |-> fwdOff(SetToSeq(ns.fw)[i])]
  \o Close(ns.own \cap WfpObjects)

\* Forwarding follows the best uplink; an uplink already known is left alone.
resyncForwarding(ns, best) ==
  IF best = None \/ best = ns.up THEN <<>>
  ELSE <<Step("fwdon", Fwd(best), "ignore", {})>>
=============================================================================
