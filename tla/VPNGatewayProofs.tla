-------------------------- MODULE VPNGatewayProofs --------------------------
(***************************************************************************)
(* Gateway transactions may overlap in any number.  As long as the last    *)
(* ones did not, the gateway routes are never installed without a bound    *)
(* peer; config, tunnel, routes and NAT agree at rest; DNS is forced while *)
(* routes are installed: for any set of peers and workers and any pattern  *)
(* of OS failures, crashes and restarts.                                   *)
(***************************************************************************)
EXTENDS VPNGateway, TLAPS

Pc(g) == gor[g].pc

AllIdle == \A g \in Goroutines : Pc(g) = "idle"

(* The part of the type invariant the argument needs. *)
Types ==
  /\ peers \in [Peers -> PeerStates]
  /\ confGateway \in GatewayIDs
  /\ disk.peers \in [Peers -> PeerStates]
  /\ disk.gateway \in GatewayIDs
  /\ vpnPeers \subseteq Peers
  /\ gateway \in Peers \cup {None}
  /\ gor \in [Goroutines -> [pc: PCs, peer: GatewayIDs]]
  /\ torn \subseteq Views

(* Which steps belong to which goroutine, and the process they live in. *)
Places ==
  /\ \A g \in Workers : Pc(g) \in {"idle", "apply", "rollback", "clear",
                                   "flag", "natDown", "remove"}
  /\ Pc(Main) \notin {"natDown", "remove"}
  /\ app \in {"down", "dead"} => AllIdle /\ gateway = None /\ ~routes
  /\ app \in {"down", "dead"} => nat = FALSE
  /\ Pc(Main) = "idle" => app \in {"down", "dead", "up"}
  /\ app = "up" => Pc(Main) = "idle"

(* Unless everything is torn, at most one transaction runs. *)
Serial ==
  torn # Views =>
    \A g, h \in Goroutines : Pc(g) # "idle" /\ Pc(h) # "idle" => g = h

(* Start and stop of a client that is not torn. *)
ClientLife ==
  /\ Pc(Main) \in {"initDNS", "startup", "startServer", "flag", "startClient"}
       => gateway = None /\ ~routes
  /\ Pc(Main) \in {"startServer", "flag", "startClient"}
       => gor[Main].peer = confGateway
  /\ Pc(Main) \in {"closeServer", "closeApi", "closeRest", "startFailed"} => ~routes

(* What a transaction in progress knows. *)
Progress ==
  /\ \A g \in Goroutines : Pc(g) = "apply" =>
       gateway = confGateway /\ gateway \in Known /\ gateway \in vpnPeers
  /\ \A g \in Goroutines : Pc(g) \in {"rollback", "clear"} => ~routes
  /\ \A g \in Goroutines : Pc(g) = "remove" =>
       gor[g].peer \in Peers /\ gor[g].peer # confGateway

(* Routes have a bound, known gateway, the one in the config. *)
Bound ==
  routes => gateway = confGateway /\ gateway \in Known /\ gateway \in vpnPeers

(* Outside enable and disable transactions the three views agree. *)
Settled ==
  (app = "up" /\ \A g \in Goroutines : Pc(g) \notin {"apply", "rollback", "clear"})
    => gateway = confGateway /\ (routes <=> gateway # None)

Client == ClientLife /\ Progress /\ Bound /\ Settled

Base == Types /\ Places /\ Serial

ClientInv == "client" \notin torn => Client

(* The saved flags are Boolean. *)
Flags == confServer \in BOOLEAN /\ disk.server \in BOOLEAN

(* The server: the flag follows NAT when it is set and precedes it when it *)
(* is cleared.                                                             *)
Server ==
  /\ Pc(Main) \in {"initDNS", "startup"} => serverFlag = confServer /\ nat = FALSE
  /\ Pc(Main) = "startServer" => confServer = TRUE /\ serverFlag = TRUE /\ nat = FALSE
  /\ \A g \in Goroutines : Pc(g) = "flag" => nat = TRUE
  /\ \A g \in Goroutines : Pc(g) = "natDown" => serverFlag = FALSE /\ confServer = FALSE
  /\ Pc(Main) \in {"startClient", "apply", "rollback", "clear"}
       => serverFlag = confServer /\ nat = confServer
  /\ (app = "up" /\ \A g \in Goroutines : Pc(g) \notin {"flag", "natDown"})
       => serverFlag = confServer /\ nat = confServer

ServerInv == Flags /\ ("server" \notin torn => Server)

(* The OS resolver has the policy of the flag unless it refused it, and    *)
(* the flag is set while routes are installed.                             *)
Policy ==
  /\ dnsSet \in BOOLEAN /\ force \in BOOLEAN
  /\ dnsSet /\ ~refused => osDNS = chooseDNSPolicy(force)

Resolver ==
  /\ Policy
  /\ "dns" \notin torn =>
       /\ routes /\ dnsSet => force
       /\ Pc(Main) = "initDNS" => ~routes
  /\ Pc(Main) = "initDNS" => ~dnsSet
  /\ app \in {"down", "dead"} => ~dnsSet

IInv == Base /\ ClientInv /\ Resolver

(***************************************************************************)
(* The history variable.                                                   *)
(***************************************************************************)

(* A step that starts no transaction leaves torn alone. *)
LEMMA Stays ==
  ASSUME Record, \A g \in Goroutines : At(g, "idle") => gor'[g].pc = "idle"
  PROVE  torn' = torn
BY Zenon DEF Record, Started

(* A transaction that starts beside another tears every view; one that     *)
(* starts alone mends what it sets up.                                     *)
LEMMA Starts ==
  ASSUME Record, NEW g \in Goroutines, At(g, "idle"), gor'[g].pc # "idle",
         \A h \in Goroutines \ {g} : gor'[h] = gor[h]
  PROVE  /\ ~AllIdle => torn' = Views
         /\ AllIdle => torn' = torn \ Mended(gor'[g].pc)
<1>1. Started = {g}
  BY Zenon DEF Started, At
<1>2. Busy = {} <=> AllIdle
  BY Zenon DEF Busy, AllIdle, At, Pc
<1>3. UNION {Mended(gor'[h].pc) : h \in {g}} = Mended(gor'[g].pc)
  OBVIOUS
<1> QED
  BY <1>1, <1>2, <1>3, Zenon DEF Record

(* Tearing the client down removes the routes and keeps NAT and the match  *)
(* of flag and policy.                                                     *)
LEMMA Teardown ==
  ASSUME teardownClient, Policy
  PROVE  ~routes' /\ nat' = nat /\ Policy' /\ dnsSet' = dnsSet
<1>1. CASE routes /\ dnsSet /\ force # FALSE
  BY <1>1, Zenon DEF teardownClient, ForceUpstreamDNS, ApplyOSDNSConfig, Policy, netstate, dns
<1>2. CASE routes /\ ~(dnsSet /\ force # FALSE)
  BY <1>2, Zenon DEF teardownClient, ForceUpstreamDNS, ApplyOSDNSConfig, Policy, netstate, dns
<1>3. CASE ~routes
  BY <1>3, Zenon DEF teardownClient, Policy, netstate, dns
<1> QED
  BY <1>1, <1>2, <1>3, Zenon

(* Installing routes forces the policy upstream. *)
LEMMA Install ==
  ASSUME NEW g \in Goroutines, InstallRoutes(g), Policy
  PROVE  /\ routes' /\ nat' = nat /\ Policy' /\ dnsSet' = dnsSet
         /\ dnsSet' => force'
         /\ Return(g)
<1>1. CASE dnsSet /\ force # TRUE
  BY <1>1, Zenon DEF InstallRoutes, ForceUpstreamDNS, ApplyOSDNSConfig, Policy, dns
<1>2. CASE ~(dnsSet /\ force # TRUE)
  BY <1>2, Zenon DEF InstallRoutes, ForceUpstreamDNS, ApplyOSDNSConfig, Policy, dns
<1> QED
  BY <1>1, <1>2, Zenon

(* What each step does to torn. *)
Torn(pc) == IF AllIdle THEN torn' = torn \ Mended(pc) ELSE torn' = Views

(* The steps inside transactions, of the environment and of the process   *)
(* start no transaction.                                                   *)
LEMMA TornStays ==
  ASSUME Types, Places, Record
  PROVE  /\ \A g \in Workers : (ServerOn(g) /\ NATFails /\ UNCHANGED gor => torn' = torn)
         /\ \A g \in Workers : (ServerOffNAT(g) => torn' = torn)
         /\ \A g \in Workers : (RemovePeerFinish(g) => torn' = torn)
         /\ \A g \in Goroutines : (EnableApply(g) /\ confGateway # None /\ InstallRoutes(g) => torn' = torn)
         /\ \A g \in Goroutines : (EnableApply(g) /\ routes /\ Return(g) /\ UNCHANGED <<netstate, dns>> => torn' = torn)
         /\ \A g \in Goroutines : (EnableApply(g) /\ RefuseClient(g) => torn' = torn)
         /\ \A g \in Goroutines : (EnableRollback(g) => torn' = torn)
         /\ \A g \in Goroutines : (DisableClear(g) => torn' = torn)
         /\ \A g \in Goroutines : (ServerOnFlag(g) => torn' = torn)
         /\ (InitDNS => torn' = torn)
         /\ (SkipDNS => torn' = torn)
         /\ (SetupAtStartup => torn' = torn)
         /\ (At(Main, "startServer") /\ applyServer /\ Goto(Main, "flag") /\ UNCHANGED <<config, disk, tunnel, changed, dns, app>> => torn' = torn)
         /\ (At(Main, "startServer") /\ FailBoot(Main) => torn' = torn)
         /\ (At(Main, "startClient") /\ NoSavedClient => torn' = torn)
         /\ (At(Main, "startClient") /\ DropMalformed => torn' = torn)
         /\ \A p \in Peers : (At(Main, "startClient") /\ BindSaved(p) => torn' = torn)
         /\ \A p \in Peers : (At(Main, "startClient") /\ RefuseSaved(p) => torn' = torn)
         /\ (StartFailed => torn' = torn)
         /\ (CloseServer => torn' = torn)
         /\ (CloseApi => torn' = torn)
         /\ (CloseRest => torn' = torn)
         /\ (Crash => torn' = torn)
         /\ (RefreshPeersList => torn' = torn)
         /\ \A p \in Peers : (PeerChanges(p) => torn' = torn)
         /\ (WriteConfig => torn' = torn)
<1>1. \A g \in Workers : (ServerOn(g) /\ NATFails /\ UNCHANGED gor => torn' = torn)
  BY Stays, Zenon DEF Types, Places, Goroutines, AllIdle, Pc, Call, ServerOn, NATFails, At
<1>2. \A g \in Workers : (ServerOffNAT(g) => torn' = torn)
  BY Stays, Zenon DEF Types, Places, Goroutines, AllIdle, Pc, ServerOffNAT, teardownServer, Return, Idle, At
<1>3. \A g \in Workers : (RemovePeerFinish(g) => torn' = torn)
  BY Stays, Zenon DEF Types, Places, Goroutines, AllIdle, Pc, RemovePeerFinish, Return, Idle, At
<1>4. \A g \in Goroutines : (EnableApply(g) /\ confGateway # None /\ InstallRoutes(g) => torn' = torn)
  BY Stays, Zenon DEF Types, Places, Goroutines, AllIdle, Pc, EnableApply, InstallRoutes, Return, Idle, At
<1>5. \A g \in Goroutines : (EnableApply(g) /\ routes /\ Return(g) /\ UNCHANGED <<netstate, dns>> => torn' = torn)
  BY Stays, Zenon DEF Types, Places, Goroutines, AllIdle, Pc, EnableApply, Return, Idle, At
<1>6. \A g \in Goroutines : (EnableApply(g) /\ RefuseClient(g) => torn' = torn)
  BY Stays, Zenon DEF Types, Places, Goroutines, AllIdle, Pc, EnableApply, RefuseClient, Goto, At
<1>7. \A g \in Goroutines : (EnableRollback(g) => torn' = torn)
  BY Stays, Zenon DEF Types, Places, Goroutines, AllIdle, Pc, EnableRollback, ClearVPNGatewayPeer, Return, Idle, Goto, At
<1>8. \A g \in Goroutines : (DisableClear(g) => torn' = torn)
  BY Stays, Zenon DEF Types, Places, Goroutines, AllIdle, Pc, DisableClear, ClearVPNGatewayPeer, Return, Idle, At
<1>9. \A g \in Goroutines : (ServerOnFlag(g) => torn' = torn)
  BY Stays, Zenon DEF Types, Places, Goroutines, AllIdle, Pc, ServerOnFlag, SetVPNGatewayServerEnabled, Return, Idle, Goto, At
<1>10. (InitDNS => torn' = torn)
  BY Stays, Zenon DEF Types, Places, Goroutines, AllIdle, Pc, InitDNS, Goto, At
<1>11. (SkipDNS => torn' = torn)
  BY Stays, Zenon DEF Types, Places, Goroutines, AllIdle, Pc, SkipDNS, Goto, At
<1>12. (SetupAtStartup => torn' = torn)
  BY Stays, Zenon DEF Types, Places, Goroutines, AllIdle, Pc, SetupAtStartup, At
<1>13. (At(Main, "startServer") /\ applyServer /\ Goto(Main, "flag") /\ UNCHANGED <<config, disk, tunnel, changed, dns, app>> => torn' = torn)
  BY Stays, Zenon DEF Types, Places, Goroutines, AllIdle, Pc, applyServer, Goto, At
<1>14. (At(Main, "startServer") /\ FailBoot(Main) => torn' = torn)
  BY Stays DEF Types, Places, Goroutines, AllIdle, Pc, FailBoot, Abort, ProcessEnds, Idle, At
<1>15. (At(Main, "startClient") /\ NoSavedClient => torn' = torn)
  BY Stays, Zenon DEF Types, Places, Goroutines, AllIdle, Pc, NoSavedClient, Return, Idle, At
<1>16. (At(Main, "startClient") /\ DropMalformed => torn' = torn)
  BY Stays, Zenon DEF Types, Places, Goroutines, AllIdle, Pc, DropMalformed, Goto, At
<1>17. \A p \in Peers : (At(Main, "startClient") /\ BindSaved(p) => torn' = torn)
  BY Stays, Zenon DEF Types, Places, Goroutines, AllIdle, Pc, BindSaved, CanBind, SetVPNGatewayPeer, Goto, At
<1>18. \A p \in Peers : (At(Main, "startClient") /\ RefuseSaved(p) => torn' = torn)
  BY Stays DEF Types, Places, Goroutines, AllIdle, Pc, RefuseSaved, FailBoot, Abort, ProcessEnds, Idle, At
<1>19. (StartFailed => torn' = torn)
  BY Stays DEF Types, Places, Goroutines, AllIdle, Pc, StartFailed, FailBoot, Abort, ProcessEnds, Idle, At
<1>20. (CloseServer => torn' = torn)
  BY Stays, Zenon DEF Types, Places, Goroutines, AllIdle, Pc, CloseServer, teardownServer, Goto, At
<1>21. (CloseApi => torn' = torn)
  BY Stays, Zenon DEF Types, Places, Goroutines, AllIdle, Pc, CloseApi, Goto, At
<1>22. (CloseRest => torn' = torn)
  BY Stays DEF Types, Places, Goroutines, AllIdle, Pc, CloseRest, ProcessEnds, Snapshot, Idle, At
<1>23. (Crash => torn' = torn)
  BY Stays DEF Types, Places, Goroutines, AllIdle, Pc, Crash, Abort, ProcessEnds, Idle, At
<1>24. (RefreshPeersList => torn' = torn)
  BY Stays, Zenon DEF Types, Places, Goroutines, AllIdle, Pc, RefreshPeersList, At
<1>25. \A p \in Peers : (PeerChanges(p) => torn' = torn)
  BY Stays, Zenon DEF Types, Places, Goroutines, AllIdle, Pc, PeerChanges, At
<1>26. (WriteConfig => torn' = torn)
  BY Stays, Zenon DEF Types, Places, Goroutines, AllIdle, Pc, WriteConfig, Snapshot, At
<1> QED
  BY <1>1, <1>2, <1>3, <1>4, <1>5, <1>6, <1>7, <1>8, <1>9, <1>10, <1>11, <1>12, <1>13, <1>14, <1>15, <1>16, <1>17, <1>18, <1>19, <1>20, <1>21, <1>22, <1>23, <1>24, <1>25, <1>26, Zenon

(* The first steps of transactions. *)
LEMMA TornStarts ==
  ASSUME Types, Places, Record
  PROVE  /\ \A g \in Workers : \A p \in Peers : (EnableClient(g, p) => Torn("apply"))
         /\ \A g \in Workers : (DisableClient(g) => Torn("clear"))
         /\ \A g \in Workers : (ServerOn(g) /\ applyServer /\ Goto(g, "flag") => Torn("flag"))
         /\ \A g \in Workers : (ServerOff(g) => Torn("natDown"))
         /\ \A g \in Workers : \A p \in Peers : (RemovePeer(g, p) => Torn("remove"))
         /\ (Boot => Torn("initDNS"))
         /\ (Close => Torn("closeServer"))
<1>1. ASSUME NEW g \in Workers, NEW p \in Peers, EnableClient(g, p) PROVE Torn("apply")
  <2>1. g \in Goroutines /\ At(g, "idle")
    BY <1>1, Distinct, Zenon DEF Types, Places, Goroutines, AllIdle, Pc, Call, EnableClient, CanBind, SetVPNGatewayPeer, At
  <2>2. gor'[g].pc = "apply" /\ \A h \in Goroutines \ {g} : gor'[h] = gor[h]
    BY <1>1, <2>1, Zenon DEF Types, Call, EnableClient, CanBind, SetVPNGatewayPeer, At
  <2> QED
    BY <2>1, <2>2, Starts, Zenon DEF Torn
<1>2. ASSUME NEW g \in Workers, DisableClient(g) PROVE Torn("clear")
  <2>1. g \in Goroutines /\ At(g, "idle")
    BY <1>2, Distinct, Zenon DEF Types, Places, Goroutines, AllIdle, Pc, Call, DisableClient, Goto, At
  <2>2. gor'[g].pc = "clear" /\ \A h \in Goroutines \ {g} : gor'[h] = gor[h]
    BY <1>2, <2>1, Zenon DEF Types, Call, DisableClient, Goto, At
  <2> QED
    BY <2>1, <2>2, Starts, Zenon DEF Torn
<1>3. ASSUME NEW g \in Workers, ServerOn(g) /\ applyServer /\ Goto(g, "flag") PROVE Torn("flag")
  <2>1. g \in Goroutines /\ At(g, "idle")
    BY <1>3, Distinct, Zenon DEF Types, Places, Goroutines, AllIdle, Pc, Call, ServerOn, applyServer, Goto, At
  <2>2. gor'[g].pc = "flag" /\ \A h \in Goroutines \ {g} : gor'[h] = gor[h]
    BY <1>3, <2>1, Zenon DEF Types, Call, ServerOn, applyServer, Goto, At
  <2> QED
    BY <2>1, <2>2, Starts, Zenon DEF Torn
<1>4. ASSUME NEW g \in Workers, ServerOff(g) PROVE Torn("natDown")
  <2>1. g \in Goroutines /\ At(g, "idle")
    BY <1>4, Distinct, Zenon DEF Types, Places, Goroutines, AllIdle, Pc, Call, ServerOff, SetVPNGatewayServerEnabled, Goto, At
  <2>2. gor'[g].pc = "natDown" /\ \A h \in Goroutines \ {g} : gor'[h] = gor[h]
    BY <1>4, <2>1, Zenon DEF Types, Call, ServerOff, SetVPNGatewayServerEnabled, Goto, At
  <2> QED
    BY <2>1, <2>2, Starts, Zenon DEF Torn
<1>5. ASSUME NEW g \in Workers, NEW p \in Peers, RemovePeer(g, p) PROVE Torn("remove")
  <2>1. g \in Goroutines /\ At(g, "idle")
    BY <1>5, Distinct, Zenon DEF Types, Places, Goroutines, AllIdle, Pc, Call, RemovePeer, At
  <2>2. gor'[g].pc = "remove" /\ \A h \in Goroutines \ {g} : gor'[h] = gor[h]
    BY <1>5, <2>1, Zenon DEF Types, Call, RemovePeer, At
  <2> QED
    BY <2>1, <2>2, Starts, Zenon DEF Torn
<1>6. ASSUME Boot PROVE Torn("initDNS")
  <2>1. Main \in Goroutines /\ At(Main, "idle")
    BY <1>6, Distinct, Zenon DEF Types, Places, Goroutines, AllIdle, Pc, Boot, Goto, At
  <2>2. gor'[Main].pc = "initDNS" /\ \A h \in Goroutines \ {Main} : gor'[h] = gor[h]
    BY <1>6, <2>1, Zenon DEF Types, Boot, Goto, At
  <2> QED
    BY <2>1, <2>2, Starts, Zenon DEF Torn
<1>7. ASSUME Close PROVE Torn("closeServer")
  <2>1. Main \in Goroutines /\ At(Main, "idle")
    BY <1>7, Distinct, Zenon DEF Types, Places, Goroutines, AllIdle, Pc, Close, Goto, At
  <2>2. gor'[Main].pc = "closeServer" /\ \A h \in Goroutines \ {Main} : gor'[h] = gor[h]
    BY <1>7, <2>1, Zenon DEF Types, Close, Goto, At
  <2> QED
    BY <2>1, <2>2, Starts, Zenon DEF Torn
<1> QED
  BY <1>1, <1>2, <1>3, <1>4, <1>5, <1>6, <1>7, Zenon

(* Types, places and seriality are kept. Steps of API calls. *)
LEMMA BaseCalls ==
  ASSUME ClientSupported, Base, Record,
         NEW g \in Workers, CallStep(g)
  PROVE  Base'
<1> USE Distinct, OptionsTyped DEF Base, Types, Places, Serial, Views, GatewayIDs, PeerStates, PCs, Pc, Known, config, tunnel, netstate, dns, Goroutines, AllIdle
<1>1. ASSUME NEW p \in Peers, EnableClient(g, p) PROVE Base'
  <2>1. Torn("apply")
    BY <1>1, TornStarts, Zenon
  <2>2. Types'
    BY <1>1, <2>1 DEF Torn, Mended, Call, EnableClient, CanBind, SetVPNGatewayPeer, At
  <2>3. Places'
    BY <1>1, <2>1, Zenon DEF Torn, Mended, Call, EnableClient, CanBind, SetVPNGatewayPeer, At
  <2>4. Serial'
    BY <1>1, <2>1 DEF Torn, Mended, Call, EnableClient, CanBind, SetVPNGatewayPeer, At
  <2> QED
    BY <2>2, <2>3, <2>4, Zenon
<1>2. ASSUME DisableClient(g) PROVE Base'
  <2>1. Torn("clear")
    BY <1>2, TornStarts, Zenon
  <2>2. Types'
    BY <1>2, <2>1 DEF Torn, Mended, Call, DisableClient, Goto, At
  <2>3. Places'
    BY <1>2, <2>1 DEF Torn, Mended, Call, DisableClient, Goto, At
  <2>4. Serial'
    BY <1>2, <2>1 DEF Torn, Mended, Call, DisableClient, Goto, At
  <2> QED
    BY <2>2, <2>3, <2>4, Zenon
<1>3. ASSUME ServerOn(g) /\ applyServer /\ Goto(g, "flag") PROVE Base'
  <2>1. Torn("flag")
    BY <1>3, TornStarts, Zenon
  <2>2. Types'
    BY <1>3, <2>1 DEF Torn, Mended, Call, ServerOn, applyServer, Goto, At
  <2>3. Places'
    BY <1>3, <2>1 DEF Torn, Mended, Call, ServerOn, applyServer, Goto, At
  <2>4. Serial'
    BY <1>3, <2>1 DEF Torn, Mended, Call, ServerOn, applyServer, Goto, At
  <2> QED
    BY <2>2, <2>3, <2>4, Zenon
<1>4. ASSUME ServerOn(g) /\ NATFails /\ UNCHANGED gor PROVE Base'
  <2>1. torn' = torn
    BY <1>4, TornStays, Zenon
  <2>2. Types'
    BY <1>4, <2>1, Zenon DEF Call, ServerOn, NATFails, At
  <2>3. Places'
    BY <1>4, <2>1, Zenon DEF Call, ServerOn, NATFails, At
  <2>4. Serial'
    BY <1>4, <2>1, Zenon DEF Call, ServerOn, NATFails, At
  <2> QED
    BY <2>2, <2>3, <2>4, Zenon
<1>5. ASSUME ServerOff(g) PROVE Base'
  <2>1. Torn("natDown")
    BY <1>5, TornStarts, Zenon
  <2>2. Types'
    BY <1>5, <2>1 DEF Torn, Mended, Call, ServerOff, SetVPNGatewayServerEnabled, Goto, At
  <2>3. Places'
    BY <1>5, <2>1 DEF Torn, Mended, Call, ServerOff, SetVPNGatewayServerEnabled, Goto, At
  <2>4. Serial'
    BY <1>5, <2>1 DEF Torn, Mended, Call, ServerOff, SetVPNGatewayServerEnabled, Goto, At
  <2> QED
    BY <2>2, <2>3, <2>4, Zenon
<1>6. ASSUME NEW p \in Peers, RemovePeer(g, p) PROVE Base'
  <2>1. Torn("remove")
    BY <1>6, TornStarts, Zenon
  <2>2. Types'
    BY <1>6, <2>1 DEF Torn, Mended, Call, RemovePeer, At
  <2>3. Places'
    BY <1>6, <2>1 DEF Torn, Mended, Call, RemovePeer, At
  <2>4. Serial'
    BY <1>6, <2>1 DEF Torn, Mended, Call, RemovePeer, At
  <2> QED
    BY <2>2, <2>3, <2>4, Zenon
<1>7. ASSUME ServerOffNAT(g) PROVE Base'
  <2>1. torn' = torn
    BY <1>7, TornStays, Zenon
  <2>2. Types'
    BY <1>7, <2>1, Zenon DEF ServerOffNAT, teardownServer, Return, Idle, At
  <2>3. Places'
    BY <1>7, <2>1, Zenon DEF ServerOffNAT, teardownServer, Return, Idle, At
  <2>4. Serial'
    BY <1>7, <2>1, Zenon DEF ServerOffNAT, teardownServer, Return, Idle, At
  <2> QED
    BY <2>2, <2>3, <2>4, Zenon
<1>8. ASSUME RemovePeerFinish(g) PROVE Base'
  <2>1. torn' = torn
    BY <1>8, TornStays, Zenon
  <2>2. Types'
    BY <1>8, <2>1, Zenon DEF RemovePeerFinish, Return, Idle, At
  <2>3. Places'
    BY <1>8, <2>1, Zenon DEF RemovePeerFinish, Return, Idle, At
  <2>4. Serial'
    BY <1>8, <2>1, Zenon DEF RemovePeerFinish, Return, Idle, At
  <2> QED
    BY <2>2, <2>3, <2>4, Zenon
<1> QED
  BY <1>1, <1>2, <1>3, <1>4, <1>5, <1>6, <1>7, <1>8, Zenon DEF CallStep, ServerOn

(* Types, places and seriality are kept. Steps shared by calls and the start. *)
LEMMA BaseShared ==
  ASSUME ClientSupported, Base, Record,
         NEW g \in Goroutines, SharedStep(g)
  PROVE  Base'
<1> USE Distinct, OptionsTyped DEF Base, Types, Places, Serial, Views, GatewayIDs, PeerStates, PCs, Pc, Known, config, tunnel, netstate, dns, Goroutines, AllIdle
<1>1. ASSUME EnableApply(g) /\ confGateway # None /\ InstallRoutes(g) PROVE Base'
  <2>1. torn' = torn
    BY <1>1, TornStays, Zenon
  <2>2. Types'
    BY <1>1, <2>1, Zenon DEF EnableApply, Return, Idle, At, InstallRoutes
  <2>3. Places'
    BY <1>1, <2>1, Zenon DEF EnableApply, Return, Idle, At, InstallRoutes
  <2>4. Serial'
    BY <1>1, <2>1, Zenon DEF EnableApply, Return, Idle, At, InstallRoutes
  <2> QED
    BY <2>2, <2>3, <2>4, Zenon
<1>2. ASSUME EnableApply(g) /\ routes /\ Return(g) /\ UNCHANGED <<netstate, dns>> PROVE Base'
  <2>1. torn' = torn
    BY <1>2, TornStays, Zenon
  <2>2. Types'
    BY <1>2, <2>1, Zenon DEF EnableApply, Return, Idle, At
  <2>3. Places'
    BY <1>2, <2>1, Zenon DEF EnableApply, Return, Idle, At
  <2>4. Serial'
    BY <1>2, <2>1, Zenon DEF EnableApply, Return, Idle, At
  <2> QED
    BY <2>2, <2>3, <2>4, Zenon
<1>3. ASSUME EnableApply(g) /\ RefuseClient(g) PROVE Base'
  <2>1. torn' = torn
    BY <1>3, TornStays, Zenon
  <2>2. Types'
    BY <1>3, <2>1 DEF EnableApply, RefuseClient, Goto, At
  <2>3. Places'
    BY <1>3, <2>1 DEF EnableApply, RefuseClient, Goto, At
  <2>4. Serial'
    BY <1>3, <2>1, Zenon DEF EnableApply, RefuseClient, Goto, At
  <2> QED
    BY <2>2, <2>3, <2>4, Zenon
<1>4. ASSUME EnableRollback(g) PROVE Base'
  <2>1. torn' = torn
    BY <1>4, TornStays, Zenon
  <2>2. Types'
    BY <1>4, <2>1 DEF EnableRollback, ClearVPNGatewayPeer, Return, Idle, Goto, At
  <2>3. Places'
    BY <1>4, <2>1 DEF EnableRollback, ClearVPNGatewayPeer, Return, Idle, Goto, At
  <2>4. Serial'
    BY <1>4, <2>1 DEF EnableRollback, ClearVPNGatewayPeer, Return, Idle, Goto, At
  <2> QED
    BY <2>2, <2>3, <2>4, Zenon
<1>5. ASSUME DisableClear(g) PROVE Base'
  <2>1. torn' = torn
    BY <1>5, TornStays, Zenon
  <2>2. Types'
    BY <1>5, <2>1, Zenon DEF DisableClear, ClearVPNGatewayPeer, Return, Idle, At
  <2>3. Places'
    BY <1>5, <2>1, Zenon DEF DisableClear, ClearVPNGatewayPeer, Return, Idle, At
  <2>4. Serial'
    BY <1>5, <2>1, Zenon DEF DisableClear, ClearVPNGatewayPeer, Return, Idle, At
  <2> QED
    BY <2>2, <2>3, <2>4, Zenon
<1>6. ASSUME ServerOnFlag(g) PROVE Base'
  <2>1. torn' = torn
    BY <1>6, TornStays, Zenon
  <2>2. Types'
    BY <1>6, <2>1 DEF ServerOnFlag, SetVPNGatewayServerEnabled, Return, Idle, Goto, At
  <2>3. Places'
    BY <1>6, <2>1 DEF ServerOnFlag, SetVPNGatewayServerEnabled, Return, Idle, Goto, At
  <2>4. Serial'
    BY <1>6, <2>1 DEF ServerOnFlag, SetVPNGatewayServerEnabled, Return, Idle, Goto, At
  <2> QED
    BY <2>2, <2>3, <2>4, Zenon
<1> QED
  BY <1>1, <1>2, <1>3, <1>4, <1>5, <1>6, Zenon DEF SharedStep, EnableApply, applyClient

(* Types, places and seriality are kept. Steps of the start. *)
LEMMA BaseBoot ==
  ASSUME ClientSupported, Base, Record,
         BootStep
  PROVE  Base'
<1> USE Distinct, OptionsTyped DEF Base, Types, Places, Serial, Views, GatewayIDs, PeerStates, PCs, Pc, Known, config, tunnel, netstate, dns, Goroutines, AllIdle
<1>1. ASSUME Boot PROVE Base'
  <2>1. Torn("initDNS")
    BY <1>1, TornStarts, Zenon
  <2>2. Types'
    BY <1>1, <2>1 DEF Torn, Mended, Boot, Goto, At
  <2>3. Places'
    BY <1>1, <2>1 DEF Torn, Mended, Boot, Goto, At
  <2>4. Serial'
    BY <1>1, <2>1 DEF Torn, Mended, Boot, Goto, At
  <2> QED
    BY <2>2, <2>3, <2>4, Zenon
<1>2. ASSUME InitDNS PROVE Base'
  <2>1. torn' = torn
    BY <1>2, TornStays, Zenon
  <2>2. Types'
    BY <1>2, <2>1 DEF InitDNS, Goto, At
  <2>3. Places'
    BY <1>2, <2>1 DEF InitDNS, Goto, At
  <2>4. Serial'
    BY <1>2, <2>1, Zenon DEF InitDNS, Goto, At
  <2> QED
    BY <2>2, <2>3, <2>4, Zenon
<1>3. ASSUME SkipDNS PROVE Base'
  <2>1. torn' = torn
    BY <1>3, TornStays, Zenon
  <2>2. Types'
    BY <1>3, <2>1 DEF SkipDNS, Goto, At
  <2>3. Places'
    BY <1>3, <2>1 DEF SkipDNS, Goto, At
  <2>4. Serial'
    BY <1>3, <2>1, Zenon DEF SkipDNS, Goto, At
  <2> QED
    BY <2>2, <2>3, <2>4, Zenon
<1>4. ASSUME SetupAtStartup PROVE Base'
  <2>1. torn' = torn
    BY <1>4, TornStays, Zenon
  <2>2. Types'
    BY <1>4, <2>1, Zenon DEF SetupAtStartup, At
  <2>3. Places'
    BY <1>4, <2>1, Zenon DEF SetupAtStartup, At
  <2>4. Serial'
    BY <1>4, <2>1, Zenon DEF SetupAtStartup, At
  <2> QED
    BY <2>2, <2>3, <2>4, Zenon
<1>5. ASSUME At(Main, "startServer") /\ applyServer /\ Goto(Main, "flag") /\ UNCHANGED <<config, disk, tunnel, changed, dns, app>> PROVE Base'
  <2>1. torn' = torn
    BY <1>5, TornStays, Zenon
  <2>2. Types'
    BY <1>5, <2>1 DEF applyServer, Goto, At
  <2>3. Places'
    BY <1>5, <2>1 DEF applyServer, Goto, At
  <2>4. Serial'
    BY <1>5, <2>1, Zenon DEF applyServer, Goto, At
  <2> QED
    BY <2>2, <2>3, <2>4, Zenon
<1>6. ASSUME At(Main, "startServer") /\ FailBoot(Main) PROVE Base'
  <2>1. torn' = torn
    BY <1>6, TornStays, Zenon
  <2>2. Types'
    BY <1>6, <2>1, Zenon DEF FailBoot, Abort, ProcessEnds, Idle, At
  <2>3. Places'
    BY <1>6, <2>1, Zenon DEF FailBoot, Abort, ProcessEnds, Idle, At
  <2>4. Serial'
    BY <1>6, <2>1, Zenon DEF FailBoot, Abort, ProcessEnds, Idle, At
  <2> QED
    BY <2>2, <2>3, <2>4, Zenon
<1>7. ASSUME At(Main, "startClient") /\ NoSavedClient PROVE Base'
  <2>1. torn' = torn
    BY <1>7, TornStays, Zenon
  <2>2. Types'
    BY <1>7, <2>1, Zenon DEF NoSavedClient, Return, Idle, At
  <2>3. Places'
    BY <1>7, <2>1, Zenon DEF NoSavedClient, Return, Idle, At
  <2>4. Serial'
    BY <1>7, <2>1, Zenon DEF NoSavedClient, Return, Idle, At
  <2> QED
    BY <2>2, <2>3, <2>4, Zenon
<1>8. ASSUME At(Main, "startClient") /\ DropMalformed PROVE Base'
  <2>1. torn' = torn
    BY <1>8, TornStays, Zenon
  <2>2. Types'
    BY <1>8, <2>1 DEF DropMalformed, Goto, At
  <2>3. Places'
    BY <1>8, <2>1 DEF DropMalformed, Goto, At
  <2>4. Serial'
    BY <1>8, <2>1, Zenon DEF DropMalformed, Goto, At
  <2> QED
    BY <2>2, <2>3, <2>4, Zenon
<1>9. ASSUME NEW p \in Peers, At(Main, "startClient") /\ BindSaved(p) PROVE Base'
  <2>1. torn' = torn
    BY <1>9, TornStays, Zenon
  <2>2. Types'
    BY <1>9, <2>1 DEF BindSaved, CanBind, SetVPNGatewayPeer, Goto, At
  <2>3. Places'
    BY <1>9, <2>1 DEF BindSaved, CanBind, SetVPNGatewayPeer, Goto, At
  <2>4. Serial'
    BY <1>9, <2>1, Zenon DEF BindSaved, CanBind, SetVPNGatewayPeer, Goto, At
  <2> QED
    BY <2>2, <2>3, <2>4, Zenon
<1>10. ASSUME NEW p \in Peers, At(Main, "startClient") /\ RefuseSaved(p) PROVE Base'
  <2>1. torn' = torn
    BY <1>10, TornStays, Zenon
  <2>2. Types'
    BY <1>10, <2>1, Zenon DEF RefuseSaved, FailBoot, Abort, ProcessEnds, Idle, At
  <2>3. Places'
    BY <1>10, <2>1, Zenon DEF RefuseSaved, FailBoot, Abort, ProcessEnds, Idle, At
  <2>4. Serial'
    BY <1>10, <2>1, Zenon DEF RefuseSaved, FailBoot, Abort, ProcessEnds, Idle, At
  <2> QED
    BY <2>2, <2>3, <2>4, Zenon
<1>11. ASSUME StartFailed PROVE Base'
  <2>1. torn' = torn
    BY <1>11, TornStays, Zenon
  <2>2. Types'
    BY <1>11, <2>1, Zenon DEF StartFailed, FailBoot, Abort, ProcessEnds, Idle, At
  <2>3. Places'
    BY <1>11, <2>1, Zenon DEF StartFailed, FailBoot, Abort, ProcessEnds, Idle, At
  <2>4. Serial'
    BY <1>11, <2>1, Zenon DEF StartFailed, FailBoot, Abort, ProcessEnds, Idle, At
  <2> QED
    BY <2>2, <2>3, <2>4, Zenon
<1> QED
  BY <1>1, <1>2, <1>3, <1>4, <1>5, <1>6, <1>7, <1>8, <1>9, <1>10, <1>11, Zenon DEF BootStep, StartServer, StartClient

(* Types, places and seriality are kept. Steps of the shutdown. *)
LEMMA BaseClose ==
  ASSUME ClientSupported, Base, Record,
         CloseStep
  PROVE  Base'
<1> USE Distinct, OptionsTyped DEF Base, Types, Places, Serial, Views, GatewayIDs, PeerStates, PCs, Pc, Known, config, tunnel, netstate, dns, Goroutines, AllIdle
<1>1. ASSUME Close PROVE Base'
  <2>1. Torn("closeServer")
    BY <1>1, TornStarts, Zenon
  <2>2. Types'
    BY <1>1, <2>1 DEF Torn, Mended, Close, Goto, At
  <2>3. Places'
    BY <1>1, <2>1 DEF Torn, Mended, Close, Goto, At
  <2>4. Serial'
    BY <1>1, <2>1 DEF Torn, Mended, Close, Goto, At
  <2> QED
    BY <2>2, <2>3, <2>4, Zenon
<1>2. ASSUME CloseServer PROVE Base'
  <2>1. torn' = torn
    BY <1>2, TornStays, Zenon
  <2>2. Types'
    BY <1>2, <2>1 DEF CloseServer, teardownServer, Goto, At
  <2>3. Places'
    BY <1>2, <2>1 DEF CloseServer, teardownServer, Goto, At
  <2>4. Serial'
    BY <1>2, <2>1, Zenon DEF CloseServer, teardownServer, Goto, At
  <2> QED
    BY <2>2, <2>3, <2>4, Zenon
<1>3. ASSUME CloseApi PROVE Base'
  <2>1. torn' = torn
    BY <1>3, TornStays, Zenon
  <2>2. Types'
    BY <1>3, <2>1 DEF CloseApi, Goto, At
  <2>3. Places'
    BY <1>3, <2>1 DEF CloseApi, Goto, At
  <2>4. Serial'
    BY <1>3, <2>1, Zenon DEF CloseApi, Goto, At
  <2> QED
    BY <2>2, <2>3, <2>4, Zenon
<1>4. ASSUME CloseRest PROVE Base'
  <2>1. torn' = torn
    BY <1>4, TornStays, Zenon
  <2>2. Types'
    BY <1>4, <2>1, Zenon DEF CloseRest, ProcessEnds, Snapshot, Idle, At
  <2>3. Places'
    BY <1>4, <2>1, Zenon DEF CloseRest, ProcessEnds, Snapshot, Idle, At
  <2>4. Serial'
    BY <1>4, <2>1, Zenon DEF CloseRest, ProcessEnds, Snapshot, Idle, At
  <2> QED
    BY <2>2, <2>3, <2>4, Zenon
<1> QED
  BY <1>1, <1>2, <1>3, <1>4, Zenon DEF CloseStep

(* Types, places and seriality are kept. Steps of the rest of the process. *)
LEMMA BaseRest ==
  ASSUME ClientSupported, Base, Record,
         Crash \/ RefreshPeersList \/ (\E p \in Peers : PeerChanges(p)) \/ WriteConfig
  PROVE  Base'
<1> USE Distinct, OptionsTyped DEF Base, Types, Places, Serial, Views, GatewayIDs, PeerStates, PCs, Pc, Known, config, tunnel, netstate, dns, Goroutines, AllIdle
<1>1. ASSUME Crash PROVE Base'
  <2>1. torn' = torn
    BY <1>1, TornStays, Zenon
  <2>2. Types'
    BY <1>1, <2>1, Zenon DEF Crash, Abort, ProcessEnds, Idle, At
  <2>3. Places'
    BY <1>1, <2>1, Zenon DEF Crash, Abort, ProcessEnds, Idle, At
  <2>4. Serial'
    BY <1>1, <2>1, Zenon DEF Crash, Abort, ProcessEnds, Idle, At
  <2> QED
    BY <2>2, <2>3, <2>4, Zenon
<1>2. ASSUME RefreshPeersList PROVE Base'
  <2>1. torn' = torn
    BY <1>2, TornStays, Zenon
  <2>2. Types'
    BY <1>2, <2>1, Zenon DEF RefreshPeersList, At
  <2>3. Places'
    BY <1>2, <2>1, Zenon DEF RefreshPeersList, At
  <2>4. Serial'
    BY <1>2, <2>1, Zenon DEF RefreshPeersList, At
  <2> QED
    BY <2>2, <2>3, <2>4, Zenon
<1>3. ASSUME NEW p \in Peers, PeerChanges(p) PROVE Base'
  <2>1. torn' = torn
    BY <1>3, TornStays, Zenon
  <2>2. Types'
    BY <1>3, <2>1 DEF PeerChanges, At
  <2>3. Places'
    BY <1>3, <2>1, Zenon DEF PeerChanges, At
  <2>4. Serial'
    BY <1>3, <2>1, Zenon DEF PeerChanges, At
  <2> QED
    BY <2>2, <2>3, <2>4, Zenon
<1>4. ASSUME WriteConfig PROVE Base'
  <2>1. torn' = torn
    BY <1>4, TornStays, Zenon
  <2>2. Types'
    BY <1>4, <2>1, Zenon DEF WriteConfig, Snapshot, At
  <2>3. Places'
    BY <1>4, <2>1, Zenon DEF WriteConfig, Snapshot, At
  <2>4. Serial'
    BY <1>4, <2>1, Zenon DEF WriteConfig, Snapshot, At
  <2> QED
    BY <2>2, <2>3, <2>4, Zenon
<1> QED
  BY <1>1, <1>2, <1>3, <1>4, Zenon

(* The client's views are kept or mended. Steps of API calls. *)
LEMMA ClientCalls ==
  ASSUME ClientSupported, Base, ClientInv, Policy, Record,
         NEW g \in Workers, CallStep(g)
  PROVE  ClientInv'
<1> USE Distinct, OptionsTyped DEF Base, Types, Places, Serial, ClientInv, Client, ClientLife, Progress, Bound, Settled, Views, Pc, Known, config, tunnel, netstate, dns, Goroutines, AllIdle
<1>1. ASSUME NEW p \in Peers, EnableClient(g, p) PROVE ClientInv'
  <2>1. Torn("apply")
    BY <1>1, TornStarts, Zenon
  <2>2. ClientLife' \/ "client" \in torn'
    BY <1>1, <2>1 DEF Torn, Mended, Call, EnableClient, CanBind, SetVPNGatewayPeer, At
  <2>3. Progress' \/ "client" \in torn'
    BY <1>1, <2>1 DEF Torn, Mended, Call, EnableClient, CanBind, SetVPNGatewayPeer, At
  <2>4. Bound' \/ "client" \in torn'
    BY <1>1, <2>1, Zenon DEF Torn, Mended, Call, EnableClient, CanBind, SetVPNGatewayPeer, At
  <2>5. Settled' \/ "client" \in torn'
    BY <1>1, <2>1, Zenon DEF Torn, Mended, Call, EnableClient, CanBind, SetVPNGatewayPeer, At
  <2> QED
    BY <2>2, <2>3, <2>4, <2>5, Zenon
<1>2. ASSUME DisableClient(g) PROVE ClientInv'
  <2>1. Torn("clear")
    BY <1>2, TornStarts, Zenon
  <2>0. ~routes' /\ nat' = nat /\ Policy' /\ dnsSet' = dnsSet
    BY <1>2, Teardown, Zenon DEF DisableClient
  <2>2. ClientLife' \/ "client" \in torn'
    BY <1>2, <2>1, <2>0, Zenon DEF Torn, Mended, Call, DisableClient, Goto, At
  <2>3. Progress' \/ "client" \in torn'
    BY <1>2, <2>1, <2>0 DEF Torn, Mended, Call, DisableClient, Goto, At
  <2>4. Bound' \/ "client" \in torn'
    BY <1>2, <2>1, <2>0, Zenon DEF Torn, Mended, Call, DisableClient, Goto, At
  <2>5. Settled' \/ "client" \in torn'
    BY <1>2, <2>1, <2>0 DEF Torn, Mended, Call, DisableClient, Goto, At
  <2> QED
    BY <2>2, <2>3, <2>4, <2>5, Zenon
<1>3. ASSUME ServerOn(g) /\ applyServer /\ Goto(g, "flag") PROVE ClientInv'
  <2>1. Torn("flag")
    BY <1>3, TornStarts, Zenon
  <2>2. ClientLife' \/ "client" \in torn'
    BY <1>3, <2>1 DEF Torn, Mended, Call, ServerOn, applyServer, Goto, At
  <2>3. Progress' \/ "client" \in torn'
    BY <1>3, <2>1 DEF Torn, Mended, Call, ServerOn, applyServer, Goto, At
  <2>4. Bound' \/ "client" \in torn'
    BY <1>3, <2>1 DEF Torn, Mended, Call, ServerOn, applyServer, Goto, At
  <2>5. Settled' \/ "client" \in torn'
    BY <1>3, <2>1 DEF Torn, Mended, Call, ServerOn, applyServer, Goto, At
  <2> QED
    BY <2>2, <2>3, <2>4, <2>5, Zenon
<1>4. ASSUME ServerOn(g) /\ NATFails /\ UNCHANGED gor PROVE ClientInv'
  <2>1. torn' = torn
    BY <1>4, TornStays, Zenon
  <2>2. ClientLife' \/ "client" \in torn'
    BY <1>4, <2>1, Zenon DEF Call, ServerOn, NATFails, At
  <2>3. Progress' \/ "client" \in torn'
    BY <1>4, <2>1, Zenon DEF Call, ServerOn, NATFails, At
  <2>4. Bound' \/ "client" \in torn'
    BY <1>4, <2>1, Zenon DEF Call, ServerOn, NATFails, At
  <2>5. Settled' \/ "client" \in torn'
    BY <1>4, <2>1, Zenon DEF Call, ServerOn, NATFails, At
  <2> QED
    BY <2>2, <2>3, <2>4, <2>5, Zenon
<1>5. ASSUME ServerOff(g) PROVE ClientInv'
  <2>1. Torn("natDown")
    BY <1>5, TornStarts, Zenon
  <2>2. ClientLife' \/ "client" \in torn'
    BY <1>5, <2>1 DEF Torn, Mended, Call, ServerOff, SetVPNGatewayServerEnabled, Goto, At
  <2>3. Progress' \/ "client" \in torn'
    BY <1>5, <2>1 DEF Torn, Mended, Call, ServerOff, SetVPNGatewayServerEnabled, Goto, At
  <2>4. Bound' \/ "client" \in torn'
    BY <1>5, <2>1 DEF Torn, Mended, Call, ServerOff, SetVPNGatewayServerEnabled, Goto, At
  <2>5. Settled' \/ "client" \in torn'
    BY <1>5, <2>1 DEF Torn, Mended, Call, ServerOff, SetVPNGatewayServerEnabled, Goto, At
  <2> QED
    BY <2>2, <2>3, <2>4, <2>5, Zenon
<1>6. ASSUME NEW p \in Peers, RemovePeer(g, p) PROVE ClientInv'
  <2>1. Torn("remove")
    BY <1>6, TornStarts, Zenon
  <2>2. ClientLife' \/ "client" \in torn'
    BY <1>6, <2>1 DEF Torn, Mended, Call, RemovePeer, At
  <2>3. Progress' \/ "client" \in torn'
    BY <1>6, <2>1 DEF Torn, Mended, Call, RemovePeer, At
  <2>4. Bound' \/ "client" \in torn'
    BY <1>6, <2>1 DEF Torn, Mended, Call, RemovePeer, At
  <2>5. Settled' \/ "client" \in torn'
    BY <1>6, <2>1 DEF Torn, Mended, Call, RemovePeer, At
  <2> QED
    BY <2>2, <2>3, <2>4, <2>5, Zenon
<1>7. ASSUME ServerOffNAT(g) PROVE ClientInv'
  <2>1. torn' = torn
    BY <1>7, TornStays, Zenon
  <2>2. ClientLife' \/ "client" \in torn'
    BY <1>7, <2>1, Zenon DEF ServerOffNAT, teardownServer, Return, Idle, At
  <2>3. Progress' \/ "client" \in torn'
    BY <1>7, <2>1 DEF ServerOffNAT, teardownServer, Return, Idle, At
  <2>4. Bound' \/ "client" \in torn'
    BY <1>7, <2>1, Zenon DEF ServerOffNAT, teardownServer, Return, Idle, At
  <2>5. Settled' \/ "client" \in torn'
    BY <1>7, <2>1, Zenon DEF ServerOffNAT, teardownServer, Return, Idle, At
  <2> QED
    BY <2>2, <2>3, <2>4, <2>5, Zenon
<1>8. ASSUME RemovePeerFinish(g) PROVE ClientInv'
  <2>1. torn' = torn
    BY <1>8, TornStays, Zenon
  <2>2. ClientLife' \/ "client" \in torn'
    BY <1>8, <2>1, Zenon DEF RemovePeerFinish, Return, Idle, At
  <2>3. Progress' \/ "client" \in torn'
    BY <1>8, <2>1, Zenon DEF RemovePeerFinish, Return, Idle, At
  <2>4. Bound' \/ "client" \in torn'
    BY <1>8, <2>1 DEF RemovePeerFinish, Return, Idle, At
  <2>5. Settled' \/ "client" \in torn'
    BY <1>8, <2>1, Zenon DEF RemovePeerFinish, Return, Idle, At
  <2> QED
    BY <2>2, <2>3, <2>4, <2>5, Zenon
<1> QED
  BY <1>1, <1>2, <1>3, <1>4, <1>5, <1>6, <1>7, <1>8, Zenon DEF CallStep, ServerOn

(* The client's views are kept or mended. Steps shared by calls and the start. *)
LEMMA ClientShared ==
  ASSUME ClientSupported, Base, ClientInv, Policy, Record,
         NEW g \in Goroutines, SharedStep(g)
  PROVE  ClientInv'
<1> USE Distinct, OptionsTyped DEF Base, Types, Places, Serial, ClientInv, Client, ClientLife, Progress, Bound, Settled, Views, Pc, Known, config, tunnel, netstate, dns, Goroutines, AllIdle
<1>1. ASSUME EnableApply(g) /\ confGateway # None /\ InstallRoutes(g) PROVE ClientInv'
  <2>1. torn' = torn
    BY <1>1, TornStays, Zenon
  <2>0. routes' /\ nat' = nat /\ Policy' /\ dnsSet' = dnsSet /\ (dnsSet' => force') /\ Return(g)
    BY <1>1, Install, Zenon
  <2>2. ClientLife' \/ "client" \in torn'
    BY <1>1, <2>1, <2>0, Zenon DEF EnableApply, Return, Idle, At
  <2>3. Progress' \/ "client" \in torn'
    BY <1>1, <2>1, <2>0 DEF EnableApply, Return, Idle, At
  <2>4. Bound' \/ "client" \in torn'
    BY <1>1, <2>1, <2>0, Zenon DEF EnableApply, Return, Idle, At
  <2>5. Settled' \/ "client" \in torn'
    BY <1>1, <2>1, <2>0, Zenon DEF EnableApply, Return, Idle, At
  <2> QED
    BY <2>2, <2>3, <2>4, <2>5, Zenon
<1>2. ASSUME EnableApply(g) /\ routes /\ Return(g) /\ UNCHANGED <<netstate, dns>> PROVE ClientInv'
  <2>1. torn' = torn
    BY <1>2, TornStays, Zenon
  <2>2. ClientLife' \/ "client" \in torn'
    BY <1>2, <2>1, Zenon DEF EnableApply, Return, Idle, At
  <2>3. Progress' \/ "client" \in torn'
    BY <1>2, <2>1, Zenon DEF EnableApply, Return, Idle, At
  <2>4. Bound' \/ "client" \in torn'
    BY <1>2, <2>1, Zenon DEF EnableApply, Return, Idle, At
  <2>5. Settled' \/ "client" \in torn'
    BY <1>2, <2>1, Zenon DEF EnableApply, Return, Idle, At
  <2> QED
    BY <2>2, <2>3, <2>4, <2>5, Zenon
<1>3. ASSUME EnableApply(g) /\ RefuseClient(g) PROVE ClientInv'
  <2>1. torn' = torn
    BY <1>3, TornStays, Zenon
  <2>2. ClientLife' \/ "client" \in torn'
    BY <1>3, <2>1 DEF EnableApply, RefuseClient, Goto, At
  <2>3. Progress' \/ "client" \in torn'
    BY <1>3, <2>1 DEF EnableApply, RefuseClient, Goto, At
  <2>4. Bound' \/ "client" \in torn'
    BY <1>3, <2>1, Zenon DEF EnableApply, RefuseClient, Goto, At
  <2>5. Settled' \/ "client" \in torn'
    BY <1>3, <2>1 DEF EnableApply, RefuseClient, Goto, At
  <2> QED
    BY <2>2, <2>3, <2>4, <2>5, Zenon
<1>4. ASSUME EnableRollback(g) PROVE ClientInv'
  <2>1. torn' = torn
    BY <1>4, TornStays, Zenon
  <2>2. ClientLife' \/ "client" \in torn'
    BY <1>4, <2>1 DEF EnableRollback, ClearVPNGatewayPeer, Return, Idle, Goto, At
  <2>3. Progress' \/ "client" \in torn'
    BY <1>4, <2>1 DEF EnableRollback, ClearVPNGatewayPeer, Return, Idle, Goto, At
  <2>4. Bound' \/ "client" \in torn'
    BY <1>4, <2>1, Zenon DEF EnableRollback, ClearVPNGatewayPeer, Return, Idle, Goto, At
  <2>5. Settled' \/ "client" \in torn'
    BY <1>4, <2>1, Zenon DEF EnableRollback, ClearVPNGatewayPeer, Return, Idle, Goto, At
  <2> QED
    BY <2>2, <2>3, <2>4, <2>5, Zenon
<1>5. ASSUME DisableClear(g) PROVE ClientInv'
  <2>1. torn' = torn
    BY <1>5, TornStays, Zenon
  <2>2. ClientLife' \/ "client" \in torn'
    BY <1>5, <2>1, Zenon DEF DisableClear, ClearVPNGatewayPeer, Return, Idle, At
  <2>3. Progress' \/ "client" \in torn'
    BY <1>5, <2>1, ZenonT(40) DEF DisableClear, ClearVPNGatewayPeer, Return, Idle, At
  <2>4. Bound' \/ "client" \in torn'
    BY <1>5, <2>1, Zenon DEF DisableClear, ClearVPNGatewayPeer, Return, Idle, At
  <2>5. Settled' \/ "client" \in torn'
    BY <1>5, <2>1, Zenon DEF DisableClear, ClearVPNGatewayPeer, Return, Idle, At
  <2> QED
    BY <2>2, <2>3, <2>4, <2>5, Zenon
<1>6. ASSUME ServerOnFlag(g) PROVE ClientInv'
  <2>1. torn' = torn
    BY <1>6, TornStays, Zenon
  <2>2. ClientLife' \/ "client" \in torn'
    BY <1>6, <2>1 DEF ServerOnFlag, SetVPNGatewayServerEnabled, Return, Idle, Goto, At
  <2>3. Progress' \/ "client" \in torn'
    BY <1>6, <2>1 DEF ServerOnFlag, SetVPNGatewayServerEnabled, Return, Idle, Goto, At
  <2>4. Bound' \/ "client" \in torn'
    BY <1>6, <2>1, Zenon DEF ServerOnFlag, SetVPNGatewayServerEnabled, Return, Idle, Goto, At
  <2>5. Settled' \/ "client" \in torn'
    BY <1>6, <2>1, Zenon DEF ServerOnFlag, SetVPNGatewayServerEnabled, Return, Idle, Goto, At
  <2> QED
    BY <2>2, <2>3, <2>4, <2>5, Zenon
<1> QED
  BY <1>1, <1>2, <1>3, <1>4, <1>5, <1>6, Zenon DEF SharedStep, EnableApply, applyClient

(* The client's views are kept or mended. Steps of the start. *)
LEMMA ClientBoot ==
  ASSUME ClientSupported, Base, ClientInv, Policy, Record,
         BootStep
  PROVE  ClientInv'
<1> USE Distinct, OptionsTyped DEF Base, Types, Places, Serial, ClientInv, Client, ClientLife, Progress, Bound, Settled, Views, Pc, Known, config, tunnel, netstate, dns, Goroutines, AllIdle
<1>1. ASSUME Boot PROVE ClientInv'
  <2>1. Torn("initDNS")
    BY <1>1, TornStarts, Zenon
  <2>2. ClientLife' \/ "client" \in torn'
    BY <1>1, <2>1 DEF Torn, Mended, Boot, Goto, At
  <2>3. Progress' \/ "client" \in torn'
    BY <1>1, <2>1 DEF Torn, Mended, Boot, Goto, At
  <2>4. Bound' \/ "client" \in torn'
    BY <1>1, <2>1, Zenon DEF Torn, Mended, Boot, Goto, At
  <2>5. Settled' \/ "client" \in torn'
    BY <1>1, <2>1, Zenon DEF Torn, Mended, Boot, Goto, At
  <2> QED
    BY <2>2, <2>3, <2>4, <2>5, Zenon
<1>2. ASSUME InitDNS PROVE ClientInv'
  <2>1. torn' = torn
    BY <1>2, TornStays, Zenon
  <2>2. ClientLife' \/ "client" \in torn'
    BY <1>2, <2>1 DEF InitDNS, Goto, At
  <2>3. Progress' \/ "client" \in torn'
    BY <1>2, <2>1 DEF InitDNS, Goto, At
  <2>4. Bound' \/ "client" \in torn'
    BY <1>2, <2>1, Zenon DEF InitDNS, Goto, At
  <2>5. Settled' \/ "client" \in torn'
    BY <1>2, <2>1, Zenon DEF InitDNS, Goto, At
  <2> QED
    BY <2>2, <2>3, <2>4, <2>5, Zenon
<1>3. ASSUME SkipDNS PROVE ClientInv'
  <2>1. torn' = torn
    BY <1>3, TornStays, Zenon
  <2>2. ClientLife' \/ "client" \in torn'
    BY <1>3, <2>1 DEF SkipDNS, Goto, At
  <2>3. Progress' \/ "client" \in torn'
    BY <1>3, <2>1 DEF SkipDNS, Goto, At
  <2>4. Bound' \/ "client" \in torn'
    BY <1>3, <2>1, Zenon DEF SkipDNS, Goto, At
  <2>5. Settled' \/ "client" \in torn'
    BY <1>3, <2>1, Zenon DEF SkipDNS, Goto, At
  <2> QED
    BY <2>2, <2>3, <2>4, <2>5, Zenon
<1>4. ASSUME SetupAtStartup PROVE ClientInv'
  <2>1. torn' = torn
    BY <1>4, TornStays, Zenon
  <2>2. ClientLife' \/ "client" \in torn'
    BY <1>4, <2>1, Zenon DEF SetupAtStartup, At
  <2>3. Progress' \/ "client" \in torn'
    BY <1>4, <2>1, Zenon DEF SetupAtStartup, At
  <2>4. Bound' \/ "client" \in torn'
    BY <1>4, <2>1, Zenon DEF SetupAtStartup, At
  <2>5. Settled' \/ "client" \in torn'
    BY <1>4, <2>1, Zenon DEF SetupAtStartup, At
  <2> QED
    BY <2>2, <2>3, <2>4, <2>5, Zenon
<1>5. ASSUME At(Main, "startServer") /\ applyServer /\ Goto(Main, "flag") /\ UNCHANGED <<config, disk, tunnel, changed, dns, app>> PROVE ClientInv'
  <2>1. torn' = torn
    BY <1>5, TornStays, Zenon
  <2>2. ClientLife' \/ "client" \in torn'
    BY <1>5, <2>1 DEF applyServer, Goto, At
  <2>3. Progress' \/ "client" \in torn'
    BY <1>5, <2>1 DEF applyServer, Goto, At
  <2>4. Bound' \/ "client" \in torn'
    BY <1>5, <2>1, Zenon DEF applyServer, Goto, At
  <2>5. Settled' \/ "client" \in torn'
    BY <1>5, <2>1, Zenon DEF applyServer, Goto, At
  <2> QED
    BY <2>2, <2>3, <2>4, <2>5, Zenon
<1>6. ASSUME At(Main, "startServer") /\ FailBoot(Main) PROVE ClientInv'
  <2>1. torn' = torn
    BY <1>6, TornStays, Zenon
  <2>2. ClientLife' \/ "client" \in torn'
    BY <1>6, <2>1, Zenon DEF FailBoot, Abort, ProcessEnds, Idle, At
  <2>3. Progress' \/ "client" \in torn'
    BY <1>6, <2>1, Zenon DEF FailBoot, Abort, ProcessEnds, Idle, At
  <2>4. Bound' \/ "client" \in torn'
    BY <1>6, <2>1, Zenon DEF FailBoot, Abort, ProcessEnds, Idle, At
  <2>5. Settled' \/ "client" \in torn'
    BY <1>6, <2>1, Zenon DEF FailBoot, Abort, ProcessEnds, Idle, At
  <2> QED
    BY <2>2, <2>3, <2>4, <2>5, Zenon
<1>7. ASSUME At(Main, "startClient") /\ NoSavedClient PROVE ClientInv'
  <2>1. torn' = torn
    BY <1>7, TornStays, Zenon
  <2>2. ClientLife' \/ "client" \in torn'
    BY <1>7, <2>1, Zenon DEF NoSavedClient, Return, Idle, At
  <2>3. Progress' \/ "client" \in torn'
    BY <1>7, <2>1, Zenon DEF NoSavedClient, Return, Idle, At
  <2>4. Bound' \/ "client" \in torn'
    BY <1>7, <2>1, Zenon DEF NoSavedClient, Return, Idle, At
  <2>5. Settled' \/ "client" \in torn'
    BY <1>7, <2>1, Zenon DEF NoSavedClient, Return, Idle, At
  <2> QED
    BY <2>2, <2>3, <2>4, <2>5, Zenon
<1>8. ASSUME At(Main, "startClient") /\ DropMalformed PROVE ClientInv'
  <2>1. torn' = torn
    BY <1>8, TornStays, Zenon
  <2>0. ~routes' /\ nat' = nat /\ Policy' /\ dnsSet' = dnsSet
    BY <1>8, Teardown, Zenon DEF DropMalformed
  <2>2. ClientLife' \/ "client" \in torn'
    BY <1>8, <2>1, <2>0 DEF DropMalformed, Goto, At
  <2>3. Progress' \/ "client" \in torn'
    BY <1>8, <2>1, <2>0 DEF DropMalformed, Goto, At
  <2>4. Bound' \/ "client" \in torn'
    BY <1>8, <2>1, <2>0, Zenon DEF DropMalformed, Goto, At
  <2>5. Settled' \/ "client" \in torn'
    BY <1>8, <2>1, <2>0, Zenon DEF DropMalformed, Goto, At
  <2> QED
    BY <2>2, <2>3, <2>4, <2>5, Zenon
<1>9. ASSUME NEW p \in Peers, At(Main, "startClient") /\ BindSaved(p) PROVE ClientInv'
  <2>1. torn' = torn
    BY <1>9, TornStays, Zenon
  <2>2. ClientLife' \/ "client" \in torn'
    BY <1>9, <2>1 DEF BindSaved, CanBind, SetVPNGatewayPeer, Goto, At
  <2>3. Progress' \/ "client" \in torn'
    BY <1>9, <2>1 DEF BindSaved, CanBind, SetVPNGatewayPeer, Goto, At
  <2>4. Bound' \/ "client" \in torn'
    BY <1>9, <2>1, Zenon DEF BindSaved, CanBind, SetVPNGatewayPeer, Goto, At
  <2>5. Settled' \/ "client" \in torn'
    BY <1>9, <2>1, Zenon DEF BindSaved, CanBind, SetVPNGatewayPeer, Goto, At
  <2> QED
    BY <2>2, <2>3, <2>4, <2>5, Zenon
<1>10. ASSUME NEW p \in Peers, At(Main, "startClient") /\ RefuseSaved(p) PROVE ClientInv'
  <2>1. torn' = torn
    BY <1>10, TornStays, Zenon
  <2>2. ClientLife' \/ "client" \in torn'
    BY <1>10, <2>1, Zenon DEF RefuseSaved, FailBoot, Abort, ProcessEnds, Idle, At
  <2>3. Progress' \/ "client" \in torn'
    BY <1>10, <2>1, Zenon DEF RefuseSaved, FailBoot, Abort, ProcessEnds, Idle, At
  <2>4. Bound' \/ "client" \in torn'
    BY <1>10, <2>1, Zenon DEF RefuseSaved, FailBoot, Abort, ProcessEnds, Idle, At
  <2>5. Settled' \/ "client" \in torn'
    BY <1>10, <2>1, Zenon DEF RefuseSaved, FailBoot, Abort, ProcessEnds, Idle, At
  <2> QED
    BY <2>2, <2>3, <2>4, <2>5, Zenon
<1>11. ASSUME StartFailed PROVE ClientInv'
  <2>1. torn' = torn
    BY <1>11, TornStays, Zenon
  <2>2. ClientLife' \/ "client" \in torn'
    BY <1>11, <2>1, Zenon DEF StartFailed, FailBoot, Abort, ProcessEnds, Idle, At
  <2>3. Progress' \/ "client" \in torn'
    BY <1>11, <2>1, Zenon DEF StartFailed, FailBoot, Abort, ProcessEnds, Idle, At
  <2>4. Bound' \/ "client" \in torn'
    BY <1>11, <2>1, Zenon DEF StartFailed, FailBoot, Abort, ProcessEnds, Idle, At
  <2>5. Settled' \/ "client" \in torn'
    BY <1>11, <2>1, Zenon DEF StartFailed, FailBoot, Abort, ProcessEnds, Idle, At
  <2> QED
    BY <2>2, <2>3, <2>4, <2>5, Zenon
<1> QED
  BY <1>1, <1>2, <1>3, <1>4, <1>5, <1>6, <1>7, <1>8, <1>9, <1>10, <1>11, Zenon DEF BootStep, StartServer, StartClient

(* The client's views are kept or mended. Steps of the shutdown. *)
LEMMA ClientClose ==
  ASSUME ClientSupported, Base, ClientInv, Policy, Record,
         CloseStep
  PROVE  ClientInv'
<1> USE Distinct, OptionsTyped DEF Base, Types, Places, Serial, ClientInv, Client, ClientLife, Progress, Bound, Settled, Views, Pc, Known, config, tunnel, netstate, dns, Goroutines, AllIdle
<1>1. ASSUME Close PROVE ClientInv'
  <2>1. Torn("closeServer")
    BY <1>1, TornStarts, Zenon
  <2>0. ~routes' /\ nat' = nat /\ Policy' /\ dnsSet' = dnsSet
    BY <1>1, Teardown, Zenon DEF Close
  <2>2. ClientLife' \/ "client" \in torn'
    BY <1>1, <2>1, <2>0 DEF Torn, Mended, Close, Goto, At
  <2>3. Progress' \/ "client" \in torn'
    BY <1>1, <2>1, <2>0 DEF Torn, Mended, Close, Goto, At
  <2>4. Bound' \/ "client" \in torn'
    BY <1>1, <2>1, <2>0, Zenon DEF Torn, Mended, Close, Goto, At
  <2>5. Settled' \/ "client" \in torn'
    BY <1>1, <2>1, <2>0, Zenon DEF Torn, Mended, Close, Goto, At
  <2> QED
    BY <2>2, <2>3, <2>4, <2>5, Zenon
<1>2. ASSUME CloseServer PROVE ClientInv'
  <2>1. torn' = torn
    BY <1>2, TornStays, Zenon
  <2>2. ClientLife' \/ "client" \in torn'
    BY <1>2, <2>1 DEF CloseServer, teardownServer, Goto, At
  <2>3. Progress' \/ "client" \in torn'
    BY <1>2, <2>1 DEF CloseServer, teardownServer, Goto, At
  <2>4. Bound' \/ "client" \in torn'
    BY <1>2, <2>1, Zenon DEF CloseServer, teardownServer, Goto, At
  <2>5. Settled' \/ "client" \in torn'
    BY <1>2, <2>1, Zenon DEF CloseServer, teardownServer, Goto, At
  <2> QED
    BY <2>2, <2>3, <2>4, <2>5, Zenon
<1>3. ASSUME CloseApi PROVE ClientInv'
  <2>1. torn' = torn
    BY <1>3, TornStays, Zenon
  <2>2. ClientLife' \/ "client" \in torn'
    BY <1>3, <2>1 DEF CloseApi, Goto, At
  <2>3. Progress' \/ "client" \in torn'
    BY <1>3, <2>1 DEF CloseApi, Goto, At
  <2>4. Bound' \/ "client" \in torn'
    BY <1>3, <2>1, Zenon DEF CloseApi, Goto, At
  <2>5. Settled' \/ "client" \in torn'
    BY <1>3, <2>1, Zenon DEF CloseApi, Goto, At
  <2> QED
    BY <2>2, <2>3, <2>4, <2>5, Zenon
<1>4. ASSUME CloseRest PROVE ClientInv'
  <2>1. torn' = torn
    BY <1>4, TornStays, Zenon
  <2>2. ClientLife' \/ "client" \in torn'
    BY <1>4, <2>1, Zenon DEF CloseRest, ProcessEnds, Snapshot, Idle, At
  <2>3. Progress' \/ "client" \in torn'
    BY <1>4, <2>1, Zenon DEF CloseRest, ProcessEnds, Snapshot, Idle, At
  <2>4. Bound' \/ "client" \in torn'
    BY <1>4, <2>1, Zenon DEF CloseRest, ProcessEnds, Snapshot, Idle, At
  <2>5. Settled' \/ "client" \in torn'
    BY <1>4, <2>1, Zenon DEF CloseRest, ProcessEnds, Snapshot, Idle, At
  <2> QED
    BY <2>2, <2>3, <2>4, <2>5, Zenon
<1> QED
  BY <1>1, <1>2, <1>3, <1>4, Zenon DEF CloseStep

(* The client's views are kept or mended. Steps of the rest of the process. *)
LEMMA ClientRest ==
  ASSUME ClientSupported, Base, ClientInv, Policy, Record,
         Crash \/ RefreshPeersList \/ (\E p \in Peers : PeerChanges(p)) \/ WriteConfig
  PROVE  ClientInv'
<1> USE Distinct, OptionsTyped DEF Base, Types, Places, Serial, ClientInv, Client, ClientLife, Progress, Bound, Settled, Views, Pc, Known, config, tunnel, netstate, dns, Goroutines, AllIdle
<1>1. ASSUME Crash PROVE ClientInv'
  <2>1. torn' = torn
    BY <1>1, TornStays, Zenon
  <2>2. ClientLife' \/ "client" \in torn'
    BY <1>1, <2>1, Zenon DEF Crash, Abort, ProcessEnds, Idle, At
  <2>3. Progress' \/ "client" \in torn'
    BY <1>1, <2>1, Zenon DEF Crash, Abort, ProcessEnds, Idle, At
  <2>4. Bound' \/ "client" \in torn'
    BY <1>1, <2>1, Zenon DEF Crash, Abort, ProcessEnds, Idle, At
  <2>5. Settled' \/ "client" \in torn'
    BY <1>1, <2>1, Zenon DEF Crash, Abort, ProcessEnds, Idle, At
  <2> QED
    BY <2>2, <2>3, <2>4, <2>5, Zenon
<1>2. ASSUME RefreshPeersList PROVE ClientInv'
  <2>1. torn' = torn
    BY <1>2, TornStays, Zenon
  <2>2. ClientLife' \/ "client" \in torn'
    BY <1>2, <2>1, Zenon DEF RefreshPeersList, At
  <2>3. Progress' \/ "client" \in torn'
    BY <1>2, <2>1, Zenon DEF RefreshPeersList, At
  <2>4. Bound' \/ "client" \in torn'
    BY <1>2, <2>1, Zenon DEF RefreshPeersList, At
  <2>5. Settled' \/ "client" \in torn'
    BY <1>2, <2>1, Zenon DEF RefreshPeersList, At
  <2> QED
    BY <2>2, <2>3, <2>4, <2>5, Zenon
<1>3. ASSUME NEW p \in Peers, PeerChanges(p) PROVE ClientInv'
  <2>1. torn' = torn
    BY <1>3, TornStays, Zenon
  <2>2. ClientLife' \/ "client" \in torn'
    BY <1>3, <2>1, Zenon DEF PeerChanges, At
  <2>3. Progress' \/ "client" \in torn'
    BY <1>3, <2>1, ZenonT(40) DEF PeerChanges, At
  <2>4. Bound' \/ "client" \in torn'
    BY <1>3, <2>1, ZenonT(40) DEF PeerChanges, At
  <2>5. Settled' \/ "client" \in torn'
    BY <1>3, <2>1, Zenon DEF PeerChanges, At
  <2> QED
    BY <2>2, <2>3, <2>4, <2>5, Zenon
<1>4. ASSUME WriteConfig PROVE ClientInv'
  <2>1. torn' = torn
    BY <1>4, TornStays, Zenon
  <2>2. ClientLife' \/ "client" \in torn'
    BY <1>4, <2>1, Zenon DEF WriteConfig, Snapshot, At
  <2>3. Progress' \/ "client" \in torn'
    BY <1>4, <2>1, Zenon DEF WriteConfig, Snapshot, At
  <2>4. Bound' \/ "client" \in torn'
    BY <1>4, <2>1, Zenon DEF WriteConfig, Snapshot, At
  <2>5. Settled' \/ "client" \in torn'
    BY <1>4, <2>1, Zenon DEF WriteConfig, Snapshot, At
  <2> QED
    BY <2>2, <2>3, <2>4, <2>5, Zenon
<1> QED
  BY <1>1, <1>2, <1>3, <1>4, Zenon

(* The server's views are kept or mended. Steps of API calls. *)
LEMMA ServerCalls ==
  ASSUME ServerSupported, Base, ServerInv, Policy, Record,
         NEW g \in Workers, CallStep(g)
  PROVE  ServerInv'
<1> USE Distinct, OptionsTyped DEF Base, Types, Places, Serial, ServerInv, Server, Flags, Views, Pc, Known, config, tunnel, netstate, dns, Goroutines, AllIdle
<1>1. ASSUME NEW p \in Peers, EnableClient(g, p) PROVE ServerInv'
  <2>1. Torn("apply")
    BY <1>1, TornStarts, Zenon
  <2>2. Flags'
    BY <1>1, <2>1, Zenon DEF Torn, Mended, Call, EnableClient, CanBind, SetVPNGatewayPeer, At
  <2>3. Server' \/ "server" \in torn'
    BY <1>1, <2>1 DEF Torn, Mended, Call, EnableClient, CanBind, SetVPNGatewayPeer, At
  <2> QED
    BY <2>2, <2>3, Zenon
<1>2. ASSUME DisableClient(g) PROVE ServerInv'
  <2>1. Torn("clear")
    BY <1>2, TornStarts, Zenon
  <2>0. ~routes' /\ nat' = nat /\ Policy' /\ dnsSet' = dnsSet
    BY <1>2, Teardown, Zenon DEF DisableClient
  <2>2. Flags'
    BY <1>2, <2>1, <2>0, Zenon DEF Torn, Mended, Call, DisableClient, Goto, At
  <2>3. Server' \/ "server" \in torn'
    BY <1>2, <2>1, <2>0 DEF Torn, Mended, Call, DisableClient, Goto, At
  <2> QED
    BY <2>2, <2>3, Zenon
<1>3. ASSUME ServerOn(g) /\ applyServer /\ Goto(g, "flag") PROVE ServerInv'
  <2>1. Torn("flag")
    BY <1>3, TornStarts, Zenon
  <2>2. Flags'
    BY <1>3, <2>1, Zenon DEF Torn, Mended, Call, ServerOn, applyServer, Goto, At
  <2>3. Server' \/ "server" \in torn'
    <3>1. \A h \in Goroutines : gor'[h].pc = IF h = g THEN "flag" ELSE gor[h].pc
      BY <1>3 DEF Goto
    <3>2. nat' = TRUE
      BY <1>3, Zenon DEF applyServer
    <3>3. "server" \in torn' \/ \A h \in Goroutines : gor[h].pc = "idle"
      BY <2>1, ZenonT(40) DEF Torn
    <3>4. g \in Goroutines /\ Main \in Goroutines /\ g # Main
      BY <1>3, Zenon
    <3> QED
      BY <3>1, <3>2, <3>3, <3>4, Zenon
  <2> QED
    BY <2>2, <2>3, Zenon
<1>4. ASSUME ServerOn(g) /\ NATFails /\ UNCHANGED gor PROVE ServerInv'
  <2>1. torn' = torn
    BY <1>4, TornStays, Zenon
  <2>2. Flags'
    BY <1>4, <2>1, Zenon DEF Call, ServerOn, NATFails, At
  <2>3. Server' \/ "server" \in torn'
    BY <1>4, <2>1, Zenon DEF Call, ServerOn, NATFails, At
  <2> QED
    BY <2>2, <2>3, Zenon
<1>5. ASSUME ServerOff(g) PROVE ServerInv'
  <2>1. Torn("natDown")
    BY <1>5, TornStarts, Zenon
  <2>2. Flags'
    BY <1>5, <2>1, Zenon DEF Torn, Mended, Call, ServerOff, SetVPNGatewayServerEnabled, Goto, At
  <2>3. Server' \/ "server" \in torn'
    BY <1>5, <2>1 DEF Torn, Mended, Call, ServerOff, SetVPNGatewayServerEnabled, Goto, At
  <2> QED
    BY <2>2, <2>3, Zenon
<1>6. ASSUME NEW p \in Peers, RemovePeer(g, p) PROVE ServerInv'
  <2>1. Torn("remove")
    BY <1>6, TornStarts, Zenon
  <2>2. Flags'
    BY <1>6, <2>1, Zenon DEF Torn, Mended, Call, RemovePeer, At
  <2>3. Server' \/ "server" \in torn'
    BY <1>6, <2>1 DEF Torn, Mended, Call, RemovePeer, At
  <2> QED
    BY <2>2, <2>3, Zenon
<1>7. ASSUME ServerOffNAT(g) PROVE ServerInv'
  <2>1. torn' = torn
    BY <1>7, TornStays, Zenon
  <2>2. Flags'
    BY <1>7, <2>1, Zenon DEF ServerOffNAT, teardownServer, Return, Idle, At
  <2>3. Server' \/ "server" \in torn'
    BY <1>7, <2>1, Zenon DEF ServerOffNAT, teardownServer, Return, Idle, At
  <2> QED
    BY <2>2, <2>3, Zenon
<1>8. ASSUME RemovePeerFinish(g) PROVE ServerInv'
  <2>1. torn' = torn
    BY <1>8, TornStays, Zenon
  <2>2. Flags'
    BY <1>8, <2>1, Zenon DEF RemovePeerFinish, Return, Idle, At
  <2>3. Server' \/ "server" \in torn'
    BY <1>8, <2>1, Zenon DEF RemovePeerFinish, Return, Idle, At
  <2> QED
    BY <2>2, <2>3, Zenon
<1> QED
  BY <1>1, <1>2, <1>3, <1>4, <1>5, <1>6, <1>7, <1>8, Zenon DEF CallStep, ServerOn

(* The server's views are kept or mended. Steps shared by calls and the start. *)
LEMMA ServerShared ==
  ASSUME ServerSupported, Base, ServerInv, Policy, Record,
         NEW g \in Goroutines, SharedStep(g)
  PROVE  ServerInv'
<1> USE Distinct, OptionsTyped DEF Base, Types, Places, Serial, ServerInv, Server, Flags, Views, Pc, Known, config, tunnel, netstate, dns, Goroutines, AllIdle
<1>1. ASSUME EnableApply(g) /\ confGateway # None /\ InstallRoutes(g) PROVE ServerInv'
  <2>1. torn' = torn
    BY <1>1, TornStays, Zenon
  <2>0. routes' /\ nat' = nat /\ Policy' /\ dnsSet' = dnsSet /\ (dnsSet' => force') /\ Return(g)
    BY <1>1, Install, Zenon
  <2>2. Flags'
    BY <1>1, <2>1, <2>0, Zenon DEF EnableApply, Return, Idle, At
  <2>3. Server' \/ "server" \in torn'
    BY <1>1, <2>1, <2>0, Zenon DEF EnableApply, Return, Idle, At
  <2> QED
    BY <2>2, <2>3, Zenon
<1>2. ASSUME EnableApply(g) /\ routes /\ Return(g) /\ UNCHANGED <<netstate, dns>> PROVE ServerInv'
  <2>1. torn' = torn
    BY <1>2, TornStays, Zenon
  <2>2. Flags'
    BY <1>2, <2>1, Zenon DEF EnableApply, Return, Idle, At
  <2>3. Server' \/ "server" \in torn'
    BY <1>2, <2>1, Zenon DEF EnableApply, Return, Idle, At
  <2> QED
    BY <2>2, <2>3, Zenon
<1>3. ASSUME EnableApply(g) /\ RefuseClient(g) PROVE ServerInv'
  <2>1. torn' = torn
    BY <1>3, TornStays, Zenon
  <2>2. Flags'
    BY <1>3, <2>1, Zenon DEF EnableApply, RefuseClient, Goto, At
  <2>3. Server' \/ "server" \in torn'
    BY <1>3, <2>1 DEF EnableApply, RefuseClient, Goto, At
  <2> QED
    BY <2>2, <2>3, Zenon
<1>4. ASSUME EnableRollback(g) PROVE ServerInv'
  <2>1. torn' = torn
    BY <1>4, TornStays, Zenon
  <2>2. Flags'
    BY <1>4, <2>1, Zenon DEF EnableRollback, ClearVPNGatewayPeer, Return, Idle, Goto, At
  <2>3. Server' \/ "server" \in torn'
    BY <1>4, <2>1 DEF EnableRollback, ClearVPNGatewayPeer, Return, Idle, Goto, At
  <2> QED
    BY <2>2, <2>3, Zenon
<1>5. ASSUME DisableClear(g) PROVE ServerInv'
  <2>1. torn' = torn
    BY <1>5, TornStays, Zenon
  <2>2. Flags'
    BY <1>5, <2>1, Zenon DEF DisableClear, ClearVPNGatewayPeer, Return, Idle, At
  <2>3. Server' \/ "server" \in torn'
    BY <1>5, <2>1, Zenon DEF DisableClear, ClearVPNGatewayPeer, Return, Idle, At
  <2> QED
    BY <2>2, <2>3, Zenon
<1>6. ASSUME ServerOnFlag(g) PROVE ServerInv'
  <2>1. torn' = torn
    BY <1>6, TornStays, Zenon
  <2>2. Flags'
    BY <1>6, <2>1, Zenon DEF ServerOnFlag, SetVPNGatewayServerEnabled, Return, Idle, Goto, At
  <2>3. Server' \/ "server" \in torn'
    <3>1. ASSUME "server" \notin torn'
          PROVE  \A h \in Goroutines : h # g => gor'[h].pc = "idle"
      BY <1>6, <2>1, <3>1 DEF ServerOnFlag, Return, Idle, Goto, At
    <3>2. ASSUME "server" \notin torn' PROVE nat' = TRUE
      BY <1>6, <2>1, <3>2, Zenon DEF ServerOnFlag, At
    <3>3. confServer' = TRUE /\ serverFlag' = TRUE
      BY <1>6, Zenon DEF ServerOnFlag, SetVPNGatewayServerEnabled
    <3>4. gor'[g].pc = IF g = Main THEN "startClient" ELSE "idle"
      BY <1>6 DEF ServerOnFlag, Return, Idle, Goto, At
    <3> QED
      BY <3>1, <3>2, <3>3, <3>4, Zenon
  <2> QED
    BY <2>2, <2>3, Zenon
<1> QED
  BY <1>1, <1>2, <1>3, <1>4, <1>5, <1>6, Zenon DEF SharedStep, EnableApply, applyClient

(* The server's views are kept or mended. Steps of the start. *)
LEMMA ServerBoot ==
  ASSUME ServerSupported, Base, ServerInv, Policy, Record,
         BootStep
  PROVE  ServerInv'
<1> USE Distinct, OptionsTyped DEF Base, Types, Places, Serial, ServerInv, Server, Flags, Views, Pc, Known, config, tunnel, netstate, dns, Goroutines, AllIdle
<1>1. ASSUME Boot PROVE ServerInv'
  <2>1. Torn("initDNS")
    BY <1>1, TornStarts, Zenon
  <2>2. Flags'
    BY <1>1, <2>1, Zenon DEF Torn, Mended, Boot, Goto, At
  <2>3. Server' \/ "server" \in torn'
    BY <1>1, <2>1 DEF Torn, Mended, Boot, Goto, At
  <2> QED
    BY <2>2, <2>3, Zenon
<1>2. ASSUME InitDNS PROVE ServerInv'
  <2>1. torn' = torn
    BY <1>2, TornStays, Zenon
  <2>2. Flags'
    BY <1>2, <2>1, Zenon DEF InitDNS, Goto, At
  <2>3. Server' \/ "server" \in torn'
    BY <1>2, <2>1 DEF InitDNS, Goto, At
  <2> QED
    BY <2>2, <2>3, Zenon
<1>3. ASSUME SkipDNS PROVE ServerInv'
  <2>1. torn' = torn
    BY <1>3, TornStays, Zenon
  <2>2. Flags'
    BY <1>3, <2>1, Zenon DEF SkipDNS, Goto, At
  <2>3. Server' \/ "server" \in torn'
    BY <1>3, <2>1 DEF SkipDNS, Goto, At
  <2> QED
    BY <2>2, <2>3, Zenon
<1>4. ASSUME SetupAtStartup PROVE ServerInv'
  <2>1. torn' = torn
    BY <1>4, TornStays, Zenon
  <2>2. Flags'
    BY <1>4, <2>1, Zenon DEF SetupAtStartup, At
  <2>3. Server' \/ "server" \in torn'
    BY <1>4, <2>1, Zenon DEF SetupAtStartup, At
  <2> QED
    BY <2>2, <2>3, Zenon
<1>5. ASSUME At(Main, "startServer") /\ applyServer /\ Goto(Main, "flag") /\ UNCHANGED <<config, disk, tunnel, changed, dns, app>> PROVE ServerInv'
  <2>1. torn' = torn
    BY <1>5, TornStays, Zenon
  <2>2. Flags'
    BY <1>5, <2>1, Zenon DEF applyServer, Goto, At
  <2>3. Server' \/ "server" \in torn'
    <3>1. ASSUME "server" \notin torn'
          PROVE  \A h \in Goroutines : h # Main => gor'[h].pc = "idle"
      BY <1>5, <2>1, <3>1, Zenon DEF Goto, At
    <3>2. nat' = TRUE /\ UNCHANGED app
      BY <1>5, Zenon DEF applyServer
    <3>3. gor'[Main].pc = "flag"
      BY <1>5 DEF Goto, At
    <3> QED
      BY <3>1, <3>2, <3>3, Zenon
  <2> QED
    BY <2>2, <2>3, Zenon
<1>6. ASSUME At(Main, "startServer") /\ FailBoot(Main) PROVE ServerInv'
  <2>1. torn' = torn
    BY <1>6, TornStays, Zenon
  <2>2. Flags'
    BY <1>6, <2>1, Zenon DEF FailBoot, Abort, ProcessEnds, Idle, At
  <2>3. Server' \/ "server" \in torn'
    BY <1>6, <2>1, Zenon DEF FailBoot, Abort, ProcessEnds, Idle, At
  <2> QED
    BY <2>2, <2>3, Zenon
<1>7. ASSUME At(Main, "startClient") /\ NoSavedClient PROVE ServerInv'
  <2>1. torn' = torn
    BY <1>7, TornStays, Zenon
  <2>2. Flags'
    BY <1>7, <2>1, Zenon DEF NoSavedClient, Return, Idle, At
  <2>3. Server' \/ "server" \in torn'
    BY <1>7, <2>1, Zenon DEF NoSavedClient, Return, Idle, At
  <2> QED
    BY <2>2, <2>3, Zenon
<1>8. ASSUME At(Main, "startClient") /\ DropMalformed PROVE ServerInv'
  <2>1. torn' = torn
    BY <1>8, TornStays, Zenon
  <2>0. ~routes' /\ nat' = nat /\ Policy' /\ dnsSet' = dnsSet
    BY <1>8, Teardown, Zenon DEF DropMalformed
  <2>2. Flags'
    BY <1>8, <2>1, <2>0, Zenon DEF DropMalformed, Goto, At
  <2>3. Server' \/ "server" \in torn'
    BY <1>8, <2>1, <2>0 DEF DropMalformed, Goto, At
  <2> QED
    BY <2>2, <2>3, Zenon
<1>9. ASSUME NEW p \in Peers, At(Main, "startClient") /\ BindSaved(p) PROVE ServerInv'
  <2>1. torn' = torn
    BY <1>9, TornStays, Zenon
  <2>2. Flags'
    BY <1>9, <2>1, Zenon DEF BindSaved, CanBind, SetVPNGatewayPeer, Goto, At
  <2>3. Server' \/ "server" \in torn'
    BY <1>9, <2>1 DEF BindSaved, CanBind, SetVPNGatewayPeer, Goto, At
  <2> QED
    BY <2>2, <2>3, Zenon
<1>10. ASSUME NEW p \in Peers, At(Main, "startClient") /\ RefuseSaved(p) PROVE ServerInv'
  <2>1. torn' = torn
    BY <1>10, TornStays, Zenon
  <2>2. Flags'
    BY <1>10, <2>1, Zenon DEF RefuseSaved, FailBoot, Abort, ProcessEnds, Idle, At
  <2>3. Server' \/ "server" \in torn'
    BY <1>10, <2>1, Zenon DEF RefuseSaved, FailBoot, Abort, ProcessEnds, Idle, At
  <2> QED
    BY <2>2, <2>3, Zenon
<1>11. ASSUME StartFailed PROVE ServerInv'
  <2>1. torn' = torn
    BY <1>11, TornStays, Zenon
  <2>2. Flags'
    BY <1>11, <2>1, Zenon DEF StartFailed, FailBoot, Abort, ProcessEnds, Idle, At
  <2>3. Server' \/ "server" \in torn'
    BY <1>11, <2>1, Zenon DEF StartFailed, FailBoot, Abort, ProcessEnds, Idle, At
  <2> QED
    BY <2>2, <2>3, Zenon
<1> QED
  BY <1>1, <1>2, <1>3, <1>4, <1>5, <1>6, <1>7, <1>8, <1>9, <1>10, <1>11, Zenon DEF BootStep, StartServer, StartClient

(* The server's views are kept or mended. Steps of the shutdown. *)
LEMMA ServerClose ==
  ASSUME ServerSupported, Base, ServerInv, Policy, Record,
         CloseStep
  PROVE  ServerInv'
<1> USE Distinct, OptionsTyped DEF Base, Types, Places, Serial, ServerInv, Server, Flags, Views, Pc, Known, config, tunnel, netstate, dns, Goroutines, AllIdle
<1>1. ASSUME Close PROVE ServerInv'
  <2>1. Torn("closeServer")
    BY <1>1, TornStarts, Zenon
  <2>0. ~routes' /\ nat' = nat /\ Policy' /\ dnsSet' = dnsSet
    BY <1>1, Teardown, Zenon DEF Close
  <2>2. Flags'
    BY <1>1, <2>1, <2>0, Zenon DEF Torn, Mended, Close, Goto, At
  <2>3. Server' \/ "server" \in torn'
    BY <1>1, <2>1, <2>0 DEF Torn, Mended, Close, Goto, At
  <2> QED
    BY <2>2, <2>3, Zenon
<1>2. ASSUME CloseServer PROVE ServerInv'
  <2>1. torn' = torn
    BY <1>2, TornStays, Zenon
  <2>2. Flags'
    BY <1>2, <2>1, Zenon DEF CloseServer, teardownServer, Goto, At
  <2>3. Server' \/ "server" \in torn'
    BY <1>2, <2>1 DEF CloseServer, teardownServer, Goto, At
  <2> QED
    BY <2>2, <2>3, Zenon
<1>3. ASSUME CloseApi PROVE ServerInv'
  <2>1. torn' = torn
    BY <1>3, TornStays, Zenon
  <2>2. Flags'
    BY <1>3, <2>1, Zenon DEF CloseApi, Goto, At
  <2>3. Server' \/ "server" \in torn'
    BY <1>3, <2>1 DEF CloseApi, Goto, At
  <2> QED
    BY <2>2, <2>3, Zenon
<1>4. ASSUME CloseRest PROVE ServerInv'
  <2>1. torn' = torn
    BY <1>4, TornStays, Zenon
  <2>2. Flags'
    BY <1>4, <2>1, Zenon DEF CloseRest, ProcessEnds, Snapshot, Idle, At
  <2>3. Server' \/ "server" \in torn'
    BY <1>4, <2>1, Zenon DEF CloseRest, ProcessEnds, Snapshot, Idle, At
  <2> QED
    BY <2>2, <2>3, Zenon
<1> QED
  BY <1>1, <1>2, <1>3, <1>4, Zenon DEF CloseStep

(* The server's views are kept or mended. Steps of the rest of the process. *)
LEMMA ServerRest ==
  ASSUME ServerSupported, Base, ServerInv, Policy, Record,
         Crash \/ RefreshPeersList \/ (\E p \in Peers : PeerChanges(p)) \/ WriteConfig
  PROVE  ServerInv'
<1> USE Distinct, OptionsTyped DEF Base, Types, Places, Serial, ServerInv, Server, Flags, Views, Pc, Known, config, tunnel, netstate, dns, Goroutines, AllIdle
<1>1. ASSUME Crash PROVE ServerInv'
  <2>1. torn' = torn
    BY <1>1, TornStays, Zenon
  <2>2. Flags'
    BY <1>1, <2>1, Zenon DEF Crash, Abort, ProcessEnds, Idle, At
  <2>3. Server' \/ "server" \in torn'
    BY <1>1, <2>1, Zenon DEF Crash, Abort, ProcessEnds, Idle, At
  <2> QED
    BY <2>2, <2>3, Zenon
<1>2. ASSUME RefreshPeersList PROVE ServerInv'
  <2>1. torn' = torn
    BY <1>2, TornStays, Zenon
  <2>2. Flags'
    BY <1>2, <2>1, Zenon DEF RefreshPeersList, At
  <2>3. Server' \/ "server" \in torn'
    BY <1>2, <2>1, Zenon DEF RefreshPeersList, At
  <2> QED
    BY <2>2, <2>3, Zenon
<1>3. ASSUME NEW p \in Peers, PeerChanges(p) PROVE ServerInv'
  <2>1. torn' = torn
    BY <1>3, TornStays, Zenon
  <2>2. Flags'
    BY <1>3, <2>1, Zenon DEF PeerChanges, At
  <2>3. Server' \/ "server" \in torn'
    BY <1>3, <2>1, Zenon DEF PeerChanges, At
  <2> QED
    BY <2>2, <2>3, Zenon
<1>4. ASSUME WriteConfig PROVE ServerInv'
  <2>1. torn' = torn
    BY <1>4, TornStays, Zenon
  <2>2. Flags'
    BY <1>4, <2>1, Zenon DEF WriteConfig, Snapshot, At
  <2>3. Server' \/ "server" \in torn'
    BY <1>4, <2>1, Zenon DEF WriteConfig, Snapshot, At
  <2> QED
    BY <2>2, <2>3, Zenon
<1> QED
  BY <1>1, <1>2, <1>3, <1>4, Zenon

(* The resolver's policy is kept or mended. Steps of API calls. *)
LEMMA ResolverCalls ==
  ASSUME Base, Resolver, Record,
         NEW g \in Workers, CallStep(g)
  PROVE  Resolver'
<1> USE Distinct, OptionsTyped DEF Base, Types, Places, Resolver, Policy, Views, Pc, Known, config, tunnel, netstate, dns, Goroutines, AllIdle
<1>1. ASSUME NEW p \in Peers, EnableClient(g, p) PROVE Resolver'
  <2>1. Torn("apply")
    BY <1>1, TornStarts, Zenon
  <2> QED
    BY <1>1, <2>1 DEF Torn, Mended, Call, EnableClient, CanBind, SetVPNGatewayPeer, At
<1>2. ASSUME DisableClient(g) PROVE Resolver'
  <2>1. Torn("clear")
    BY <1>2, TornStarts, Zenon
  <2>0. ~routes' /\ nat' = nat /\ Policy' /\ dnsSet' = dnsSet
    BY <1>2, Teardown, Zenon DEF DisableClient
  <2> QED
    BY <1>2, <2>1, <2>0, Zenon DEF Torn, Mended, Call, DisableClient, Goto, At
<1>3. ASSUME ServerOn(g) /\ applyServer /\ Goto(g, "flag") PROVE Resolver'
  <2>1. Torn("flag")
    BY <1>3, TornStarts, Zenon
  <2> QED
    BY <1>3, <2>1 DEF Torn, Mended, Call, ServerOn, applyServer, Goto, At
<1>4. ASSUME ServerOn(g) /\ NATFails /\ UNCHANGED gor PROVE Resolver'
  <2>1. torn' = torn
    BY <1>4, TornStays, Zenon
  <2> QED
    BY <1>4, <2>1, Zenon DEF Call, ServerOn, NATFails, At
<1>5. ASSUME ServerOff(g) PROVE Resolver'
  <2>1. Torn("natDown")
    BY <1>5, TornStarts, Zenon
  <2> QED
    BY <1>5, <2>1 DEF Torn, Mended, Call, ServerOff, SetVPNGatewayServerEnabled, Goto, At
<1>6. ASSUME NEW p \in Peers, RemovePeer(g, p) PROVE Resolver'
  <2>1. Torn("remove")
    BY <1>6, TornStarts, Zenon
  <2> QED
    BY <1>6, <2>1, Zenon DEF Torn, Mended, Call, RemovePeer, At
<1>7. ASSUME ServerOffNAT(g) PROVE Resolver'
  <2>1. torn' = torn
    BY <1>7, TornStays, Zenon
  <2> QED
    BY <1>7, <2>1, Zenon DEF ServerOffNAT, teardownServer, Return, Idle, At
<1>8. ASSUME RemovePeerFinish(g) PROVE Resolver'
  <2>1. torn' = torn
    BY <1>8, TornStays, Zenon
  <2> QED
    BY <1>8, <2>1, Zenon DEF RemovePeerFinish, Return, Idle, At
<1> QED
  BY <1>1, <1>2, <1>3, <1>4, <1>5, <1>6, <1>7, <1>8, Zenon DEF CallStep, ServerOn

(* The resolver's policy is kept or mended. Steps shared by calls and the start. *)
LEMMA ResolverShared ==
  ASSUME Base, Resolver, Record,
         NEW g \in Goroutines, SharedStep(g)
  PROVE  Resolver'
<1> USE Distinct, OptionsTyped DEF Base, Types, Places, Resolver, Policy, Views, Pc, Known, config, tunnel, netstate, dns, Goroutines, AllIdle
<1>1. ASSUME EnableApply(g) /\ confGateway # None /\ InstallRoutes(g) PROVE Resolver'
  <2>1. torn' = torn
    BY <1>1, TornStays, Zenon
  <2>0. routes' /\ nat' = nat /\ Policy' /\ dnsSet' = dnsSet /\ (dnsSet' => force') /\ Return(g)
    BY <1>1, Install, Zenon
  <2> QED
    <3>1. gor[g].pc = "apply" /\ gor'[g].pc = "idle" /\ \A h \in Goroutines : h # g => gor'[h] = gor[h]
      BY <1>1, <2>0, Zenon DEF EnableApply, Return, Idle, At
    <3>2. app' \notin {"down", "dead"}
      BY <2>0, <3>1, Zenon DEF Return
    <3>3. "dns" \notin torn' => gor'[Main].pc # "initDNS"
      BY <2>1, <3>1, Zenon DEF Serial
    <3>4. gor'[Main].pc = "initDNS" => ~dnsSet'
      BY <2>0, <3>1, Zenon
    <3> QED
      BY <2>0, <3>2, <3>3, <3>4, Zenon
<1>2. ASSUME EnableApply(g) /\ routes /\ Return(g) /\ UNCHANGED <<netstate, dns>> PROVE Resolver'
  <2>1. torn' = torn
    BY <1>2, TornStays, Zenon
  <2> QED
    BY <1>2, <2>1, Zenon DEF EnableApply, Return, Idle, At
<1>3. ASSUME EnableApply(g) /\ RefuseClient(g) PROVE Resolver'
  <2>1. torn' = torn
    BY <1>3, TornStays, Zenon
  <2> QED
    BY <1>3, <2>1 DEF EnableApply, RefuseClient, Goto, At
<1>4. ASSUME EnableRollback(g) PROVE Resolver'
  <2>1. torn' = torn
    BY <1>4, TornStays, Zenon
  <2> QED
    BY <1>4, <2>1 DEF EnableRollback, ClearVPNGatewayPeer, Return, Idle, Goto, At
<1>5. ASSUME DisableClear(g) PROVE Resolver'
  <2>1. torn' = torn
    BY <1>5, TornStays, Zenon
  <2> QED
    BY <1>5, <2>1, Zenon DEF DisableClear, ClearVPNGatewayPeer, Return, Idle, At
<1>6. ASSUME ServerOnFlag(g) PROVE Resolver'
  <2>1. torn' = torn
    BY <1>6, TornStays, Zenon
  <2> QED
    BY <1>6, <2>1 DEF ServerOnFlag, SetVPNGatewayServerEnabled, Return, Idle, Goto, At
<1> QED
  BY <1>1, <1>2, <1>3, <1>4, <1>5, <1>6, Zenon DEF SharedStep, EnableApply, applyClient

(* The resolver's policy is kept or mended. Steps of the start. *)
LEMMA ResolverBoot ==
  ASSUME Base, Resolver, Record,
         BootStep
  PROVE  Resolver'
<1> USE Distinct, OptionsTyped DEF Base, Types, Places, Resolver, Policy, Views, Pc, Known, config, tunnel, netstate, dns, Goroutines, AllIdle
<1>1. ASSUME Boot PROVE Resolver'
  <2>1. Torn("initDNS")
    BY <1>1, TornStarts, Zenon
  <2> QED
    BY <1>1, <2>1, Zenon DEF Torn, Mended, Boot, Goto, At
<1>2. ASSUME InitDNS PROVE Resolver'
  <2>1. torn' = torn
    BY <1>2, TornStays, Zenon
  <2> QED
    <3>1. gor'[Main].pc = "startup" /\ app' = app /\ routes' = routes
      BY <1>2 DEF InitDNS, Goto, At
    <3>2. app' \notin {"down", "dead"} /\ ("dns" \notin torn' => ~routes)
      BY <1>2, <2>1, <3>1, Zenon DEF InitDNS, At
    <3>3. force' \in BOOLEAN
      BY <1>2, Zenon DEF InitDNS
    <3>4. ~dnsSet
      BY <1>2, Zenon DEF InitDNS, At
    <3>5. CASE dnsSet' = TRUE /\ osDNS' = chooseDNSPolicy(force')
      BY <3>1, <3>2, <3>3, <3>5, Zenon DEF chooseDNSPolicy
    <3>6. CASE UNCHANGED <<dnsSet, osDNS>>
      BY <3>1, <3>2, <3>3, <3>4, <3>6, Zenon
    <3> QED
      BY <1>2, <3>5, <3>6, Zenon DEF InitDNS
<1>3. ASSUME SkipDNS PROVE Resolver'
  <2>1. torn' = torn
    BY <1>3, TornStays, Zenon
  <2> QED
    BY <1>3, <2>1, Zenon DEF SkipDNS, Goto, At
<1>4. ASSUME SetupAtStartup PROVE Resolver'
  <2>1. torn' = torn
    BY <1>4, TornStays, Zenon
  <2> QED
    BY <1>4, <2>1, Zenon DEF SetupAtStartup, At
<1>5. ASSUME At(Main, "startServer") /\ applyServer /\ Goto(Main, "flag") /\ UNCHANGED <<config, disk, tunnel, changed, dns, app>> PROVE Resolver'
  <2>1. torn' = torn
    BY <1>5, TornStays, Zenon
  <2> QED
    BY <1>5, <2>1 DEF applyServer, Goto, At
<1>6. ASSUME At(Main, "startServer") /\ FailBoot(Main) PROVE Resolver'
  <2>1. torn' = torn
    BY <1>6, TornStays, Zenon
  <2> QED
    BY <1>6, <2>1, Zenon DEF FailBoot, Abort, ProcessEnds, Idle, At
<1>7. ASSUME At(Main, "startClient") /\ NoSavedClient PROVE Resolver'
  <2>1. torn' = torn
    BY <1>7, TornStays, Zenon
  <2> QED
    BY <1>7, <2>1, Zenon DEF NoSavedClient, Return, Idle, At
<1>8. ASSUME At(Main, "startClient") /\ DropMalformed PROVE Resolver'
  <2>1. torn' = torn
    BY <1>8, TornStays, Zenon
  <2>0. ~routes' /\ nat' = nat /\ Policy' /\ dnsSet' = dnsSet
    BY <1>8, Teardown, Zenon DEF DropMalformed
  <2> QED
    BY <1>8, <2>1, <2>0 DEF DropMalformed, Goto, At
<1>9. ASSUME NEW p \in Peers, At(Main, "startClient") /\ BindSaved(p) PROVE Resolver'
  <2>1. torn' = torn
    BY <1>9, TornStays, Zenon
  <2> QED
    BY <1>9, <2>1 DEF BindSaved, CanBind, SetVPNGatewayPeer, Goto, At
<1>10. ASSUME NEW p \in Peers, At(Main, "startClient") /\ RefuseSaved(p) PROVE Resolver'
  <2>1. torn' = torn
    BY <1>10, TornStays, Zenon
  <2> QED
    BY <1>10, <2>1, Zenon DEF RefuseSaved, FailBoot, Abort, ProcessEnds, Idle, At
<1>11. ASSUME StartFailed PROVE Resolver'
  <2>1. torn' = torn
    BY <1>11, TornStays, Zenon
  <2> QED
    BY <1>11, <2>1, Zenon DEF StartFailed, FailBoot, Abort, ProcessEnds, Idle, At
<1> QED
  BY <1>1, <1>2, <1>3, <1>4, <1>5, <1>6, <1>7, <1>8, <1>9, <1>10, <1>11, Zenon DEF BootStep, StartServer, StartClient

(* The resolver's policy is kept or mended. Steps of the shutdown. *)
LEMMA ResolverClose ==
  ASSUME Base, Resolver, Record,
         CloseStep
  PROVE  Resolver'
<1> USE Distinct, OptionsTyped DEF Base, Types, Places, Resolver, Policy, Views, Pc, Known, config, tunnel, netstate, dns, Goroutines, AllIdle
<1>1. ASSUME Close PROVE Resolver'
  <2>1. Torn("closeServer")
    BY <1>1, TornStarts, Zenon
  <2>0. ~routes' /\ nat' = nat /\ Policy' /\ dnsSet' = dnsSet
    BY <1>1, Teardown, Zenon DEF Close
  <2> QED
    BY <1>1, <2>1, <2>0 DEF Torn, Mended, Close, Goto, At
<1>2. ASSUME CloseServer PROVE Resolver'
  <2>1. torn' = torn
    BY <1>2, TornStays, Zenon
  <2> QED
    BY <1>2, <2>1 DEF CloseServer, teardownServer, Goto, At
<1>3. ASSUME CloseApi PROVE Resolver'
  <2>1. torn' = torn
    BY <1>3, TornStays, Zenon
  <2> QED
    BY <1>3, <2>1 DEF CloseApi, Goto, At
<1>4. ASSUME CloseRest PROVE Resolver'
  <2>1. torn' = torn
    BY <1>4, TornStays, Zenon
  <2> QED
    BY <1>4, <2>1, Zenon DEF CloseRest, ProcessEnds, Snapshot, Idle, At
<1> QED
  BY <1>1, <1>2, <1>3, <1>4, Zenon DEF CloseStep

(* The resolver's policy is kept or mended. Steps of the rest of the process. *)
LEMMA ResolverRest ==
  ASSUME Base, Resolver, Record,
         Crash \/ RefreshPeersList \/ (\E p \in Peers : PeerChanges(p)) \/ WriteConfig
  PROVE  Resolver'
<1> USE Distinct, OptionsTyped DEF Base, Types, Places, Resolver, Policy, Views, Pc, Known, config, tunnel, netstate, dns, Goroutines, AllIdle
<1>1. ASSUME Crash PROVE Resolver'
  <2>1. torn' = torn
    BY <1>1, TornStays, Zenon
  <2> QED
    BY <1>1, <2>1, Zenon DEF Crash, Abort, ProcessEnds, Idle, At
<1>2. ASSUME RefreshPeersList PROVE Resolver'
  <2>1. torn' = torn
    BY <1>2, TornStays, Zenon
  <2> QED
    BY <1>2, <2>1, Zenon DEF RefreshPeersList, At
<1>3. ASSUME NEW p \in Peers, PeerChanges(p) PROVE Resolver'
  <2>1. torn' = torn
    BY <1>3, TornStays, Zenon
  <2> QED
    BY <1>3, <2>1, Zenon DEF PeerChanges, At
<1>4. ASSUME WriteConfig PROVE Resolver'
  <2>1. torn' = torn
    BY <1>4, TornStays, Zenon
  <2> QED
    BY <1>4, <2>1, Zenon DEF WriteConfig, Snapshot, At
<1> QED
  BY <1>1, <1>2, <1>3, <1>4, Zenon

(***************************************************************************)
(* The invariant.                                                          *)
(***************************************************************************)

LEMMA InitIInv == Init => IInv /\ ServerInv
<1> SUFFICES ASSUME Init PROVE IInv /\ ServerInv
  OBVIOUS
<1> USE Distinct, OptionsTyped DEF Init, Idle, Pc, Goroutines, AllIdle
<1>1. Types
  BY FirstGatewayTyped, Zenon DEF Types, GatewayIDs, PeerStates, PCs, Snapshot
<1>2. Places /\ Serial
  BY Zenon DEF Places, Serial
<1>3. Client
  BY Zenon DEF Client, ClientLife, Progress, Bound, Settled
<1>4. Flags /\ Server
  BY Zenon DEF Flags, Server, Snapshot
<1>5. Resolver
  BY Zenon DEF Resolver, Policy
<1> QED
  BY <1>1, <1>2, <1>3, <1>4, <1>5, Zenon DEF IInv, Base, ClientInv, ServerInv

(* Every step keeps the invariant. *)
LEMMA NextIInv ==
  ASSUME ClientSupported, IInv, Next
  PROVE  IInv'
<1>1. Base /\ ClientInv /\ Resolver /\ Policy /\ Record /\ Step
  BY Zenon DEF IInv, Resolver, Next
<1>2. Base'
  BY <1>1, BaseCalls, BaseShared, BaseBoot, BaseClose, BaseRest, Zenon DEF Step
<1>3. ClientInv'
  BY <1>1, <1>2, ClientCalls, ClientShared, ClientBoot, ClientClose, ClientRest, Zenon DEF Step
<1>4. Resolver'
  BY <1>1, ResolverCalls, ResolverShared, ResolverBoot, ResolverClose, ResolverRest, Zenon DEF Step
<1> QED
  BY <1>2, <1>3, <1>4, Zenon DEF IInv

LEMMA NextServerInv ==
  ASSUME ClientSupported, ServerSupported, IInv, ServerInv, Next
  PROVE  ServerInv'
<1>1. Base /\ Base' /\ Policy /\ Record /\ Step
  BY NextIInv, Zenon DEF IInv, Resolver, Next
<1> QED
  BY <1>1, ServerCalls, ServerShared, ServerBoot, ServerClose, ServerRest, Zenon DEF Step

LEMMA Stutter ==
  ASSUME UNCHANGED vars
  PROVE  (IInv => IInv') /\ (ServerInv => ServerInv')
<1> USE DEF Pc, AllIdle, Known, vars, config, tunnel, netstate, dns
<1>1. Base => Base'
  BY ZenonT(40) DEF Base, Types, Places, Serial
<1>2. ClientInv => ClientInv'
  BY ZenonT(40) DEF ClientInv, Client, ClientLife, Progress, Bound, Settled
<1>3. Resolver => Resolver'
  BY ZenonT(40) DEF Resolver, Policy
<1>4. ServerInv => ServerInv'
  BY ZenonT(40) DEF ServerInv, Flags, Server
<1> QED
  BY <1>1, <1>2, <1>3, <1>4, ZenonT(40) DEF IInv

LEMMA Invariance ==
  ASSUME ClientSupported
  PROVE  Spec => []IInv
<1>1. IInv /\ [Next]_vars => IInv'
  BY NextIInv, Stutter, Zenon
<1> QED
  BY InitIInv, <1>1, PTL DEF Spec

LEMMA ServerInvariance ==
  ASSUME ClientSupported, ServerSupported
  PROVE  Spec => []ServerInv
<1>1. IInv /\ ServerInv /\ [Next]_vars => ServerInv'
  BY NextServerInv, Stutter, Zenon
<1> QED
  BY InitIInv, Invariance, <1>1, PTL DEF Spec

(* Gateway routes always have a bound peer the tunnel knows, unless        *)
(* transactions overlapped and no client transaction has run alone since.  *)
THEOREM RoutesAreBound ==
  ASSUME ClientSupported
  PROVE  Spec => []NoBlackHole
<1>1. IInv => NoBlackHole
  BY Zenon DEF IInv, ClientInv, Client, Bound, NoBlackHole
<1> QED
  BY Invariance, <1>1, PTL

(* At rest config, tunnel binding and OS routes agree about the gateway,   *)
(* with the same exception.                                                *)
THEOREM ViewsAgree ==
  ASSUME ClientSupported
  PROVE  Spec => []ClientAgrees
<1>1. IInv => ClientAgrees
  BY Distinct, Zenon DEF IInv, ClientInv, Client, Settled, ClientAgrees, Rest, At, Pc, Busy
<1> QED
  BY Invariance, <1>1, PTL

(* At rest the server flag, the saved flag and the NAT rules agree, unless *)
(* transactions overlapped and SetServerEnabled has not run alone since.   *)
THEOREM ServerViewsAgree ==
  ASSUME ClientSupported, ServerSupported
  PROVE  Spec => []ServerAgrees
<1>1. ServerInv => ServerAgrees
  BY Distinct, Zenon DEF ServerInv, Server, ServerAgrees, Rest, At, Pc, Busy
<1> QED
  BY ServerInvariance, <1>1, PTL

(* While routes are installed at rest the OS resolver sends every query    *)
(* through awl to the public upstream (ForceUpstreamDNS), with the same    *)
(* exception, and unless the OS refused the last change of its resolver.   *)
THEOREM ResolverForced ==
  ASSUME ClientSupported
  PROVE  Spec => []NoDnsLeak
<1>1. IInv => NoDnsLeak
  BY Zenon DEF IInv, Resolver, Policy, NoDnsLeak, chooseDNSPolicy
<1> QED
  BY Invariance, <1>1, PTL
=============================================================================
