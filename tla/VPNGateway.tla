----------------------------- MODULE VPNGateway -----------------------------
(***************************************************************************)
(* VPN gateway mode of one desktop node: service/vpn_gateway.go, the       *)
(* gateway binding inside service/tunnel.go, the API handlers that drive   *)
(* it, and the parts of application.go that start it, stop it and point    *)
(* the OS resolver at awl.                                                 *)
(*                                                                         *)
(* API calls run in Workers, Application.Init and Close in Main.  A step   *)
(* is one critical section: VPNGateway.mu, Tunnel.peersLock, DNSService.mu *)
(* or the config lock.  The gateway is enabled in the config exactly when  *)
(* a gateway peer is recorded there (the code writes both together), so    *)
(* one variable stands for both fields.  The VPN interface is enabled:     *)
(* without it there is no tunnel, nothing can be enabled, and disabling    *)
(* only writes the config.                                                 *)
(***************************************************************************)
EXTENDS Integers, FiniteSets

CONSTANTS
  Peers,            \* remote peer IDs
  Workers,          \* goroutines of API calls
  Main,             \* the goroutine of Application.Init and Close
  None,             \* no gateway peer
  Malformed,        \* a gateway peer ID in the file that does not decode
  FirstGateway,     \* gateway peers the config file may start with
  ClientSupported,  \* VPNGatewayClientSupported() = nil
  ServerSupported,  \* VPNGatewayServerSupported() = nil
  SplitDNS,         \* the OS supports split DNS
  OSFails,          \* OS operations that may fail: "routes", "nat", "dns"
  Calls,            \* API calls in use
  MaxCalls          \* bound: transactions in flight at once

ASSUME PeersFinite == IsFiniteSet(Peers) /\ IsFiniteSet(Workers)
ASSUME Distinct ==
  /\ None \notin Peers /\ Malformed \notin Peers /\ None # Malformed
  /\ Main \notin Workers
ASSUME FirstGatewayTyped == FirstGateway \subseteq Peers \cup {None, Malformed}
ASSUME OptionsTyped ==
  /\ ClientSupported \in BOOLEAN /\ ServerSupported \in BOOLEAN
  /\ SplitDNS \in BOOLEAN
  /\ OSFails \subseteq {"routes", "nat", "dns"}
  /\ Calls \subseteq {"enable", "disable", "serverOn", "serverOff", "remove"}
  /\ MaxCalls \in Nat \ {0}

Goroutines == Workers \cup {Main}
GatewayIDs == Peers \cup {None, Malformed}

VARIABLES
  peers,        \* config.KnownPeers, and CanUseAsVPNGateway of each
  confGateway,  \* config.VPNGateway.ClientEnabled and GatewayPeerID
  confServer,   \* config.VPNGateway.ServerEnabled
  disk,         \* the config file
  vpnPeers,     \* Tunnel.peerIDToPeer
  gateway,      \* Tunnel.vpnGatewayPeerID, None when the client is disabled
  serverFlag,   \* Tunnel.vpnGatewayServerEnabled
  changed,      \* a KnownPeerChanged event is waiting
  routes,       \* netstate: client routes installed
  nat,          \* netstate: server NAT configured by this process
  osNAT,        \* NAT rules present in the OS
  dnsSet,       \* DNSService.isAwlDNSSetAsSystem
  force,        \* DNSService.forceUpstream
  osDNS,        \* what the OS resolver sends to awl
  refused,      \* history: the OS refused the last change of osDNS
  app,          \* the process
  gor,          \* the goroutines: where each is and the peer it works on
  torn          \* history: views that overlapping transactions may have torn

config == <<peers, confGateway, confServer>>
tunnel == <<vpnPeers, gateway, serverFlag>>
netstate == <<routes, nat, osNAT>>
dns == <<dnsSet, force, osDNS, refused>>
vars == <<config, disk, tunnel, changed, netstate, dns, app, gor, torn>>

PeerStates == {"unknown", "known", "gateway"}
PCs == {"idle", "apply", "rollback", "clear", "flag", "natDown", "remove",
        "initDNS", "startup", "startServer", "startClient", "startFailed",
        "closeServer", "closeApi", "closeRest"}

Snapshot == [peers |-> peers, gateway |-> confGateway, server |-> confServer]

Idle == [pc |-> "idle", peer |-> None]

Init ==
  /\ peers = [p \in Peers |-> "unknown"]
  /\ confGateway \in FirstGateway
  /\ confServer = FALSE
  /\ disk = Snapshot
  /\ vpnPeers = {} /\ gateway = None /\ serverFlag = FALSE
  /\ changed = FALSE
  /\ routes = FALSE /\ nat = FALSE /\ osNAT = FALSE
  /\ dnsSet = FALSE /\ force = FALSE /\ osDNS = "system" /\ refused = FALSE
  /\ app = "down"
  /\ gor = [g \in Goroutines |-> Idle]
  /\ torn = {}

Known == {p \in Peers : peers[p] # "unknown"}

(***************************************************************************)
(* Control flow.                                                           *)
(***************************************************************************)
At(g, pc) == gor[g].pc = pc

Goto(g, pc) == gor' = [gor EXCEPT ![g].pc = pc]

Busy == {g \in Goroutines : ~At(g, "idle")}

(* The API server listens from SetupAPI, before DNS and the gateway are    *)
(* set up, until Api.Shutdown, after the gateway is torn down.             *)
Call(g, call) ==
  /\ call \in Calls
  /\ g \in Workers
  /\ At(g, "idle")
  /\ app \in {"boot", "up", "closing"}
  /\ Cardinality(Busy) < MaxCalls

(* A transaction is over: an API call answers, Init is complete. *)
Return(g) ==
  /\ gor' = [gor EXCEPT ![g] = Idle]
  /\ app' = IF g = Main THEN "up" ELSE app

(* The process is gone: memory is lost, the TUN and its routes with it.    *)
(* NAT rules and the resolver setting stay as they are.                    *)
ProcessEnds(status) ==
  /\ app' = status
  /\ gor' = [g \in Goroutines |-> Idle]
  /\ vpnPeers' = {} /\ gateway' = None /\ serverFlag' = FALSE
  /\ changed' = FALSE
  /\ routes' = FALSE /\ nat' = FALSE
  /\ dnsSet' = FALSE /\ force' = FALSE /\ refused' = FALSE
  /\ UNCHANGED osNAT

(* A process that ends without Close restarts from what reached the disk.  *)
Abort ==
  /\ ProcessEnds("dead")
  /\ peers' = disk.peers
  /\ confGateway' = disk.gateway
  /\ confServer' = disk.server
  /\ UNCHANGED <<disk, osDNS>>

(* Init returns an error: the main programs exit without calling Close.    *)
FailBoot(g) == g = Main /\ Abort

(***************************************************************************)
(* DNSService.                                                             *)
(***************************************************************************)
chooseDNSPolicy(forced) ==
  IF forced THEN "allToUpstream"
  ELSE IF SplitDNS THEN "awlOnly" ELSE "allToBase"

(* initDNS: the resolver always starts; taking over the OS may fail. *)
InitDNS ==
  /\ At(Main, "initDNS")
  /\ force' = (confGateway # None)
  /\ \/ dnsSet' = TRUE /\ osDNS' = chooseDNSPolicy(force')
     \/ UNCHANGED <<dnsSet, osDNS>>
  /\ Goto(Main, "startup")
  /\ UNCHANGED <<config, disk, tunnel, changed, netstate, refused, app>>

(* Mutant: the new policy waits for the next change of the peers. *)
ForceUpstreamLater(enabled) ==
  force' = (IF dnsSet THEN enabled ELSE force) /\ UNCHANGED <<dnsSet, osDNS, refused>>

(* applyOSDNSConfigLocked returns without a change when the base config    *)
(* cannot be read or SetDNS fails.                                         *)
ApplyOSDNSConfig(enabled) ==
  \/ osDNS' = chooseDNSPolicy(enabled) /\ refused' = FALSE
  \/ "dns" \in OSFails /\ refused' = TRUE /\ UNCHANGED osDNS

(* The flag changes before the OS is asked, and stays if the OS refuses:   *)
(* the next call with the same value does not try again.                   *)
ForceUpstreamDNS(enabled) ==
  IF dnsSet /\ force # enabled
  THEN force' = enabled /\ ApplyOSDNSConfig(enabled) /\ UNCHANGED dnsSet
  ELSE UNCHANGED dns

(***************************************************************************)
(* Tunnel: the gateway binding, under peersLock.                           *)
(***************************************************************************)
CanBind(p) == peers[p] = "gateway" /\ p \in vpnPeers

SetVPNGatewayPeer(p) ==
  /\ gateway' = p
  /\ confGateway' = p
  /\ UNCHANGED <<peers, confServer, disk, vpnPeers, serverFlag>>

ClearVPNGatewayPeer ==
  /\ gateway' = None
  /\ confGateway' = None
  /\ UNCHANGED <<peers, confServer, disk, vpnPeers, serverFlag>>

SetVPNGatewayServerEnabled(enabled) ==
  /\ serverFlag' = enabled
  /\ confServer' = enabled
  /\ UNCHANGED <<peers, confGateway, disk, vpnPeers, gateway>>

(* RefreshPeersList, called for each KnownPeerChanged event: follow        *)
(* KnownPeers and unbind a gateway that is gone.                           *)
RefreshPeersList ==
  /\ changed
  /\ app # "apiClosed"
  /\ changed' = FALSE
  /\ vpnPeers' = Known
  /\ gateway' = IF gateway \in Known THEN gateway ELSE None
  /\ UNCHANGED <<config, disk, serverFlag, netstate, dns, app, gor>>

(***************************************************************************)
(* VPNGateway: apply and teardown, under mu.                               *)
(***************************************************************************)
InstallRoutes(g) ==
  /\ ~routes
  /\ routes' = TRUE
  /\ ForceUpstreamDNS(TRUE)
  /\ UNCHANGED <<nat, osNAT>>
  /\ Return(g)

RefuseClient(g) ==
  /\ \/ confGateway = None
     \/ ~routes /\ "routes" \in OSFails
  /\ Goto(g, "rollback")
  /\ UNCHANGED <<netstate, dns, app>>

(* applyClient: fails when the config names no gateway, keeps routes that  *)
(* are installed, otherwise installs them and forces DNS upstream.         *)
applyClient(g) ==
  \/ confGateway # None /\ InstallRoutes(g)
  \/ confGateway # None /\ routes /\ Return(g) /\ UNCHANGED <<netstate, dns>>
  \/ RefuseClient(g)

teardownClient ==
  IF routes
  THEN /\ routes' = FALSE
       /\ ForceUpstreamDNS(FALSE)
       /\ UNCHANGED <<nat, osNAT>>
  ELSE UNCHANGED <<netstate, dns>>

(* applyServer succeeds, or fails and rolls its own rules back. *)
applyServer ==
  /\ nat' = TRUE
  /\ osNAT' = TRUE
  /\ UNCHANGED routes

NATFails ==
  /\ ~nat
  /\ "nat" \in OSFails
  /\ osNAT' \in {osNAT, FALSE}
  /\ UNCHANGED <<routes, nat>>

teardownServer ==
  /\ nat' = FALSE
  /\ osNAT' = (osNAT /\ ~nat)
  /\ UNCHANGED routes

(***************************************************************************)
(* API calls and the steps they share with the boot path.                  *)
(***************************************************************************)
EnableClient(g, p) ==
  /\ Call(g, "enable")
  /\ ClientSupported
  /\ CanBind(p)
  /\ SetVPNGatewayPeer(p)
  /\ gor' = [gor EXCEPT ![g] = [pc |-> "apply", peer |-> p]]
  /\ UNCHANGED <<changed, netstate, dns, app>>

EnableApply(g) ==
  /\ At(g, "apply")
  /\ applyClient(g)
  /\ UNCHANGED <<config, disk, tunnel, changed>>

(* Mutant: a failed apply leaves the binding and the config in place. *)
EnableNoRollback(g) ==
  /\ At(g, "rollback")
  /\ IF g = Main THEN Goto(g, "startFailed") /\ UNCHANGED app ELSE Return(g)
  /\ UNCHANGED <<config, disk, tunnel, changed, netstate, dns>>

EnableRollback(g) ==
  /\ At(g, "rollback")
  /\ ClearVPNGatewayPeer
  /\ IF g = Main THEN Goto(g, "startFailed") /\ UNCHANGED app ELSE Return(g)
  /\ UNCHANGED <<changed, netstate, dns>>

(* DisableClient tears the OS state down first and clears the binding in a *)
(* second critical section.                                                *)
DisableClient(g) ==
  /\ Call(g, "disable")
  /\ teardownClient
  /\ Goto(g, "clear")
  /\ UNCHANGED <<config, disk, tunnel, changed, app>>

DisableClear(g) ==
  /\ At(g, "clear")
  /\ ClearVPNGatewayPeer
  /\ Return(g)
  /\ UNCHANGED <<changed, netstate, dns>>

(* SetServerEnabled(true): NAT first, then the flag; (false): the flag     *)
(* first, then NAT.                                                        *)
ServerOn(g) ==
  /\ Call(g, "serverOn")
  /\ ServerSupported
  /\ \/ applyServer /\ Goto(g, "flag")
     \/ NATFails /\ UNCHANGED gor
  /\ UNCHANGED <<config, disk, tunnel, changed, dns, app>>

ServerOnFlag(g) ==
  /\ At(g, "flag")
  /\ SetVPNGatewayServerEnabled(TRUE)
  /\ IF g = Main THEN Goto(g, "startClient") /\ UNCHANGED app ELSE Return(g)
  /\ UNCHANGED <<changed, netstate, dns>>

(* Mutant: disabling the server leaves the NAT rules installed. *)
ServerOffKeepsNAT(g) ==
  /\ Call(g, "serverOff")
  /\ SetVPNGatewayServerEnabled(FALSE)
  /\ Return(g)
  /\ UNCHANGED <<changed, netstate, dns>>

ServerOff(g) ==
  /\ Call(g, "serverOff")
  /\ SetVPNGatewayServerEnabled(FALSE)
  /\ Goto(g, "natDown")
  /\ UNCHANGED <<changed, netstate, dns, app>>

ServerOffNAT(g) ==
  /\ At(g, "natDown")
  /\ teardownServer
  /\ Return(g)
  /\ UNCHANGED <<config, disk, tunnel, changed, dns>>

(* Mutant: the active gateway can be removed. *)
RemoveAnyPeer(g, p) ==
  /\ Call(g, "remove")
  /\ gor' = [gor EXCEPT ![g] = [pc |-> "remove", peer |-> p]]
  /\ UNCHANGED <<config, disk, tunnel, changed, netstate, dns, app>>

(* RemovePeer: the active gateway is refused; the check and the removal    *)
(* are two critical sections of the config lock.                           *)
RemovePeer(g, p) ==
  /\ Call(g, "remove")
  /\ confGateway # p
  /\ gor' = [gor EXCEPT ![g] = [pc |-> "remove", peer |-> p]]
  /\ UNCHANGED <<config, disk, tunnel, changed, netstate, dns, app>>

RemovePeerFinish(g) ==
  LET p == gor[g].peer IN
  /\ At(g, "remove")
  /\ peers' = [peers EXCEPT ![p] = "unknown"]
  /\ changed' = (changed \/ p \in Known)
  /\ Return(g)
  /\ UNCHANGED <<confGateway, confServer, disk, tunnel, netstate, dns>>

(* A peer is added, or a status exchange changes whether it can be used as *)
(* a gateway.  Both emit KnownPeerChanged.                                 *)
PeerChanges(p) ==
  /\ app \notin {"down", "dead"}
  /\ \E s \in {"known", "gateway"} \ {peers[p]} :
       /\ s = "gateway" => p \in Known
       /\ peers' = [peers EXCEPT ![p] = s]
  /\ changed' = TRUE
  /\ UNCHANGED <<confGateway, confServer, disk, tunnel, netstate, dns, app, gor>>

(* The config writer goroutine. *)
WriteConfig ==
  /\ app \notin {"down", "dead"}
  /\ disk # Snapshot
  /\ disk' = Snapshot
  /\ UNCHANGED <<config, tunnel, changed, netstate, dns, app, gor>>

(***************************************************************************)
(* Application.Init and Close.                                             *)
(***************************************************************************)
(* NewTunnel reads the server flag and the peers; then the API listens. *)
Boot ==
  /\ app \in {"down", "dead"}
  /\ app' = "boot"
  /\ Goto(Main, "initDNS")
  /\ vpnPeers' = Known
  /\ serverFlag' = confServer
  /\ UNCHANGED <<config, disk, gateway, changed, netstate, dns>>

SkipDNS ==
  /\ At(Main, "initDNS")
  /\ Goto(Main, "startup")
  /\ UNCHANGED <<config, disk, tunnel, changed, netstate, dns, app>>

(* SetupAtStartup works on a copy of the config taken here. *)
SetupAtStartup ==
  /\ At(Main, "startup")
  /\ gor' = [gor EXCEPT ![Main] =
               [pc |-> IF confServer /\ ServerSupported
                       THEN "startServer" ELSE "startClient",
                peer |-> confGateway]]
  /\ UNCHANGED <<config, disk, tunnel, changed, netstate, dns, app>>

StartServer ==
  /\ At(Main, "startServer")
  /\ \/ /\ applyServer
        /\ Goto(Main, "flag")
        /\ UNCHANGED <<config, disk, tunnel, changed, dns, app>>
     \/ /\ ~nat /\ "nat" \in OSFails
        /\ FailBoot(Main)

(* The saved gateway: none or not supported on this OS. *)
NoSavedClient ==
  /\ gor[Main].peer = None \/ ~ClientSupported
  /\ Return(Main)
  /\ UNCHANGED <<config, disk, tunnel, changed, netstate, dns>>

(* Not decodable: cleared through DisableClient. *)
DropMalformed ==
  /\ gor[Main].peer = Malformed /\ ClientSupported
  /\ teardownClient
  /\ Goto(Main, "clear")
  /\ UNCHANGED <<config, disk, tunnel, changed, app>>

BindSaved(p) ==
  /\ gor[Main].peer = p /\ ClientSupported
  /\ CanBind(p)
  /\ SetVPNGatewayPeer(p)
  /\ Goto(Main, "apply")
  /\ UNCHANGED <<changed, netstate, dns, app>>

(* Refused by the tunnel: Init fails. *)
RefuseSaved(p) ==
  /\ gor[Main].peer = p /\ ClientSupported
  /\ ~CanBind(p)
  /\ FailBoot(Main)

StartClient ==
  /\ At(Main, "startClient")
  /\ \/ NoSavedClient
     \/ DropMalformed
     \/ \E p \in Peers : BindSaved(p) \/ RefuseSaved(p)

StartFailed ==
  /\ At(Main, "startFailed")
  /\ FailBoot(Main)

(* Close: TeardownAtShutdown, then the API server, then everything else    *)
(* and the final flush of the config.  Api.Shutdown waits one second for   *)
(* calls in flight and goes on.                                            *)
Close ==
  /\ app = "up"
  /\ At(Main, "idle")
  /\ Cardinality(Busy) < MaxCalls
  /\ app' = "closing"
  /\ teardownClient
  /\ Goto(Main, "closeServer")
  /\ UNCHANGED <<config, disk, tunnel, changed>>

CloseServer ==
  /\ At(Main, "closeServer")
  /\ teardownServer
  /\ Goto(Main, "closeApi")
  /\ UNCHANGED <<config, disk, tunnel, changed, dns, app>>

CloseApi ==
  /\ At(Main, "closeApi")
  /\ app' = "apiClosed"
  /\ Goto(Main, "closeRest")
  /\ vpnPeers' = {}
  /\ UNCHANGED <<config, disk, gateway, serverFlag, changed, netstate, dns>>

CloseRest ==
  /\ At(Main, "closeRest")
  /\ ProcessEnds("down")
  /\ osDNS' = "system"
  /\ disk' = Snapshot
  /\ UNCHANGED config

Crash ==
  /\ app \notin {"down", "dead"}
  /\ Abort

CallStep(g) ==
  \/ \E p \in Peers : EnableClient(g, p)
  \/ DisableClient(g)
  \/ ServerOn(g)
  \/ ServerOff(g)
  \/ \E p \in Peers : RemovePeer(g, p)
  \/ ServerOffNAT(g)
  \/ RemovePeerFinish(g)

SharedStep(g) ==
  \/ EnableApply(g)
  \/ EnableRollback(g)
  \/ DisableClear(g)
  \/ ServerOnFlag(g)

BootStep == Boot \/ InitDNS \/ SkipDNS \/ SetupAtStartup \/ StartServer
            \/ StartClient \/ StartFailed

CloseStep == Close \/ CloseServer \/ CloseApi \/ CloseRest

Step ==
  \/ \E g \in Workers : CallStep(g)
  \/ \E g \in Goroutines : SharedStep(g)
  \/ BootStep
  \/ CloseStep
  \/ Crash
  \/ RefreshPeersList
  \/ \E p \in Peers : PeerChanges(p)
  \/ WriteConfig

(***************************************************************************)
(* History.  VPNGateway.mu covers one section of a transaction, not the    *)
(* whole of it, so transactions overlap.  torn holds the views that may    *)
(* disagree since two overlapped: everything when a transaction starts     *)
(* while another one runs, less what one that starts alone sets up anew.   *)
(***************************************************************************)
Views == {"client", "server", "dns"}

Started == {g \in Goroutines : At(g, "idle") /\ gor'[g].pc # "idle"}

(* Enabling keeps routes that are installed, and the DNS policy with them. *)
Mended(pc) ==
  CASE pc = "apply"               -> {"client"}
    [] pc = "clear"               -> {"client", "dns"}
    [] pc \in {"flag", "natDown"} -> {"server"}
    [] pc = "initDNS"             -> Views
    [] OTHER                      -> {}

Record ==
  torn' = IF Started = {} THEN torn
          ELSE IF Busy # {} THEN Views
          ELSE torn \ UNION {Mended(gor'[g].pc) : g \in Started}

Next == Step /\ Record

Spec == Init /\ [][Next]_vars

(***************************************************************************)
(* Properties.                                                             *)
(***************************************************************************)
(* The node is up, no transaction is running, no event is waiting. *)
Rest == app = "up" /\ Busy = {} /\ ~changed

(* While the TUN default route is installed a gateway peer is bound that   *)
(* the tunnel knows (api/peers.go: routes "with nothing bound ...          *)
(* black-hole all non-local traffic"), in the middle of enabling,          *)
(* switching, disabling, removing a peer, starting and stopping as well.   *)
(* Overlapping transactions can break this; the next enable or disable     *)
(* that runs alone repairs it with its first step.                         *)
NoBlackHole == "client" \notin torn => (routes => gateway \in vpnPeers)

(* At rest the config, the tunnel's binding and the OS routes agree about  *)
(* the gateway, so that a restart resumes what was running (the claim of   *)
(* TeardownAtShutdown, and of VPNGateway.mu on whole transactions): unless *)
(* transactions overlapped and none has run alone since, which EnableClient*)
(* and DisableClient repair from whatever state they find.                 *)
ClientAgrees ==
  Rest /\ "client" \notin torn =>
    /\ gateway = confGateway
    /\ routes <=> gateway # None

(* At rest the server flag that lets packets in, the saved flag and the    *)
(* NAT rules agree (SetServerEnabled and SetupAtStartup), with the same    *)
(* exception and the same repair.                                          *)
ServerAgrees ==
  Rest /\ "server" \notin torn => serverFlag = confServer /\ nat = confServer

(* While gateway routes are installed at rest, every DNS query the OS      *)
(* sends to awl goes on to the public upstream, never to the LAN resolver  *)
(* the OS used before (applyClient and ForceUpstreamDNS).  An API call     *)
(* that overlaps the start can break this, a disable or restart repairs    *)
(* it.  So can the OS: the code logs its refusal and goes on ("DNS may     *)
(* leak"), and only the next change of the policy tries again.             *)
NoDnsLeak ==
  Rest /\ dnsSet /\ routes /\ ~refused /\ "dns" \notin torn =>
    osDNS = "allToUpstream"
=============================================================================
