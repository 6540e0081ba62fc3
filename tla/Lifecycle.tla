------------------------------ MODULE Lifecycle ------------------------------
(***************************************************************************)
(* Starting and stopping the application as a mobile host does it:         *)
(* StartServer, UpdateTunDevice and StopServer of cmd/gomobile-lib, the    *)
(* order in which Application.Init acquires and Application.Close releases *)
(* what runs, and vpn.SwappableTUN, which replaces the TUN device under a  *)
(* running reader.                                                         *)
(*                                                                         *)
(* The host makes its calls one at a time (swappable_tun.go:38-42), so one *)
(* program counter `pc' stands for the call in progress.  The goroutines   *)
(* that read and write the TUN, forward its events, run the loops and      *)
(* accept SOCKS5 connections interleave with every step of a call.  The    *)
(* n-th StartServer makes application n and, given a descriptor, wrapper n.*)
(* The host is trusted to stop a server before it starts another, not to   *)
(* hand over a descriptor exactly when the config enables the VPN.         *)
(***************************************************************************)
EXTENDS Integers

CONSTANTS
  MaxStarts,  \* bound: calls of StartServer
  MaxDevs,    \* bound: TUN descriptors the host hands over
  Users,      \* the goroutines that call Read or Write of one TUN
  Enabled     \* what the config switches on: "socks", "dns", "routes"

ASSUME BoundsAssumption == MaxStarts \in Nat /\ MaxDevs \in Nat

Apps == 1..MaxStarts
Devs == 1..MaxDevs
None == 0

VARIABLES
  starts,         \* number of StartServer calls so far
  app,            \* the applications; live is what Init started: "loops" end with
                  \* the context, "serve" (SOCKS5) with its listener, "handlers"
                  \* (of the API, after its server) on their own; off is
                  \* VPNConfig.DisableVPNInterface
  globalApp,      \* the application the package holds, or None
  globalSwapTUN,  \* the wrapper the package holds, or None
  dev,            \* the inner devices
  wrap,           \* the SwappableTUN wrappers
  io,             \* the goroutines inside SwappableTUN.Read and Write
  fwd,            \* the forwardEvents goroutines
  pc              \* the host's call in progress

vars == <<starts, app, globalApp, globalSwapTUN, dev, wrap, io, fwd, pc>>

Idle == [at |-> "idle", stop |-> FALSE, dev |-> None]

Init ==
  /\ starts = 0
  /\ app = [a \in Apps |-> [live |-> {}, off |-> FALSE, P2p |-> FALSE, Api |-> FALSE, vpn |-> FALSE,
                         ctx |-> "none", close |-> "no"]]
  /\ globalApp = None /\ globalSwapTUN = None
  /\ dev = [d \in Devs |-> "none"]
  /\ wrap = [a \in Apps |-> [cur |-> None, closed |-> FALSE, events |-> "none"]]
  /\ io = [a \in Apps |-> [u \in Users |-> [at |-> "none", h |-> None]]]
  /\ fwd = [a \in Apps |-> [at |-> "none", inner |-> None]]
  /\ pc = Idle

At(s) == pc.at = s
Goto(s) == pc' = [pc EXCEPT !.at = s]

\* A descriptor the host has not handed over yet.
FreshDev ==
  IF \E d \in Devs : dev[d] = "none" THEN CHOOSE d \in Devs : dev[d] = "none" ELSE None

(***************************************************************************)
(* vpn.SwappableTUN                                                        *)
(***************************************************************************)

Return(at) == [at |-> at, h |-> None]

\* A reader or writer loads the handle, calls the inner device, and on
\* os.ErrClosed looks first at the flag and then at the handle again.
LoadHandle(a, u) ==
  /\ io[a][u].at = "load"
  /\ io' = [io EXCEPT ![a][u] = [at |-> "call", h |-> wrap[a].cur]]

\* The inner call: it returns to its caller, which calls again (or blocks, a
\* step not taken), or reports that the device is closed.
InnerCall(a, u) ==
  /\ io[a][u].at = "call"
  /\ io' = [io EXCEPT ![a][u] = IF dev[@.h] = "open" THEN Return("load") ELSE [@ EXCEPT !.at = "closed"]]

\* Any other error is passed through: ReadTUNPackets ends, a writer goes on.
ReadError(a, u) ==
  /\ u = "Read" /\ io[a][u].at = "call" /\ dev[io[a][u].h] = "open"
  /\ io' = [io EXCEPT ![a][u] = Return("failed")]

TestClosed(a, u) ==
  /\ io[a][u].at = "closed"
  /\ io' = [io EXCEPT ![a][u] = IF wrap[a].closed THEN Return("exited") ELSE [@ EXCEPT !.at = "cur"]]

TestSwapped(a, u) ==
  /\ io[a][u].at = "cur"
  /\ io' = [io EXCEPT ![a][u] = IF wrap[a].cur # @.h THEN Return("load") ELSE Return("exited")]

UseTUN(a, u) ==
  /\ \/ LoadHandle(a, u) \/ InnerCall(a, u) \/ ReadError(a, u)
     \/ TestClosed(a, u) \/ TestSwapped(a, u)
  /\ UNCHANGED <<starts, app, globalApp, globalSwapTUN, dev, wrap, fwd, pc>>

\* close(ch): closing a closed channel panics.
CloseChan(ch) == IF ch = "open" THEN "closed" ELSE "panic"

\* The flag and the handle are read in one step: a Close or a Swap in between
\* closes the device loaded, and the goroutine comes back here.
ForwardLoad(a) ==
  /\ fwd[a].at = "load"
  /\ IF wrap[a].closed
     THEN /\ wrap' = [wrap EXCEPT ![a].events = CloseChan(@)]
          /\ fwd' = [fwd EXCEPT ![a].at = "exited"]
     ELSE /\ fwd' = [fwd EXCEPT ![a] = [at |-> "range", inner |-> wrap[a].cur]]
          /\ UNCHANGED wrap

\* The range over the inner device's events ends when that device is closed.
ForwardRange(a) ==
  /\ fwd[a].at = "range" /\ dev[fwd[a].inner] = "closed"
  /\ fwd' = [fwd EXCEPT ![a] = [at |-> "load", inner |-> None]]
  /\ UNCHANGED wrap

forwardEvents(a) ==
  /\ ForwardLoad(a) \/ ForwardRange(a)
  /\ UNCHANGED <<starts, app, globalApp, globalSwapTUN, dev, io, pc>>

\* Alternative of Swap that closes the old device before replacing the handle.
SwapCloseFirst(w) ==
  \/ /\ At("Swap")
     /\ dev' = [dev EXCEPT ![wrap[w].cur] = "closed"]
     /\ Goto("closeOld")
     /\ UNCHANGED wrap
  \/ /\ At("closeOld")
     /\ wrap' = [wrap EXCEPT ![w].cur = pc.dev]
     /\ pc' = Idle
     /\ UNCHANGED dev

\* Alternative of Swap that leaves a rejected device open.
SwapKeepsRejected(w) ==
  \/ /\ At("Swap")
     /\ \E rejected \in BOOLEAN :
          IF rejected
          THEN pc' = Idle /\ UNCHANGED wrap
          ELSE /\ wrap' = [wrap EXCEPT ![w].cur = pc.dev]
               /\ pc' = [pc EXCEPT !.at = "closeOld", !.dev = wrap[w].cur]
     /\ UNCHANGED dev
  \/ /\ At("closeOld")
     /\ dev' = [dev EXCEPT ![pc.dev] = "closed"]
     /\ pc' = Idle
     /\ UNCHANGED wrap

\* Swap refuses a device on a closed wrapper or with another batch size, and
\* closes it; otherwise it replaces the handle first and closes the old device
\* second.
Swap(w) ==
  \/ /\ At("Swap")
     /\ \E sameBatch \in BOOLEAN :
          IF wrap[w].closed \/ ~sameBatch
          THEN /\ dev' = [dev EXCEPT ![pc.dev] = "closed"]
               /\ pc' = Idle
               /\ UNCHANGED wrap
          ELSE /\ wrap' = [wrap EXCEPT ![w].cur = pc.dev]
               /\ pc' = [pc EXCEPT !.at = "closeOld", !.dev = wrap[w].cur]
               /\ UNCHANGED dev
  \/ /\ At("closeOld")
     /\ dev' = [dev EXCEPT ![pc.dev] = "closed"]
     /\ pc' = Idle
     /\ UNCHANGED wrap

\* Close sets the flag and then closes the current device; a second call does
\* nothing.  flag and inner are the labels of the two steps, next what follows.
CloseTUN(w, flag, inner, next) ==
  \/ /\ At(flag)
     /\ wrap' = [wrap EXCEPT ![w].closed = TRUE]
     /\ Goto(IF wrap[w].closed THEN next ELSE inner)
     /\ UNCHANGED dev
  \/ /\ At(inner)
     /\ dev' = [dev EXCEPT ![wrap[w].cur] = "closed"]
     /\ Goto(next)
     /\ UNCHANGED wrap

(***************************************************************************)
(* Application.Init: a failing step goes to Application.Close              *)
(***************************************************************************)
HasTUN(a) == wrap[a].events # "none"

Start(a, res) == [app EXCEPT ![a].live = @ \cup res]

NetManagerStart(a) ==
  /\ At("NetManager.Start")
  /\ \/ app' = [Start(a, {"loops"}) EXCEPT ![a].ctx = "live"] /\ Goto("InitHost")
     \/ app' = [app EXCEPT ![a].ctx = "live"] /\ Goto("Teardown")
  /\ UNCHANGED io

\* The P2p field is set before InitHost and holds no host when that fails.
InitHost(a) ==
  /\ At("InitHost")
  /\ \/ app' = [Start(a, {"host"}) EXCEPT ![a].P2p = TRUE]
        /\ Goto(IF app[a].off THEN "NewSOCKS5" ELSE "NewDevice")
     \/ app' = [app EXCEPT ![a].P2p = TRUE] /\ Goto("Teardown")
  /\ UNCHANGED io

\* Without a descriptor newTUN always fails on Android.
NewDevice(a) ==
  /\ At("NewDevice")
  /\ \/ /\ HasTUN(a)
        /\ app' = [Start(a, {"tunnel"}) EXCEPT ![a].vpn = TRUE]
        /\ io' = [io EXCEPT ![a] = [u \in Users |-> Return("load")]]
        /\ Goto("NewSOCKS5")
     \/ UNCHANGED <<app, io>> /\ Goto("Teardown")

\* The listener and its accept loop, when the config asks for them.
NewClient == IF "socks" \in Enabled THEN {"socks", "serve"} ELSE {}

\* The listener's port may be taken.
NewSOCKS5(a) ==
  /\ At("NewSOCKS5")
  /\ \/ app' = Start(a, NewClient) /\ Goto("SetupAPI")
     \/ "socks" \in Enabled /\ UNCHANGED app /\ Goto("Teardown")
  /\ UNCHANGED io

\* The Api field is set before SetupAPI and holds no server when that fails.
SetupAPI(a) ==
  /\ At("SetupAPI")
  /\ \/ app' = [Start(a, {"api"}) EXCEPT ![a].Api = TRUE] /\ Goto("setupDNS")
     \/ app' = [app EXCEPT ![a].Api = TRUE] /\ Goto("Teardown")
  /\ UNCHANGED io

setupDNS(a) ==
  /\ At("setupDNS")
  /\ app' = Start(a, IF app[a].vpn THEN Enabled \cap {"dns"} ELSE {})
  /\ Goto("SetupAtStartup")
  /\ UNCHANGED io

\* The gateway's server and client are set up in turn: a failure of the second
\* leaves the first in place for Close.
SetupAtStartup(a) ==
  /\ At("SetupAtStartup")
  /\ app' = Start(a, IF app[a].vpn THEN Enabled \cap {"routes"} ELSE {})
  /\ Goto("idle") \/ ("routes" \in Enabled /\ Goto("Teardown"))
  /\ UNCHANGED io

InitStep(a) ==
  /\ \/ NetManagerStart(a) \/ InitHost(a) \/ NewDevice(a) \/ NewSOCKS5(a)
     \/ SetupAPI(a) \/ setupDNS(a) \/ SetupAtStartup(a)
  /\ UNCHANGED <<starts, globalApp, globalSwapTUN, dev, wrap, fwd>>

(***************************************************************************)
(* Application.Close                                                       *)
(***************************************************************************)
Stop(a, r) == app' = [app EXCEPT ![a].live = @ \ {r}]

\* A panic is recovered in StartServer, which returns with the globals as they
\* are; StopServer does not recover and the process dies.
Panic(a) ==
  /\ app' = [app EXCEPT ![a].close = "panicked"]
  /\ pc' = IF pc.stop THEN [Idle EXCEPT !.at = "crashed"] ELSE Idle

TeardownAtShutdown(a) == At("Teardown") /\ Stop(a, "routes") /\ Goto("ctxCancel")

\* Alternative of ctxCancel that forgets the application's own context.
ctxCancelNot(a) == At("ctxCancel") /\ UNCHANGED app /\ Goto("Api")

ctxCancel(a) ==
  /\ At("ctxCancel")
  /\ app' = [app EXCEPT ![a].ctx = IF @ = "none" THEN @ ELSE "done"]
  /\ Goto("Api")

\* Shutdown stops the server and waits for its handlers, one second at most.
ApiShutdown(a) ==
  /\ At("Api")
  /\ IF app[a].Api /\ "api" \notin app[a].live
     THEN Panic(a)
     ELSE /\ \/ Stop(a, "api")
             \/ /\ "api" \in app[a].live
                /\ app' = [app EXCEPT ![a].live = (@ \ {"api"}) \cup {"handlers"}]
          /\ Goto("Tunnel")

TunnelClose(a) == At("Tunnel") /\ Stop(a, "tunnel") /\ Goto("SOCKS5")

SOCKS5Close(a) == At("SOCKS5") /\ Stop(a, "socks") /\ Goto("P2p")

P2pClose(a) ==
  /\ At("P2p")
  /\ IF app[a].P2p /\ "host" \notin app[a].live
     THEN Panic(a)
     ELSE Stop(a, "host") /\ Goto("Dns")

DnsClose(a) == At("Dns") /\ Stop(a, "dns") /\ Goto(IF app[a].vpn THEN "vpnDevice" ELSE "Conf")

ConfClose(a) ==
  /\ At("Conf")
  /\ app' = [app EXCEPT ![a].live = @ \ {"writer"}, ![a].close = "returned"]
  /\ Goto("forget")

CloseStep(a) ==
  \/ /\ \/ TeardownAtShutdown(a) \/ ctxCancel(a) \/ ApiShutdown(a) \/ TunnelClose(a)
        \/ SOCKS5Close(a) \/ P2pClose(a) \/ DnsClose(a) \/ ConfClose(a)
     /\ UNCHANGED <<starts, globalApp, globalSwapTUN, dev, wrap, io, fwd>>
  \/ /\ CloseTUN(a, "vpnDevice", "innerClose", "Conf")
     /\ UNCHANGED <<starts, app, globalApp, globalSwapTUN, io, fwd>>

(***************************************************************************)
(* cmd/gomobile-lib: what the host calls                                   *)
(***************************************************************************)

\* A new application has its config, and the goroutine that writes it.
SetupLoggerAndConfig(a, off) == [app EXCEPT ![a].live = {"writer"}, ![a].off = off]

\* StartServer is called while no server runs: globalApp, which it overwrites,
\* is nil, or is what a recovered panic left behind.
StartServer(fd, off) ==
  LET a == starts + 1 IN
  /\ pc = Idle /\ starts < MaxStarts
  /\ globalApp # None => app[globalApp].close = "panicked"
  /\ starts' = a
  /\ app' = SetupLoggerAndConfig(a, off)
  /\ \/ /\ fd = "zero"
        /\ globalApp' = a
        /\ pc' = [Idle EXCEPT !.at = "NetManager.Start"]
        /\ UNCHANGED <<globalSwapTUN, dev, wrap, fwd>>
     \/ /\ fd = "bad"
        /\ globalApp' = None
        /\ UNCHANGED <<globalSwapTUN, dev, wrap, fwd, pc>>
     \/ /\ fd = "good" /\ FreshDev # None
        /\ globalApp' = a /\ globalSwapTUN' = a
        /\ dev' = [dev EXCEPT ![FreshDev] = "open"]
        /\ wrap' = [wrap EXCEPT ![a] = [cur |-> FreshDev, closed |-> FALSE, events |-> "open"]]
        /\ fwd' = [fwd EXCEPT ![a].at = "load"]
        /\ pc' = [Idle EXCEPT !.at = "NetManager.Start"]
  /\ UNCHANGED io

\* UpdateTunDevice with a good descriptor; every other case returns an error
\* and changes nothing.
UpdateTunDevice ==
  /\ pc = Idle
  /\ globalApp # None /\ globalSwapTUN # None /\ FreshDev # None
  /\ dev' = [dev EXCEPT ![FreshDev] = "open"]
  /\ pc' = [Idle EXCEPT !.at = "Swap", !.dev = FreshDev]
  /\ UNCHANGED <<starts, app, globalApp, globalSwapTUN, wrap, io, fwd>>

SwapStep ==
  /\ At("Swap") \/ At("closeOld")
  /\ Swap(globalSwapTUN)
  /\ UNCHANGED <<starts, app, globalApp, globalSwapTUN, io, fwd>>

StopServer ==
  /\ pc = Idle
  /\ pc' = [Idle EXCEPT !.at = IF globalApp = None THEN "forget" ELSE "Teardown", !.stop = TRUE]
  /\ UNCHANGED <<starts, app, globalApp, globalSwapTUN, dev, wrap, io, fwd>>

\* What StopServer and a failing StartServer do after Application.Close: both
\* drop the globals, StartServer closes the wrapper it drops.
Forget ==
  \/ /\ At("forget")
     /\ globalApp' = None
     /\ IF pc.stop \/ globalSwapTUN = None
        THEN globalSwapTUN' = None /\ pc' = Idle
        ELSE UNCHANGED globalSwapTUN /\ Goto("swapTUN")
     /\ UNCHANGED <<dev, wrap>>
  \/ /\ CloseTUN(globalSwapTUN, "swapTUN", "swapTUN inner", "dropTUN")
     /\ UNCHANGED <<globalApp, globalSwapTUN>>
  \/ /\ At("dropTUN")
     /\ globalSwapTUN' = None
     /\ pc' = Idle
     /\ UNCHANGED <<globalApp, dev, wrap>>

ForgetStep == Forget /\ UNCHANGED <<starts, app, io, fwd>>

(***************************************************************************)
(* Goroutines that end on their own                                        *)
(***************************************************************************)
Ends(a, r) ==
  /\ r \in app[a].live
  /\ Stop(a, r)
  /\ UNCHANGED <<starts, globalApp, globalSwapTUN, dev, wrap, io, fwd, pc>>

LoopsEnd(a) == app[a].ctx = "done" /\ Ends(a, "loops")

\* The accept loop ends, and closes connsCh, when its listener is closed.
connsChClosed(a) == "socks" \notin app[a].live

ServeConns(a) == connsChClosed(a) /\ Ends(a, "serve")

\* A handler that outlived Shutdown returns, sooner or later or never.
HandlersEnd(a) == Ends(a, "handlers")

CallStep ==
  \/ \E a \in Apps : a = globalApp /\ (InitStep(a) \/ CloseStep(a))
  \/ SwapStep
  \/ ForgetStep

\* The goroutines that take finitely many steps.
Winding(a) == forwardEvents(a) \/ LoopsEnd(a) \/ ServeConns(a)

Goroutine(a) ==
  \/ \E u \in Users : UseTUN(a, u)
  \/ Winding(a) \/ HandlersEnd(a)

Crashed == pc.at = "crashed"

Next ==
  \/ \E fd \in {"zero", "bad", "good"}, off \in BOOLEAN : StartServer(fd, off)
  \/ UpdateTunDevice
  \/ StopServer
  \/ CallStep
  \/ ~Crashed /\ \E a \in Apps : Goroutine(a)

Spec == Init /\ [][Next]_vars

\* A call in progress goes on and every goroutine gets to run: Go schedules all
\* runnable goroutines.  One condition is enough for those that take finitely
\* many steps: it cannot be met for ever at the expense of one of them.  The
\* host need not call, and an API handler need not return.
FairSpec ==
  /\ Spec
  /\ WF_vars(CallStep)
  /\ \A a \in Apps, u \in Users : WF_vars(~Crashed /\ UseTUN(a, u))
  /\ WF_vars(~Crashed /\ \E a \in Apps : Winding(a))

(***************************************************************************)
(* Properties                                                              *)
(***************************************************************************)

\* Replacing the TUN is invisible to the goroutines that use it: Read and Write
\* give up with os.ErrClosed only once the wrapper itself is closed.  (A reader
\* that another error ends is gone for good; that is not a swap's doing.)
SwapInvisible == \A a \in Apps, u \in Users : io[a][u].at = "exited" => wrap[a].closed

\* The descriptors the host handed over are closed: between calls every open
\* device is the current one of a wrapper still in use, of an application whose
\* Close panicked, or of one that was given a descriptor though its config
\* disables the VPN: StopServer drops that wrapper and nobody closes it.
DevicesOwned ==
  pc = Idle =>
    \A d \in Devs : dev[d] = "open" =>
      \E w \in Apps : /\ wrap[w].cur = d /\ ~wrap[w].closed
                      /\ \/ w = globalSwapTUN \/ app[w].off
                         \/ app[w].close = "panicked"

\* Nothing of the application runs any more, but handlers of the API that
\* outlast the second Shutdown gives them and, when the config disables the VPN,
\* the event forwarder of a wrapper nobody closes.
Quiet(a) ==
  /\ app[a].live \subseteq {"handlers"}
  /\ \A u \in Users : io[a][u].at \in {"none", "exited", "failed"}
  /\ wrap[a].events # "open" \/ app[a].off

\* Once Application.Close has returned, every goroutine of the application ends:
\* the loops, the SOCKS5 accept loop, the TUN's users and the event forwarder.
\* (Close never un-returns and what ended stays ended, so "again and again" is
\* "from some time on".)
CloseQuiesces ==
  []<>(Crashed \/ \A a \in Apps : app[a].close = "returned" => Quiet(a))

=============================================================================
