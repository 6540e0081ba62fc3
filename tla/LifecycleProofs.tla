--------------------------- MODULE LifecycleProofs ---------------------------
(***************************************************************************)
(* Proofs about Lifecycle, for any number of StartServer calls, devices    *)
(* and users of a TUN and any selection of services.                       *)
(***************************************************************************)
EXTENDS Lifecycle, TLAPS

InitLabels == {"NetManager.Start", "InitHost", "NewDevice", "NewSOCKS5", "SetupAPI",
               "setupDNS", "SetupAtStartup"}
CloseLabels == {"Teardown", "ctxCancel", "Api", "Tunnel", "SOCKS5", "P2p", "Dns",
                "vpnDevice", "innerClose", "Conf"}
DropLabels == {"swapTUN", "swapTUN inner", "dropTUN"}
Labels == {"idle", "crashed", "Swap", "closeOld", "forget"}
          \cup InitLabels \cup CloseLabels \cup DropLabels

Services == {"writer", "loops", "host", "tunnel", "socks", "serve", "api", "handlers",
             "dns", "routes"}

Application == [live: SUBSET Services, off: BOOLEAN,
                P2p: BOOLEAN, Api: BOOLEAN, vpn: BOOLEAN,
                ctx: {"none", "live", "done"}, close: {"no", "returned", "panicked"}]

Wrapper == [cur: Devs \cup {None}, closed: BOOLEAN,
            events: {"none", "open", "closed", "panic"}]

User == [at: {"none", "load", "call", "closed", "cur", "exited", "failed"}, h: Devs \cup {None}]

Types ==
  /\ starts \in Nat
  /\ app \in [Apps -> Application]
  /\ globalApp \in Apps \cup {None}
  /\ globalSwapTUN \in Apps \cup {None}
  /\ dev \in [Devs -> {"none", "open", "closed"}]
  /\ wrap \in [Apps -> Wrapper]
  /\ io \in [Apps -> [Users -> User]]
  /\ fwd \in [Apps -> [at: {"none", "load", "range", "exited"}, inner: Devs \cup {None}]]
  /\ pc \in [at: Labels, stop: BOOLEAN, dev: Devs \cup {None}]

(* Wrappers are made by StartServer, which numbers its calls; what has no  *)
(* wrapper has no event forwarder, no users and no VPN device.             *)
Numbered ==
  /\ \A a \in Apps : HasTUN(a) => a <= starts
  /\ \A a \in Apps : ~HasTUN(a) =>
       fwd[a].at = "none" /\ \A u \in Users : io[a][u].at = "none"
  /\ \A a \in Apps : app[a].vpn => HasTUN(a)
  /\ globalApp <= starts
  /\ globalSwapTUN # None => HasTUN(globalSwapTUN)
  /\ pc.at \in {"vpnDevice", "innerClose"} /\ globalApp # None => HasTUN(globalApp)

(* Every wrapper has a device of its own, open until the wrapper is closed.*)
Held ==
  /\ \A a \in Apps : HasTUN(a) =>
       /\ wrap[a].cur \in Devs
       /\ dev[wrap[a].cur] # "none"
       /\ ~wrap[a].closed => dev[wrap[a].cur] = "open"
  /\ \A a, b \in Apps : HasTUN(a) /\ HasTUN(b) /\ a # b => wrap[a].cur # wrap[b].cur

(* The device a call is about to close or to put in place is nobody's, and *)
(* the one Close is about to close belongs to a wrapper marked closed.     *)
InCall ==
  /\ At("Swap") \/ At("closeOld") =>
       /\ pc.dev \in Devs /\ dev[pc.dev] = "open"
       /\ globalSwapTUN # None
       /\ \A a \in Apps : HasTUN(a) => wrap[a].cur # pc.dev
  /\ At("innerClose") /\ globalApp # None => wrap[globalApp].closed
  /\ At("swapTUN") => globalSwapTUN # None
  /\ At("swapTUN inner") \/ At("dropTUN") =>
       globalSwapTUN # None /\ wrap[globalSwapTUN].closed

(* A reader that found its device closed is right about that, and one that *)
(* gave up belongs to a closed wrapper.                                    *)
ReadersRight ==
  \A a \in Apps, u \in Users :
    /\ io[a][u].at \in {"call", "closed", "cur"} =>
         io[a][u].h \in Devs /\ dev[io[a][u].h] # "none"
    /\ io[a][u].at \in {"closed", "cur"} => dev[io[a][u].h] = "closed"
    /\ io[a][u].at = "exited" => wrap[a].closed

SwapInv == Types /\ Numbered /\ Held /\ InCall /\ ReadersRight

(* A Close that panicked panics again: the field it tripped over stays set *)
(* and what it should hold stays missing, so Close never gets past it.     *)
Tripped(a) ==
  \/ app[a].Api /\ "api" \notin app[a].live
  \/ app[a].P2p /\ "host" \notin app[a].live

Panicked ==
  /\ \A a \in Apps : app[a].close = "panicked" => Tripped(a)
  /\ \A a \in Apps : a > starts => app[a].close = "no"
  /\ globalApp # None /\ app[globalApp].close = "panicked" =>
       /\ pc.at \notin InitLabels \cup {"Dns", "vpnDevice", "innerClose", "Conf"}
       /\ pc.at \in {"Tunnel", "SOCKS5", "P2p"} =>
            app[globalApp].P2p /\ "host" \notin app[globalApp].live

(* A server that runs, or is being stopped by StopServer, uses the wrapper *)
(* it was started with, unless its config disables the VPN.                *)
Calling == InitLabels \cup {"idle", "Swap", "closeOld"}

Running ==
  /\ pc.at \in Calling => ~pc.stop
  /\ /\ globalApp # None /\ HasTUN(globalApp) /\ app[globalApp].close # "panicked"
     /\ ~app[globalApp].off
     /\ \/ pc.at \in Calling \ {"NetManager.Start", "InitHost", "NewDevice"}
        \/ pc.at \in CloseLabels /\ pc.stop
     => app[globalApp].vpn
  /\ pc.stop /\ At("Conf") /\ globalApp # None /\ HasTUN(globalApp) =>
       wrap[globalApp].closed \/ app[globalApp].off

(* The wrapper the package holds is that of the application it holds or of *)
(* one whose Close panicked; StopServer only lets go of it once closed,    *)
(* unless the config disables the VPN.                                     *)
Globals ==
  /\ globalSwapTUN # None =>
       \/ globalSwapTUN = globalApp
       \/ app[globalSwapTUN].close = "panicked"
       \/ pc.at \in DropLabels
  /\ At("forget") /\ pc.stop /\ globalSwapTUN # None =>
       \/ wrap[globalSwapTUN].closed \/ app[globalSwapTUN].off
       \/ app[globalSwapTUN].close = "panicked"
  /\ pc.at \in DropLabels => globalApp = None

(* Every open device is somebody's: of a wrapper in use, or of the call in *)
(* progress.                                                               *)
OwnedBy(d, w) ==
  /\ HasTUN(w) /\ wrap[w].cur = d /\ ~wrap[w].closed
  /\ w = globalSwapTUN \/ app[w].off \/ app[w].close = "panicked"

Owned ==
  \A d \in Devs : dev[d] = "open" =>
    \/ \E w \in Apps : OwnedBy(d, w)
    \/ (At("Swap") \/ At("closeOld")) /\ pc.dev = d
    \/ At("innerClose") /\ globalApp # None /\ wrap[globalApp].cur = d
    \/ At("swapTUN inner") /\ wrap[globalSwapTUN].cur = d

Ownership == Panicked /\ Running /\ Globals /\ Owned

OwnInv == SwapInv /\ Ownership

LEMMA InitSwap == Init => SwapInv
<1> SUFFICES ASSUME Init PROVE SwapInv
  OBVIOUS
<1>1. Types
  BY BoundsAssumption, Zenon DEF Init, Types, Application, Wrapper, User, Labels, Idle, None
<1>2. Numbered /\ Held /\ InCall /\ ReadersRight
  BY <1>1 DEF Init, Numbered, Held, InCall, ReadersRight, HasTUN, At, Idle, Types, None, Apps
<1> QED
  BY <1>1, <1>2, Zenon DEF SwapInv

(* The users of a TUN: a step of one changes only its own record. *)
LEMMA UsersKeep ==
  ASSUME SwapInv, NEW a \in Apps, NEW u \in Users, UseTUN(a, u)
  PROVE  SwapInv'
<1> DEFINE r == io[a][u]
<1>0. r \in User /\ wrap[a] \in Wrapper
  BY DEF SwapInv, Types
<1>1. PICK n \in User : io' = [io EXCEPT ![a][u] = n] /\
        \/ r.at = "load" /\ n = [at |-> "call", h |-> wrap[a].cur]
        \/ r.at = "call" /\ n = IF dev[r.h] = "open" THEN Return("load")
                                ELSE [r EXCEPT !.at = "closed"]
        \/ r.at = "call" /\ n = Return("failed")
        \/ r.at = "closed" /\ n = IF wrap[a].closed THEN Return("exited")
                                  ELSE [r EXCEPT !.at = "cur"]
        \/ r.at = "cur" /\ n = IF wrap[a].cur # r.h THEN Return("load") ELSE Return("exited")
  <2>1. Return("load") \in User /\ Return("exited") \in User /\ Return("failed") \in User
    BY Zenon DEF Return, User, None
  <2>2. [at |-> "call", h |-> wrap[a].cur] \in User
    BY <1>0, Zenon DEF User, Wrapper
  <2>3. [r EXCEPT !.at = "closed"] \in User /\ [r EXCEPT !.at = "cur"] \in User
    BY <1>0, Zenon DEF User
  <2> QED
    BY <2>1, <2>2, <2>3, Zenon DEF UseTUN, LoadHandle, InnerCall, ReadError, TestClosed, TestSwapped
<1>2. /\ UNCHANGED <<starts, app, globalApp, globalSwapTUN, dev, wrap, fwd, pc>>
      /\ io' \in [Apps -> [Users -> User]]
      /\ \A b \in Apps, v \in Users : io'[b][v] = IF b = a /\ v = u THEN n ELSE io[b][v]
  BY <1>1, Zenon DEF UseTUN, SwapInv, Types
<1>3. HasTUN(a)
  BY <1>1, Zenon DEF SwapInv, Numbered
<1>4. /\ n.at \in {"call", "closed", "cur"} => n.h \in Devs /\ dev[n.h] # "none"
      /\ n.at \in {"closed", "cur"} => dev[n.h] = "closed"
      /\ n.at = "exited" => wrap[a].closed
  <2>1. /\ wrap[a].cur \in Devs /\ dev[wrap[a].cur] # "none"
        /\ ~wrap[a].closed => dev[wrap[a].cur] = "open"
    BY <1>3, Zenon DEF SwapInv, Held
  <2>2. /\ r.at \in {"call", "closed", "cur"} => r.h \in Devs /\ dev[r.h] # "none"
        /\ r.at \in {"closed", "cur"} => dev[r.h] = "closed"
    BY Zenon DEF SwapInv, ReadersRight
  <2>3. r.h \in Devs => dev[r.h] \in {"none", "open", "closed"}
    BY Zenon DEF SwapInv, Types
  <2> QED
    BY <1>0, <1>1, <2>1, <2>2, <2>3 DEF Return, User
<1>5. Types'
  BY <1>2, Zenon DEF SwapInv, Types
<1>6. Numbered'
  BY <1>2, <1>3 DEF SwapInv, Numbered, HasTUN
<1>8. Held' /\ InCall'
  BY <1>2, Zenon DEF SwapInv, Held, InCall, HasTUN, At
<1>7. ReadersRight'
  BY <1>2, <1>4 DEF SwapInv, ReadersRight
<1> QED
  BY <1>5, <1>6, <1>7, <1>8, Zenon DEF SwapInv

(* The event forwarder closes the channel of a wrapper, which it has. *)
LEMMA ForwardsKeep ==
  ASSUME SwapInv, NEW a \in Apps, forwardEvents(a)
  PROVE  /\ wrap' \in [Apps -> Wrapper]
         /\ \A b \in Apps : /\ wrap'[b].cur = wrap[b].cur /\ wrap'[b].closed = wrap[b].closed
                            /\ wrap'[b].events = "none" <=> wrap[b].events = "none"
<1>0. HasTUN(a) /\ wrap[a] \in Wrapper
  BY Zenon DEF forwardEvents, ForwardLoad, ForwardRange, SwapInv, Numbered, Types
<1>1. CASE UNCHANGED wrap
  BY <1>1, Zenon DEF HasTUN, SwapInv, Types
<1>2. CASE wrap' = [wrap EXCEPT ![a].events = CloseChan(@)]
  <2>1. CloseChan(wrap[a].events) \in {"closed", "panic"}
    BY Zenon DEF CloseChan
  <2> QED
    BY <1>0, <1>2, <2>1, Zenon DEF HasTUN, SwapInv, Types, Wrapper
<1> QED
  BY <1>1, <1>2, Zenon DEF forwardEvents, ForwardLoad, ForwardRange

LEMMA ForwarderKeeps ==
  ASSUME SwapInv, NEW a \in Apps, forwardEvents(a)
  PROVE  SwapInv'
<1>0. /\ HasTUN(a) /\ wrap[a] \in Wrapper
      /\ UNCHANGED <<starts, app, globalApp, globalSwapTUN, dev, io, pc>>
  BY Zenon DEF forwardEvents, ForwardLoad, ForwardRange, SwapInv, Numbered, Types
<1>1. /\ wrap' \in [Apps -> Wrapper]
      /\ \A b \in Apps : /\ wrap'[b].cur = wrap[b].cur /\ wrap'[b].closed = wrap[b].closed
                         /\ wrap'[b].events = "none" <=> wrap[b].events = "none"
  BY ForwardsKeep, Zenon
<1>2. /\ fwd' \in [Apps -> [at: {"none", "load", "range", "exited"}, inner: Devs \cup {None}]]
      /\ \A b \in Apps \ {a} : fwd'[b] = fwd[b]
  <2>1. \E f \in [at: {"none", "load", "range", "exited"}, inner: Devs \cup {None}] :
          fwd' = [fwd EXCEPT ![a] = f]
    <3>1. CASE ForwardRange(a)
      BY <3>1, Zenon DEF ForwardRange, None
    <3>2. CASE fwd' = [fwd EXCEPT ![a] = [at |-> "range", inner |-> wrap[a].cur]]
      BY <1>0, <3>2, Zenon DEF Wrapper
    <3>3. CASE fwd' = [fwd EXCEPT ![a].at = "exited"]
      <4>1. [fwd[a] EXCEPT !.at = "exited"] \in
              [at: {"none", "load", "range", "exited"}, inner: Devs \cup {None}]
        <5>1. fwd[a] \in [at: {"none", "load", "range", "exited"}, inner: Devs \cup {None}]
          BY Zenon DEF SwapInv, Types
        <5> QED BY <5>1
      <4> QED
        BY <3>3, <4>1, Zenon
    <3> QED
      BY <3>1, <3>2, <3>3, Zenon DEF forwardEvents, ForwardLoad
  <2> QED
    BY <2>1 DEF SwapInv, Types
<1>3. Types'
  BY <1>0, <1>1, <1>2, Zenon DEF SwapInv, Types
<1>4. /\ \A b \in Apps : HasTUN(b)' <=> HasTUN(b)
      /\ globalApp # None => globalApp \in Apps
      /\ globalSwapTUN # None => globalSwapTUN \in Apps
  BY <1>1, Zenon DEF HasTUN, SwapInv, Types
<1>5. Numbered'
  BY <1>0, <1>2, <1>4 DEF SwapInv, Numbered
<1>6. Held'
  BY <1>0, <1>1, <1>4 DEF SwapInv, Held
<1>7. InCall'
  BY <1>0, <1>1, <1>4, Zenon DEF SwapInv, InCall, At
<1>8. ReadersRight'
  BY <1>0, <1>1, Zenon DEF SwapInv, ReadersRight
<1> QED
  BY <1>3, <1>5, <1>6, <1>7, <1>8, Zenon DEF SwapInv

PC == [at: Labels, stop: BOOLEAN, dev: Devs \cup {None}]

(* Steps of Init and Close and goroutines that end: they touch what runs,  *)
(* at most start the users of a wrapper, and leave devices and wrappers.   *)
LEMMA ServicesKeep ==
  ASSUME SwapInv, UNCHANGED <<starts, globalApp, globalSwapTUN, dev, wrap, fwd>>,
         app' \in [Apps -> Application], \A a \in Apps : app'[a].vpn => HasTUN(a),
         pc' \in PC,
         \/ pc' = pc
         \/ /\ pc'.at \notin {"Swap", "closeOld", "innerClose"} \cup DropLabels
            /\ pc'.at = "vpnDevice" /\ globalApp # None => HasTUN(globalApp),
         \/ io' = io
         \/ \E a \in Apps : HasTUN(a) /\ io' = [io EXCEPT ![a] = [u \in Users |-> Return("load")]]
  PROVE  SwapInv'
<1>1. /\ io' \in [Apps -> [Users -> User]]
      /\ \A a \in Apps : ~HasTUN(a) => io'[a] = io[a]
      /\ \A a \in Apps, u \in Users : io'[a][u] = io[a][u] \/ io'[a][u].at = "load"
  <2>1. CASE io' = io
    BY <2>1, Zenon DEF SwapInv, Types
  <2>2. ASSUME NEW a \in Apps, HasTUN(a),
               io' = [io EXCEPT ![a] = [u \in Users |-> Return("load")]]
        PROVE  /\ io' \in [Apps -> [Users -> User]]
               /\ \A b \in Apps : ~HasTUN(b) => io'[b] = io[b]
               /\ \A b \in Apps, u \in Users : io'[b][u] = io[b][u] \/ io'[b][u].at = "load"
    <3>1. Return("load") \in User /\ Return("load").at = "load"
      BY Zenon DEF Return, User, None
    <3> HIDE DEF Return
    <3> QED
      BY <2>2, <3>1, Zenon DEF SwapInv, Types
  <2> QED
    BY <2>1, <2>2, Zenon
<1>2. \A a \in Apps : HasTUN(a)' <=> HasTUN(a)
  BY Zenon DEF HasTUN
<1>3. Types'
  BY <1>1, Zenon DEF SwapInv, Types, PC
<1>4. Numbered'
  <2>1. globalApp # None => (HasTUN(globalApp)' <=> HasTUN(globalApp))
    BY <1>2, Zenon DEF SwapInv, Types
  <2>2. globalSwapTUN # None => (HasTUN(globalSwapTUN)' <=> HasTUN(globalSwapTUN))
    BY <1>2, Zenon DEF SwapInv, Types
  <2>3. pc'.at \in {"vpnDevice", "innerClose"} /\ globalApp # None => HasTUN(globalApp)
    BY Zenon DEF SwapInv, Numbered
  <2> QED
    BY <1>1, <1>2, <2>1, <2>2, <2>3 DEF SwapInv, Numbered
<1>5. Held'
  BY <1>2, Zenon DEF SwapInv, Held
<1>6. InCall'
  <2>1. CASE pc' = pc
    BY <1>2, <2>1, Zenon DEF SwapInv, InCall, At
  <2>2. CASE pc'.at \notin {"Swap", "closeOld", "innerClose"} \cup DropLabels
    BY <2>2, Zenon DEF InCall, At, DropLabels
  <2> QED
    BY <2>1, <2>2, Zenon
<1>7. ReadersRight'
  BY <1>1 DEF SwapInv, ReadersRight
<1> QED
  BY <1>3, <1>4, <1>5, <1>6, <1>7, Zenon DEF SwapInv

LEMMA GotoTyped ==
  ASSUME SwapInv, NEW l \in Labels, Goto(l)
  PROVE  pc' \in PC /\ pc'.at = l /\ pc'.stop = pc.stop /\ pc'.dev = pc.dev
BY Zenon DEF Goto, SwapInv, Types, PC

(* What a step does to the application it works on, and that it leaves the *)
(* others alone.                                                           *)
Touches(a, r) ==
  /\ app' \in [Apps -> Application]
  /\ app'[a] = r
  /\ \A b \in Apps \ {a} : app'[b] = app[b]

LEMMA Rewrites ==
  ASSUME SwapInv, NEW a \in Apps, NEW r \in Application, app' = [app EXCEPT ![a] = r]
  PROVE  Touches(a, r)
BY Zenon DEF Touches, SwapInv, Types

LEMMA Fields ==
  ASSUME NEW x \in Application
  PROVE  /\ \A L \in SUBSET Services : [x EXCEPT !.live = L] \in Application
         /\ [x EXCEPT !.P2p = TRUE] \in Application
         /\ [x EXCEPT !.Api = TRUE] \in Application
         /\ [x EXCEPT !.vpn = TRUE] \in Application
         /\ \A c \in {"none", "live", "done"} : [x EXCEPT !.ctx = c] \in Application
         /\ \A k \in {"no", "returned", "panicked"} : [x EXCEPT !.close = k] \in Application
BY Zenon DEF Application

(* Init starts services R of application a and may set a field. *)
LEMMA Starts ==
  ASSUME SwapInv, NEW a \in Apps, NEW R \in SUBSET Services
  PROVE  LET x == [app[a] EXCEPT !.live = @ \cup R] IN
         /\ app' = Start(a, R) => Touches(a, x)
         /\ app' = [Start(a, R) EXCEPT ![a].ctx = "live"] => Touches(a, [x EXCEPT !.ctx = "live"])
         /\ app' = [Start(a, R) EXCEPT ![a].P2p = TRUE] => Touches(a, [x EXCEPT !.P2p = TRUE])
         /\ app' = [Start(a, R) EXCEPT ![a].vpn = TRUE] => Touches(a, [x EXCEPT !.vpn = TRUE])
         /\ app' = [Start(a, R) EXCEPT ![a].Api = TRUE] => Touches(a, [x EXCEPT !.Api = TRUE])
<1> DEFINE x == [app[a] EXCEPT !.live = @ \cup R]
<1>1. app[a] \in Application /\ app[a].live \in SUBSET Services
  BY Zenon DEF SwapInv, Types, Application
<1>2. x \in Application
  <2>1. app[a].live \cup R \in SUBSET Services
    BY <1>1, Zenon
  <2> QED
    BY <1>1, <2>1, Fields, Zenon
<1>3. Start(a, R) = [app EXCEPT ![a] = x] /\ app \in [Apps -> Application]
  BY Zenon DEF Start, SwapInv, Types
<1> HIDE DEF x
<1>4. /\ app' = [Start(a, R) EXCEPT ![a].ctx = "live"] => app' = [app EXCEPT ![a] = [x EXCEPT !.ctx = "live"]]
      /\ app' = [Start(a, R) EXCEPT ![a].P2p = TRUE] => app' = [app EXCEPT ![a] = [x EXCEPT !.P2p = TRUE]]
      /\ app' = [Start(a, R) EXCEPT ![a].vpn = TRUE] => app' = [app EXCEPT ![a] = [x EXCEPT !.vpn = TRUE]]
      /\ app' = [Start(a, R) EXCEPT ![a].Api = TRUE] => app' = [app EXCEPT ![a] = [x EXCEPT !.Api = TRUE]]
  BY <1>3, Zenon
<1>5. /\ app' = Start(a, R) => Touches(a, x)
      /\ app' = [Start(a, R) EXCEPT ![a].ctx = "live"] => Touches(a, [x EXCEPT !.ctx = "live"])
      /\ app' = [Start(a, R) EXCEPT ![a].P2p = TRUE] => Touches(a, [x EXCEPT !.P2p = TRUE])
      /\ app' = [Start(a, R) EXCEPT ![a].vpn = TRUE] => Touches(a, [x EXCEPT !.vpn = TRUE])
      /\ app' = [Start(a, R) EXCEPT ![a].Api = TRUE] => Touches(a, [x EXCEPT !.Api = TRUE])
  BY <1>2, <1>3, <1>4, Fields, Rewrites, Zenon
<1> QED
  BY <1>5, Zenon DEF x

(* A step of Init keeps the VPN flag and never touches what Close left; it *)
(* starts the users of a TUN only where there is one.                      *)
LEMMA InitTouches ==
  ASSUME SwapInv, NEW a \in Apps, InitStep(a)
  PROVE  \E r \in Application :
           /\ Touches(a, r) /\ r.close = app[a].close /\ r.off = app[a].off
           /\ r.vpn = app[a].vpn \/ (At("NewDevice") /\ HasTUN(a) /\ r.vpn)
<1> DEFINE Kept(r) == /\ r \in Application /\ Touches(a, r)
                      /\ r.close = app[a].close /\ r.off = app[a].off
                      /\ r.vpn = app[a].vpn \/ (At("NewDevice") /\ HasTUN(a) /\ r.vpn)
<1>0. app[a] \in Application
  BY Zenon DEF SwapInv, Types
<1>1. ASSUME NEW R \in SUBSET Services, NEW y,
             \/ y = [app[a] EXCEPT !.live = @ \cup R]
             \/ y = [[app[a] EXCEPT !.live = @ \cup R] EXCEPT !.ctx = "live"]
             \/ y = [[app[a] EXCEPT !.live = @ \cup R] EXCEPT !.P2p = TRUE]
             \/ y = [[app[a] EXCEPT !.live = @ \cup R] EXCEPT !.Api = TRUE]
             \/ y = [[app[a] EXCEPT !.live = @ \cup R] EXCEPT !.vpn = TRUE]
                /\ At("NewDevice") /\ HasTUN(a),
             Touches(a, y)
      PROVE  Kept(y)
  <2>1. y \in Application
    BY <1>1, Zenon DEF Touches
  <2> QED
    BY <1>0, <1>1, <2>1, Zenon DEF Application
<1>2. ASSUME NEW y,
             \/ y = app[a]
             \/ y = [app[a] EXCEPT !.ctx = "live"]
             \/ y = [app[a] EXCEPT !.P2p = TRUE]
             \/ y = [app[a] EXCEPT !.Api = TRUE],
             app' = [app EXCEPT ![a] = y]
      PROVE  Kept(y)
  <2>1. y \in Application
    BY <1>0, <1>2, Fields, Zenon
  <2>2. Touches(a, y)
    BY <1>2, <2>1, Rewrites, Zenon
  <2> QED
    BY <1>0, <1>2, <2>1, <2>2, Zenon DEF Application
<1>3. UNCHANGED app => app' = [app EXCEPT ![a] = app[a]]
  BY Zenon DEF SwapInv, Types
<1> HIDE DEF Kept
<1>4. \E r : Kept(r)
  <2>1. CASE NetManagerStart(a)
    <3>1. CASE app' = [Start(a, {"loops"}) EXCEPT ![a].ctx = "live"]
      <4>1. PICK R \in SUBSET Services : R = {"loops"}
        BY Zenon DEF Services
      <4>2. Touches(a, [[app[a] EXCEPT !.live = @ \cup R] EXCEPT !.ctx = "live"])
        BY <3>1, <4>1, Starts, Zenon
      <4> QED BY <1>1, <4>2, Zenon
    <3>2. CASE app' = [app EXCEPT ![a].ctx = "live"]
      BY <1>2, <3>2, Zenon
    <3> QED BY <2>1, <3>1, <3>2, Zenon DEF NetManagerStart
  <2>2. CASE InitHost(a)
    <3>1. CASE app' = [Start(a, {"host"}) EXCEPT ![a].P2p = TRUE]
      <4>1. PICK R \in SUBSET Services : R = {"host"}
        BY Zenon DEF Services
      <4>2. Touches(a, [[app[a] EXCEPT !.live = @ \cup R] EXCEPT !.P2p = TRUE])
        BY <3>1, <4>1, Starts, Zenon
      <4> QED BY <1>1, <4>2, Zenon
    <3>2. CASE app' = [app EXCEPT ![a].P2p = TRUE]
      BY <1>2, <3>2, Zenon
    <3> QED BY <2>2, <3>1, <3>2, Zenon DEF InitHost
  <2>3. CASE NewDevice(a)
    <3>1. CASE HasTUN(a) /\ app' = [Start(a, {"tunnel"}) EXCEPT ![a].vpn = TRUE]
      <4>1. PICK R \in SUBSET Services : R = {"tunnel"}
        BY Zenon DEF Services
      <4>2. Touches(a, [[app[a] EXCEPT !.live = @ \cup R] EXCEPT !.vpn = TRUE])
        BY <3>1, <4>1, Starts, Zenon
      <4>3. At("NewDevice")
        BY <2>3, Zenon DEF NewDevice
      <4> QED BY <1>1, <3>1, <4>2, <4>3, Zenon
    <3>2. CASE UNCHANGED app
      BY <1>2, <1>3, <3>2, Zenon
    <3> QED BY <2>3, <3>1, <3>2, Zenon DEF NewDevice
  <2>4. CASE NewSOCKS5(a)
    BY <2>4, <1>1, <1>2, <1>3, Starts, Zenon DEF NewSOCKS5, NewClient, Services
  <2>5. CASE SetupAPI(a)
    <3>1. CASE app' = [Start(a, {"api"}) EXCEPT ![a].Api = TRUE]
      <4>1. PICK R \in SUBSET Services : R = {"api"}
        BY Zenon DEF Services
      <4>2. Touches(a, [[app[a] EXCEPT !.live = @ \cup R] EXCEPT !.Api = TRUE])
        BY <3>1, <4>1, Starts, Zenon
      <4> QED BY <1>1, <4>2, Zenon
    <3>2. CASE app' = [app EXCEPT ![a].Api = TRUE]
      BY <1>2, <3>2, Zenon
    <3> QED BY <2>5, <3>1, <3>2, Zenon DEF SetupAPI
  <2>6. CASE setupDNS(a) \/ SetupAtStartup(a)
    <3>1. PICK R \in SUBSET Services : app' = Start(a, R)
      BY <2>6, Zenon DEF setupDNS, SetupAtStartup, Services
    <3> QED
      BY <1>1, <3>1, Starts, Zenon
  <2> QED
    BY <2>1, <2>2, <2>3, <2>4, <2>5, <2>6, Zenon DEF InitStep
<1> QED
  BY <1>4, Zenon DEF Kept

LEMMA InitStepsKeep ==
  ASSUME SwapInv, NEW a \in Apps, a = globalApp, InitStep(a)
  PROVE  SwapInv'
<1>1. /\ UNCHANGED <<starts, globalApp, globalSwapTUN, dev, wrap, fwd>>
      /\ a # None
  BY DEF InitStep, Apps, None
<1>2. /\ app' \in [Apps -> Application]
      /\ \A b \in Apps : app'[b].vpn => HasTUN(b)
  BY <1>1, InitTouches DEF Touches, SwapInv, Numbered
<1>3. PICK l \in InitLabels \cup {"idle", "Teardown"} : Goto(l)
  BY DEF InitStep, NetManagerStart, InitHost, NewDevice, NewSOCKS5, SetupAPI, setupDNS,
         SetupAtStartup, InitLabels
<1>4. pc' \in PC /\ pc'.at = l
  BY <1>3, GotoTyped, Zenon DEF Labels, CloseLabels
<1>5. \/ io' = io
      \/ HasTUN(a) /\ io' = [io EXCEPT ![a] = [u \in Users |-> Return("load")]]
  BY <1>1, Zenon DEF InitStep, NetManagerStart, InitHost, NewDevice, NewSOCKS5, SetupAPI, setupDNS,
         SetupAtStartup, SwapInv, Numbered, At
<1>6. /\ pc'.at \notin {"Swap", "closeOld", "innerClose"} \cup DropLabels
      /\ pc'.at = "vpnDevice" /\ globalApp # None => HasTUN(globalApp)
  BY <1>3, <1>4, Zenon DEF InitLabels, DropLabels
<1> QED
  BY <1>1, <1>2, <1>4, <1>5, <1>6, ServicesKeep, Zenon

ServiceClose(a) ==
  \/ TeardownAtShutdown(a) \/ ctxCancel(a) \/ ApiShutdown(a) \/ TunnelClose(a)
  \/ SOCKS5Close(a) \/ P2pClose(a) \/ DnsClose(a) \/ ConfClose(a)

(* A step of Close stops services and keeps the fields; it may leave       *)
(* handlers of the API behind, end in a panic, or mark the application     *)
(* closed at the very end.                                                 *)
LEMMA CloseTouches ==
  ASSUME SwapInv, NEW a \in Apps, ServiceClose(a)
  PROVE  \E r \in Application :
           /\ Touches(a, r)
           /\ r.vpn = app[a].vpn /\ r.Api = app[a].Api /\ r.P2p = app[a].P2p
           /\ r.off = app[a].off /\ r.live \subseteq app[a].live \cup {"handlers"}
           /\ \/ r.close = app[a].close
              \/ At("Conf") /\ r.close = "returned"
              \/ Panic(a) /\ r.close = "panicked"
<1> DEFINE Kept(r) == /\ r \in Application /\ Touches(a, r)
                      /\ r.vpn = app[a].vpn /\ r.Api = app[a].Api /\ r.P2p = app[a].P2p
                      /\ r.off = app[a].off /\ r.live \subseteq app[a].live \cup {"handlers"}
                      /\ \/ r.close = app[a].close
                         \/ At("Conf") /\ r.close = "returned"
                         \/ Panic(a) /\ r.close = "panicked"
<1>0. app[a] \in Application /\ app[a].live \in SUBSET Services
  BY Zenon DEF SwapInv, Types, Application
<1>1. ASSUME NEW s, Stop(a, s) PROVE \E r : Kept(r)
  <2> DEFINE r == [app[a] EXCEPT !.live = @ \ {s}]
  <2>1. r \in Application
    <3>1. app[a].live \ {s} \in SUBSET Services
      BY <1>0, Zenon
    <3> QED
      BY <1>0, <3>1, Fields, Zenon
  <2>2. app' = [app EXCEPT ![a] = r]
    BY <1>1, Zenon DEF Stop
  <2>3. Touches(a, r)
    BY <2>1, <2>2, Rewrites, Zenon
  <2>4. Kept(r)
    BY <1>0, <2>1, <2>3, Zenon DEF Application
  <2> QED
    BY <2>4, Zenon
<1>2. ASSUME Panic(a) PROVE \E r : Kept(r)
  <2> DEFINE r == [app[a] EXCEPT !.close = "panicked"]
  <2>1. r \in Application
    BY <1>0, Fields, Zenon
  <2>2. Touches(a, r)
    BY <1>2, <2>1, Rewrites, Zenon DEF Panic
  <2>3. Kept(r)
    BY <1>0, <1>2, <2>1, <2>2, Zenon DEF Application
  <2> QED
    BY <2>3, Zenon
<1>3. ASSUME ctxCancel(a) PROVE \E r : Kept(r)
  <2> DEFINE r == [app[a] EXCEPT !.ctx = IF @ = "none" THEN @ ELSE "done"]
  <2>1. r \in Application
    BY <1>0, Zenon DEF Application
  <2>2. Touches(a, r)
    BY <1>3, <2>1, Rewrites, Zenon DEF ctxCancel
  <2>3. Kept(r)
    BY <1>0, <2>1, <2>2 DEF Application
  <2> QED
    BY <2>3, Zenon
<1>4. ASSUME ConfClose(a) PROVE \E r : Kept(r)
  <2> DEFINE r == [app[a] EXCEPT !.live = @ \ {"writer"}, !.close = "returned"]
  <2>1. r \in Application
    <3>1. app[a].live \ {"writer"} \in SUBSET Services
      BY <1>0, Zenon
    <3> QED
      BY <1>0, <3>1, Zenon DEF Application
  <2>2. app' = [app EXCEPT ![a] = r]
    BY <1>4, Zenon DEF ConfClose
  <2>3. Touches(a, r)
    BY <2>1, <2>2, Rewrites, Zenon
  <2>4. At("Conf")
    BY <1>4, Zenon DEF ConfClose
  <2>5. Kept(r)
    BY <1>0, <2>1, <2>3, <2>4, Zenon DEF Application
  <2> QED
    BY <2>5, Zenon
<1>6. ASSUME app' = [app EXCEPT ![a].live = (@ \ {"api"}) \cup {"handlers"}] PROVE \E r : Kept(r)
  <2> DEFINE r == [app[a] EXCEPT !.live = (@ \ {"api"}) \cup {"handlers"}]
  <2>1. r \in Application
    <3>1. (app[a].live \ {"api"}) \cup {"handlers"} \in SUBSET Services
      BY <1>0, Zenon DEF Services
    <3> QED
      BY <1>0, <3>1, Fields, Zenon
  <2>2. app' = [app EXCEPT ![a] = r]
    BY <1>6, Zenon
  <2>3. Touches(a, r)
    BY <2>1, <2>2, Rewrites, Zenon
  <2>4. Kept(r)
    BY <1>0, <2>1, <2>3, Zenon DEF Application
  <2> QED
    BY <2>4, Zenon
<1> HIDE DEF Kept
<1>5. \/ (\E s : Stop(a, s)) \/ Panic(a) \/ ctxCancel(a) \/ ConfClose(a)
      \/ app' = [app EXCEPT ![a].live = (@ \ {"api"}) \cup {"handlers"}]
  BY Zenon DEF ServiceClose, TeardownAtShutdown, ApiShutdown, TunnelClose, SOCKS5Close,
     P2pClose, DnsClose
<1>7. \E r : Kept(r)
  <2>1. CASE \E s : Stop(a, s)
    BY <1>1, <2>1, Zenon
  <2> QED
    BY <1>2, <1>3, <1>4, <1>5, <1>6, <2>1, Zenon
<1> QED
  BY <1>7, Zenon DEF Kept

LEMMA ServiceCloseKeeps ==
  ASSUME SwapInv, NEW a \in Apps, a = globalApp, ServiceClose(a),
         UNCHANGED <<starts, globalApp, globalSwapTUN, dev, wrap, io, fwd>>
  PROVE  SwapInv'
<1>1. /\ app' \in [Apps -> Application]
      /\ \A b \in Apps : app'[b].vpn => HasTUN(b)
  <2>1. PICK r : Touches(a, r) /\ r.vpn = app[a].vpn
    BY CloseTouches, Zenon
  <2> QED
    BY <2>1, Zenon DEF Touches, SwapInv, Numbered
<1>2. /\ pc' \in PC
      /\ pc'.at \in {"ctxCancel", "Api", "Tunnel", "SOCKS5", "P2p", "Dns", "vpnDevice", "Conf",
                     "forget", "idle", "crashed"}
      /\ pc'.at = "vpnDevice" => HasTUN(a)
  <2>1. CASE Panic(a)
    BY <2>1, Zenon DEF Panic, Idle, PC, Labels, None
  <2>2. ASSUME NEW l \in {"ctxCancel", "Api", "Tunnel", "SOCKS5", "P2p", "Dns", "vpnDevice",
                          "Conf", "forget"}, Goto(l)
        PROVE  pc' \in PC /\ pc'.at = l
    BY <2>2, GotoTyped, Zenon DEF Labels, CloseLabels
  <2>3. app[a].vpn => HasTUN(a)
    BY Zenon DEF SwapInv, Numbered
  <2>4. CASE DnsClose(a)
    BY <2>2, <2>3, <2>4, Zenon DEF DnsClose
  <2> QED
    BY <2>1, <2>2, <2>4, Zenon
    DEF ServiceClose, TeardownAtShutdown, ctxCancel, ApiShutdown, TunnelClose,
        SOCKS5Close, P2pClose, ConfClose
<1>3. /\ pc'.at \notin {"Swap", "closeOld", "innerClose"} \cup DropLabels
      /\ pc'.at = "vpnDevice" /\ globalApp # None => HasTUN(globalApp)
  BY <1>2, Zenon DEF DropLabels
<1> QED
  BY <1>1, <1>2, <1>3, ServicesKeep, Zenon

LEMMA EndsKeep ==
  ASSUME SwapInv, NEW a \in Apps, NEW s, Ends(a, s)
  PROVE  SwapInv'
<1> DEFINE r == [app[a] EXCEPT !.live = @ \ {s}]
<1>0. app[a] \in Application /\ app[a].live \ {s} \in SUBSET Services
  BY Zenon DEF SwapInv, Types, Application
<1>1. r \in Application /\ r.vpn = app[a].vpn
  BY <1>0, Zenon DEF Application
<1>2. app' = [app EXCEPT ![a] = r]
  BY Zenon DEF Ends, Stop
<1>3. Touches(a, r)
  BY <1>1, <1>2, Rewrites, Zenon
<1>4. /\ app' \in [Apps -> Application]
      /\ \A b \in Apps : app'[b].vpn => HasTUN(b)
  BY <1>1, <1>3, Zenon DEF Touches, SwapInv, Numbered
<1>5. /\ UNCHANGED <<starts, globalApp, globalSwapTUN, dev, wrap, io, fwd, pc>>
      /\ pc \in PC
  BY Zenon DEF Ends, SwapInv, Types, PC
<1> QED
  BY <1>4, <1>5, ServicesKeep, Zenon

LEMMA NoneIsNoApp == \A a \in Apps : a # None
BY BoundsAssumption DEF Apps, None

(* Marking a wrapper closed. *)
Marked(w) ==
  /\ wrap' \in [Apps -> Wrapper]
  /\ \A b \in Apps : wrap'[b].cur = wrap[b].cur /\ wrap'[b].events = wrap[b].events
  /\ \A b \in Apps : wrap[b].closed => wrap'[b].closed
  /\ wrap'[w].closed
  /\ \A b \in Apps \ {w} : wrap'[b].closed = wrap[b].closed

LEMMA Rewraps ==
  ASSUME SwapInv, NEW w \in Apps, NEW r \in Wrapper, wrap' = [wrap EXCEPT ![w] = r]
  PROVE  /\ wrap' \in [Apps -> Wrapper] /\ wrap'[w] = r
         /\ \A b \in Apps : b # w => wrap'[b] = wrap[b]
BY Zenon DEF SwapInv, Types

LEMMA Marks ==
  ASSUME SwapInv, NEW w \in Apps, wrap' = [wrap EXCEPT ![w].closed = TRUE]
  PROVE  Marked(w)
<1> DEFINE r == [wrap[w] EXCEPT !.closed = TRUE]
<1>1. wrap[w] \in Wrapper
  BY Zenon DEF SwapInv, Types
<1>2. r \in Wrapper
  BY <1>1, Zenon DEF Wrapper
<1>3. r.closed /\ r.cur = wrap[w].cur /\ r.events = wrap[w].events
  BY <1>1, Zenon DEF Wrapper
<1>4. wrap' = [wrap EXCEPT ![w] = r]
  OBVIOUS
<1> HIDE DEF r
<1>5. /\ wrap' \in [Apps -> Wrapper] /\ wrap'[w] = r
      /\ \A b \in Apps : b # w => wrap'[b] = wrap[b]
  BY Zenon, <1>2, <1>4, Rewraps
<1> QED
  BY Zenon, <1>3, <1>5 DEF Marked

LEMMA MarkKeeps ==
  ASSUME SwapInv, NEW w \in Apps, HasTUN(w), Marked(w),
         UNCHANGED <<starts, app, globalApp, globalSwapTUN, dev, io, fwd>>,
         pc' \in PC, pc'.at \in {"innerClose", "Conf", "swapTUN inner", "dropTUN"},
         pc'.at = "innerClose" => globalApp = w,
         pc'.at \in {"swapTUN inner", "dropTUN"} => globalSwapTUN = w
  PROVE  SwapInv'
<1>1. \A b \in Apps : HasTUN(b)' <=> HasTUN(b)
  BY Zenon DEF HasTUN, Marked
<1>2. w # None
  BY NoneIsNoApp, Zenon
<1>3. Types'
  BY Zenon DEF SwapInv, Types, PC, Marked
<1>4. Numbered'
  <2>1. globalSwapTUN # None => (HasTUN(globalSwapTUN)' <=> HasTUN(globalSwapTUN))
    BY <1>1, Zenon DEF SwapInv, Types
  <2>2. pc'.at \in {"vpnDevice", "innerClose"} => HasTUN(globalApp)'
    BY <1>1, Zenon
  <2> QED
    BY <1>1, <2>1, <2>2, Zenon DEF SwapInv, Numbered
<1>5. Held'
  <2>1. \A b \in Apps : wrap'[b].cur = wrap[b].cur /\ (wrap[b].closed => wrap'[b].closed)
    BY Zenon DEF Marked
  <2>2. dev' = dev /\ Held
    BY Zenon DEF SwapInv
  <2> QED
    BY <1>1, <2>1, <2>2, ZenonT(40) DEF Held
<1>6. InCall'
  <2>1. pc'.at \notin {"Swap", "closeOld", "swapTUN"}
    BY Zenon
  <2>2. wrap'[w].closed
    BY Zenon DEF Marked
  <2> QED
    BY <1>2, <2>1, <2>2, Zenon DEF InCall, At
<1>7. ReadersRight'
  BY Zenon DEF SwapInv, ReadersRight, Marked
<1> QED
  BY <1>3, <1>4, <1>5, <1>6, <1>7, Zenon DEF SwapInv

(* Closing a device that no wrapper in use holds. *)
LEMMA CloseDeviceKeeps ==
  ASSUME SwapInv, NEW d \in Devs, dev[d] # "none",
         UNCHANGED <<starts, app, globalApp, globalSwapTUN, wrap, io, fwd>>,
         dev' = [dev EXCEPT ![d] = "closed"],
         \A a \in Apps : HasTUN(a) /\ wrap[a].cur = d => wrap[a].closed,
         pc' \in PC, pc'.at \in {"idle", "Conf", "dropTUN"},
         pc'.at = "dropTUN" => globalSwapTUN # None /\ wrap[globalSwapTUN].closed
  PROVE  SwapInv'
<1>1. /\ dev' \in [Devs -> {"none", "open", "closed"}]
      /\ \A e \in Devs : /\ dev'[e] = IF e = d THEN "closed" ELSE dev[e]
                         /\ dev[e] # "none" => dev'[e] # "none"
                         /\ dev[e] = "closed" => dev'[e] = "closed"
  BY Zenon DEF SwapInv, Types
<1>2. \A b \in Apps : HasTUN(b)' <=> HasTUN(b)
  BY Zenon DEF HasTUN
<1>3. Types'
  BY <1>1, Zenon DEF SwapInv, Types, PC
<1>4. Numbered'
  <2>1. globalSwapTUN # None => (HasTUN(globalSwapTUN)' <=> HasTUN(globalSwapTUN))
    BY <1>2, Zenon DEF SwapInv, Types
  <2> QED
    BY <1>2, <2>1, Zenon DEF SwapInv, Numbered
<1>5. Held'
  BY <1>1, <1>2, Zenon DEF SwapInv, Held
<1>6. InCall'
  BY Zenon DEF InCall, At
<1>7. ReadersRight'
  BY <1>1 DEF SwapInv, ReadersRight
<1> QED
  BY <1>3, <1>4, <1>5, <1>6, <1>7, Zenon DEF SwapInv

LEMMA CloseTUNKeeps ==
  ASSUME SwapInv, NEW w \in Apps, HasTUN(w),
         UNCHANGED <<starts, app, globalApp, globalSwapTUN, io, fwd>>,
         NEW flag, NEW inner \in {"innerClose", "swapTUN inner"}, NEW next \in {"Conf", "dropTUN"},
         CloseTUN(w, flag, inner, next),
         inner = "innerClose" => globalApp = w /\ next = "Conf",
         inner = "swapTUN inner" => globalSwapTUN = w /\ next = "dropTUN"
  PROVE  SwapInv'
<1>0. w # None /\ inner \in Labels /\ next \in Labels
  BY NoneIsNoApp, Zenon DEF Labels, CloseLabels, DropLabels
<1>1. CASE /\ wrap' = [wrap EXCEPT ![w].closed = TRUE]
           /\ Goto(IF wrap[w].closed THEN next ELSE inner)
           /\ UNCHANGED dev
  <2>1. pc' \in PC /\ pc'.at = IF wrap[w].closed THEN next ELSE inner
    BY <1>0, <1>1, GotoTyped, Zenon
  <2> QED
    BY <1>1, <2>1, Marks, MarkKeeps, Zenon
<1>2. CASE At(inner) /\ dev' = [dev EXCEPT ![wrap[w].cur] = "closed"] /\ Goto(next) /\ UNCHANGED wrap
  <2>1. pc' \in PC /\ pc'.at = next
    BY <1>0, <1>2, GotoTyped, Zenon
  <2>2. wrap[w].closed
    BY <1>0, <1>2, Zenon DEF SwapInv, InCall
  <2>3. wrap[w].cur \in Devs /\ dev[wrap[w].cur] # "none"
    BY Zenon DEF SwapInv, Held
  <2>4. \A a \in Apps : HasTUN(a) /\ wrap[a].cur = wrap[w].cur => wrap[a].closed
    BY <2>2, Zenon DEF SwapInv, Held
  <2> QED
    BY <1>0, <1>2, <2>1, <2>2, <2>3, <2>4, CloseDeviceKeeps, Zenon
<1> QED
  BY <1>1, <1>2, Zenon DEF CloseTUN

LEMMA FreshIsNew == FreshDev # None => FreshDev \in Devs /\ dev[FreshDev] = "none"
BY Zenon DEF FreshDev

(* The next application: it has no wrapper yet, and what StartServer makes *)
(* of it has its config.                                                   *)
LEMMA NextApp ==
  ASSUME SwapInv, NEW fd, NEW off \in BOOLEAN, StartServer(fd, off)
  PROVE  LET a == starts + 1
             r == [app[a] EXCEPT !.live = {"writer"}, !.off = off]
         IN  /\ a \in Apps /\ a # None /\ ~HasTUN(a)
             /\ Touches(a, r) /\ r.vpn = app[a].vpn /\ r.close = app[a].close
             /\ r.Api = app[a].Api /\ r.P2p = app[a].P2p
             /\ starts' = a /\ io' = io
<1> DEFINE a == starts + 1
           r == [app[a] EXCEPT !.live = {"writer"}, !.off = off]
<1>1. starts \in Nat /\ starts < MaxStarts
  BY Zenon DEF StartServer, SwapInv, Types
<1>2. a \in Apps /\ a # None
  BY <1>1, BoundsAssumption DEF Apps, None
<1>3. ~(a <= starts)
  BY <1>1
<1>4. ~HasTUN(a)
  BY <1>2, <1>3, Zenon DEF SwapInv, Numbered
<1>5. app[a] \in Application
  BY <1>2, Zenon DEF SwapInv, Types
<1>6. /\ r \in Application /\ r.vpn = app[a].vpn /\ r.close = app[a].close
      /\ r.Api = app[a].Api /\ r.P2p = app[a].P2p
  BY <1>5, Zenon DEF Application, Services
<1>7. app' = [app EXCEPT ![a] = r]
  BY Zenon DEF StartServer, SetupLoggerAndConfig
<1>8. Touches(a, r)
  BY <1>2, <1>6, <1>7, Rewrites, Zenon
<1> QED
  BY <1>2, <1>4, <1>6, <1>8, Zenon DEF StartServer

LEMMA StartKeeps ==
  ASSUME SwapInv, NEW fd, NEW off \in BOOLEAN, StartServer(fd, off)
  PROVE  SwapInv'
<1>n. PICK a : a = starts + 1
  OBVIOUS
<1>0. /\ a \in Apps /\ a # None /\ ~HasTUN(a) /\ starts' = a /\ io' = io
      /\ app' \in [Apps -> Application]
      /\ \A b \in Apps : app'[b].vpn => app[b].vpn
  BY <1>n, NextApp, Zenon DEF Touches
<1>1. starts \in Nat /\ a \in Nat
  BY <1>n DEF SwapInv, Types
<1>2. globalApp <= a /\ \A b \in Apps : b <= starts => b <= a
  BY <1>n, <1>1, BoundsAssumption DEF SwapInv, Types, Numbered, Apps, None
<1>3. CASE fd \in {"zero", "bad"}
  <2>1. /\ UNCHANGED <<globalSwapTUN, dev, wrap, fwd>>
        /\ globalApp' \in {a, None}
        /\ pc' \in {Idle, [Idle EXCEPT !.at = "NetManager.Start"]}
    BY <1>n, <1>3, Zenon DEF StartServer
  <2>0. pc' \in PC /\ pc'.at \in {"NetManager.Start", "idle"}
    <3>1. Idle \in PC /\ Idle.at = "idle"
      BY Zenon DEF Idle, PC, Labels
    <3>2. /\ [Idle EXCEPT !.at = "NetManager.Start"] \in PC
          /\ [Idle EXCEPT !.at = "NetManager.Start"].at = "NetManager.Start"
      BY <3>1, Zenon DEF PC, Labels, InitLabels
    <3> QED
      BY <2>1, <3>1, <3>2, Zenon
  <2>2. \A b \in Apps : HasTUN(b)' <=> HasTUN(b)
    BY <2>1, Zenon DEF HasTUN
  <2>3. Types'
    BY <1>0, <1>1, <2>0, <2>1, Zenon DEF SwapInv, Types, PC
  <2>4. Numbered'
    <3>1. globalSwapTUN # None => (HasTUN(globalSwapTUN)' <=> HasTUN(globalSwapTUN))
      BY <2>1, Zenon DEF HasTUN
    <3>2. globalApp' <= starts'
      BY <1>0, <1>1, <2>1 DEF None
    <3>3. \A b \in Apps : HasTUN(b) => b <= starts'
      BY <1>0, <1>2, Zenon DEF SwapInv, Numbered
    <3> QED
      BY <1>0, <2>0, <2>1, <2>2, <3>1, <3>2, <3>3, Zenon DEF SwapInv, Numbered
  <2>5. Held'
    BY <2>1, <2>2, Zenon DEF SwapInv, Held
  <2>6. InCall'
    BY <2>0, Zenon DEF InCall, At
  <2>7. ReadersRight'
    BY <1>0, <2>1, Zenon DEF SwapInv, ReadersRight
  <2> QED
    BY <2>3, <2>4, <2>5, <2>6, <2>7, Zenon DEF SwapInv
<1>4. CASE fd = "good"
  <2> DEFINE r == [cur |-> FreshDev, closed |-> FALSE, events |-> "open"]
  <2>1. /\ FreshDev # None
        /\ globalApp' = a /\ globalSwapTUN' = a
        /\ dev' = [dev EXCEPT ![FreshDev] = "open"]
        /\ wrap' = [wrap EXCEPT ![a] = r]
        /\ fwd' = [fwd EXCEPT ![a].at = "load"]
    BY <1>n, <1>4, Zenon DEF StartServer
  <2>2. pc' \in PC /\ pc'.at = "NetManager.Start"
    BY <1>4, Zenon DEF StartServer, Idle, PC, Labels, InitLabels, None
  <2>3. FreshDev \in Devs /\ dev[FreshDev] = "none"
    BY <2>1, FreshIsNew, Zenon
  <2>4. r \in Wrapper
    BY <2>3, Zenon DEF Wrapper
  <2>5. /\ wrap' \in [Apps -> Wrapper] /\ wrap'[a] = r
        /\ \A b \in Apps : b # a => wrap'[b] = wrap[b]
    BY <1>0, <2>1, <2>4, Rewraps, Zenon
  <2>6. /\ dev' \in [Devs -> {"none", "open", "closed"}] /\ dev'[FreshDev] = "open"
        /\ \A d \in Devs : d # FreshDev => dev'[d] = dev[d]
        /\ \A d \in Devs : dev[d] # "none" => dev'[d] = dev[d]
    BY <2>1, <2>3, Zenon DEF SwapInv, Types
  <2>7. /\ \A b \in Apps : b # a => (HasTUN(b)' <=> HasTUN(b))
        /\ HasTUN(a)'
    BY <2>5 DEF HasTUN
  <2>8. /\ fwd' \in [Apps -> [at: {"none", "load", "range", "exited"}, inner: Devs \cup {None}]]
        /\ \A b \in Apps : b # a => fwd'[b] = fwd[b]
    <3>0. fwd[a] \in [at: {"none", "load", "range", "exited"}, inner: Devs \cup {None}]
      BY <1>0, Zenon DEF SwapInv, Types
    <3>1. [fwd[a] EXCEPT !.at = "load"] \in
            [at: {"none", "load", "range", "exited"}, inner: Devs \cup {None}]
      BY <3>0, Zenon
    <3>2. fwd' = [fwd EXCEPT ![a] = [fwd[a] EXCEPT !.at = "load"]]
      BY <2>1, Zenon
    <3> HIDE DEF r
    <3> QED
      BY <1>0, <3>1, <3>2, Zenon DEF SwapInv, Types
  <2>9. Types'
    BY <1>0, <1>1, <2>1, <2>2, <2>5, <2>6, <2>8, Zenon DEF SwapInv, Types, PC
  <2>10. Numbered'
    <3>1. globalApp' <= starts' /\ a <= starts'
      BY <1>0, <1>1, <2>1
    <3>2. \A b \in Apps : HasTUN(b)' => b <= starts'
      BY <1>0, <1>2, <2>7, <3>1, Zenon DEF SwapInv, Numbered
    <3> QED
      BY <1>0, <2>1, <2>2, <2>7, <2>8, <3>1, <3>2 DEF SwapInv, Numbered
  <2>11. Held'
    <3>1. \A b \in Apps : b # a /\ HasTUN(b) =>
            /\ wrap'[b].cur \in Devs /\ wrap'[b].cur # FreshDev
            /\ dev'[wrap'[b].cur] = dev[wrap[b].cur]
      BY <2>3, <2>5, <2>6 DEF SwapInv, Held
    <3>2. wrap'[a].cur = FreshDev
      BY <2>5
    <3> QED
      BY <2>3, <2>5, <2>6, <2>7, <3>1, <3>2 DEF SwapInv, Held
  <2>12. InCall'
    BY <2>2, Zenon DEF InCall, At
  <2>13. ReadersRight'
    BY <1>0, <2>5, <2>6 DEF SwapInv, ReadersRight, Numbered
  <2> QED
    BY <2>9, <2>10, <2>11, <2>12, <2>13, Zenon DEF SwapInv
<1> QED
  BY <1>3, <1>4, Zenon DEF StartServer

(* UpdateTunDevice makes a device that no wrapper has. *)
LEMMA UpdateKeeps ==
  ASSUME SwapInv, UpdateTunDevice
  PROVE  SwapInv'
<1>n. PICK d : d = FreshDev
  OBVIOUS
<1>1. /\ d \in Devs /\ dev[d] = "none" /\ globalSwapTUN # None
      /\ dev' = [dev EXCEPT ![d] = "open"]
      /\ pc' = [Idle EXCEPT !.at = "Swap", !.dev = d]
      /\ UNCHANGED <<starts, app, globalApp, globalSwapTUN, wrap, io, fwd>>
  BY <1>n, FreshIsNew, Zenon DEF UpdateTunDevice
<1>2. pc' \in PC /\ pc'.at = "Swap" /\ pc'.dev = d
  <2>1. Idle \in PC
    BY Zenon DEF Idle, PC, Labels
  <2>2. [Idle EXCEPT !.at = "Swap", !.dev = d] \in PC
    BY <1>1, <2>1, Zenon DEF PC, Labels
  <2> QED
    BY <1>1, <2>1, <2>2, Zenon DEF PC
<1>3. /\ dev' \in [Devs -> {"none", "open", "closed"}] /\ dev'[d] = "open"
      /\ \A e \in Devs : e # d => dev'[e] = dev[e]
  BY <1>1, Zenon DEF SwapInv, Types
<1>4. \A b \in Apps : HasTUN(b)' <=> HasTUN(b)
  BY <1>1, Zenon DEF HasTUN
<1>5. Types'
  BY <1>1, <1>2, <1>3, Zenon DEF SwapInv, Types, PC
<1>6. Numbered'
  <2>1. HasTUN(globalSwapTUN)' <=> HasTUN(globalSwapTUN)
    BY <1>1, Zenon DEF HasTUN
  <2> QED
    BY <1>1, <1>2, <1>4, <2>1, Zenon DEF SwapInv, Numbered
<1>7. Held'
  BY <1>1, <1>3, <1>4 DEF SwapInv, Held
<1>8. InCall'
  <2>1. \A b \in Apps : HasTUN(b)' => wrap'[b].cur # d
    BY <1>1, <1>4, Zenon DEF SwapInv, Held
  <2> QED
    BY <1>1, <1>2, <1>3, <2>1, Zenon DEF InCall, At
<1>9. ReadersRight'
  BY <1>1, <1>3 DEF SwapInv, ReadersRight
<1> QED
  BY <1>5, <1>6, <1>7, <1>8, <1>9, Zenon DEF SwapInv

(* Swap puts the new device in place before it closes the old one. *)
LEMMA SwapKeeps ==
  ASSUME SwapInv, SwapStep
  PROVE  SwapInv'
<1>n. PICK w, d : w = globalSwapTUN /\ d = pc.dev
  OBVIOUS
<1>0. /\ w \in Apps /\ w # None /\ HasTUN(w) /\ wrap[w] \in Wrapper
      /\ d \in Devs /\ dev[d] = "open"
      /\ \A a \in Apps : HasTUN(a) => wrap[a].cur # d
      /\ UNCHANGED <<starts, app, globalApp, globalSwapTUN, io, fwd>>
  <2>1. At("Swap") \/ At("closeOld")
    BY Zenon DEF SwapStep
  <2>2. /\ pc.dev \in Devs /\ dev[pc.dev] = "open" /\ globalSwapTUN # None
        /\ \A a \in Apps : HasTUN(a) => wrap[a].cur # pc.dev
    BY <2>1, Zenon DEF SwapInv, InCall
  <2>3. HasTUN(globalSwapTUN)
    BY <2>2, Zenon DEF SwapInv, Numbered
  <2>4. globalSwapTUN \in Apps /\ wrap[globalSwapTUN] \in Wrapper
    BY <2>2, Zenon DEF SwapInv, Types
  <2> QED
    BY <1>n, <2>2, <2>3, <2>4, Zenon DEF SwapStep
<1>i. Idle \in PC /\ Idle.at = "idle"
  BY Zenon DEF Idle, PC, Labels
<1>1. ASSUME dev' = [dev EXCEPT ![d] = "closed"], pc' = Idle, UNCHANGED wrap
      PROVE  SwapInv'
  BY <1>0, <1>1, <1>i, CloseDeviceKeeps, Zenon
<1>2. ASSUME wrap' = [wrap EXCEPT ![w].cur = d], UNCHANGED dev, ~wrap[w].closed,
             pc' = [pc EXCEPT !.at = "closeOld", !.dev = wrap[w].cur]
      PROVE  SwapInv'
  <2> DEFINE r == [wrap[w] EXCEPT !.cur = d]
             old == wrap[w].cur
  <2>n. PICK o : o = wrap[w].cur
    OBVIOUS
  <2>0. o \in Devs /\ dev[o] = "open" /\ o # d
    BY <1>0, <1>2, <2>n, Zenon DEF SwapInv, Held
  <2>1. r \in Wrapper /\ r.cur = d /\ r.closed = wrap[w].closed /\ r.events = wrap[w].events
    BY <1>0, Zenon DEF Wrapper
  <2>2. wrap' = [wrap EXCEPT ![w] = r]
    BY <1>2, Zenon
  <2> HIDE DEF r
  <2>3. /\ wrap' \in [Apps -> Wrapper] /\ wrap'[w] = r
        /\ \A b \in Apps : b # w => wrap'[b] = wrap[b]
    BY <1>0, <2>1, <2>2, Rewraps, Zenon
  <2>4. \A b \in Apps : HasTUN(b)' <=> HasTUN(b)
    BY <2>1, <2>3, Zenon DEF HasTUN
  <2>5. pc' \in PC /\ pc'.at = "closeOld" /\ pc'.dev = o
    <3>1. pc \in PC
      BY Zenon DEF SwapInv, Types, PC
    <3>2. pc' = [pc EXCEPT !.at = "closeOld", !.dev = o]
      BY <1>2, <2>n, Zenon
    <3> QED
      BY <2>0, <3>1, <3>2, Zenon DEF PC, Labels
  <2>6. Types'
    BY <1>0, <1>2, <2>3, <2>5, Zenon DEF SwapInv, Types, PC
  <2>7. Numbered'
    <3>1. globalSwapTUN' # None => HasTUN(globalSwapTUN)'
      BY <1>n, <1>0, <2>4, Zenon DEF HasTUN
    <3> QED
      BY <1>0, <1>2, <2>4, <2>5, <3>1, Zenon DEF SwapInv, Numbered
  <2>8. Held'
    BY <1>0, <1>2, <2>1, <2>3, <2>4 DEF SwapInv, Held
  <2>9. InCall'
    <3>1. \A b \in Apps : HasTUN(b) => wrap'[b].cur # o
      BY <1>0, <2>n, <2>0, <2>1, <2>3 DEF SwapInv, Held
    <3> QED
      BY <1>n, <1>0, <1>2, <2>0, <2>4, <2>5, <3>1, Zenon DEF InCall, At
  <2>10. ReadersRight'
    BY <1>0, <1>2, <2>1, <2>3 DEF SwapInv, ReadersRight
  <2> QED
    BY <2>6, <2>7, <2>8, <2>9, <2>10, Zenon DEF SwapInv
<1> QED
  BY <1>n, <1>1, <1>2, Zenon DEF SwapStep, Swap
LEMMA StopKeeps ==
  ASSUME SwapInv, StopServer
  PROVE  SwapInv'
<1> DEFINE l == IF globalApp = None THEN "forget" ELSE "Teardown"
<1>n. PICK k : k = l
  OBVIOUS
<1>1. pc' = [Idle EXCEPT !.at = k, !.stop = TRUE] /\ k \in {"forget", "Teardown"}
  BY <1>n, Zenon DEF StopServer
<1>2. pc' \in PC /\ pc'.at \in {"forget", "Teardown"}
  <2>1. Idle \in PC
    BY Zenon DEF Idle, PC, Labels
  <2>2. [Idle EXCEPT !.at = k, !.stop = TRUE] \in PC
    BY <1>1, <2>1, Zenon DEF PC, Labels, CloseLabels
  <2>3. [Idle EXCEPT !.at = k, !.stop = TRUE].at = k
    BY Zenon DEF Idle
  <2> QED
    BY <1>1, <2>2, <2>3, Zenon
<1>3. UNCHANGED <<starts, app, globalApp, globalSwapTUN, dev, wrap, io, fwd>>
  BY Zenon DEF StopServer
<1>4. app' \in [Apps -> Application] /\ \A a \in Apps : app'[a].vpn => HasTUN(a)
  BY <1>3, Zenon DEF SwapInv, Types, Numbered
<1> QED
  BY <1>2, <1>3, <1>4, ServicesKeep, Zenon DEF DropLabels

(* Dropping the globals: a wrapper a failing StartServer drops is closed   *)
(* first.                                                                  *)
LEMMA ForgetKeeps ==
  ASSUME SwapInv, ForgetStep
  PROVE  SwapInv'
<1>i. Idle \in PC /\ Idle.at = "idle"
  BY Zenon DEF Idle, PC, Labels
<1>0. UNCHANGED <<starts, app, io, fwd>>
  BY Zenon DEF ForgetStep
<1>1. ASSUME UNCHANGED <<dev, wrap>>, globalApp' \in {globalApp, None},
             \/ globalSwapTUN' = None /\ pc' = Idle
             \/ globalSwapTUN # None /\ UNCHANGED globalSwapTUN /\ Goto("swapTUN")
      PROVE  SwapInv'
  <2>1. /\ pc' \in PC /\ pc'.at \in {"idle", "swapTUN"}
        /\ pc'.at = "swapTUN" => globalSwapTUN' # None
        /\ globalSwapTUN' \in {globalSwapTUN, None}
    BY <1>1, <1>i, GotoTyped, Zenon DEF Labels, DropLabels
  <2>2. \A b \in Apps : HasTUN(b)' <=> HasTUN(b)
    BY <1>1, Zenon DEF HasTUN
  <2>3. Types'
    BY <1>0, <1>1, <2>1, Zenon DEF SwapInv, Types, PC
  <2>4. Numbered'
    <3>1. globalSwapTUN' # None => HasTUN(globalSwapTUN)'
      BY <1>1, <2>1, Zenon DEF HasTUN, SwapInv, Numbered
    <3>2. globalApp' <= starts'
      BY <1>0, <1>1 DEF SwapInv, Numbered, Types, None
    <3> QED
      BY <1>0, <1>1, <2>1, <2>2, <3>1, <3>2, Zenon DEF SwapInv, Numbered
  <2>5. Held'
    BY <1>1, <2>2, Zenon DEF SwapInv, Held
  <2>6. InCall'
    BY <2>1, Zenon DEF InCall, At
  <2>7. ReadersRight'
    BY <1>0, <1>1, Zenon DEF SwapInv, ReadersRight
  <2> QED
    BY <2>3, <2>4, <2>5, <2>6, <2>7, Zenon DEF SwapInv
<1>2. CASE At("forget") /\ globalApp' = None /\ UNCHANGED <<dev, wrap>> /\
           IF pc.stop \/ globalSwapTUN = None
           THEN globalSwapTUN' = None /\ pc' = Idle
           ELSE UNCHANGED globalSwapTUN /\ Goto("swapTUN")
  BY <1>1, <1>2, Zenon
<1>3. CASE At("dropTUN") /\ globalSwapTUN' = None /\ pc' = Idle /\ UNCHANGED <<globalApp, dev, wrap>>
  BY <1>1, <1>3, Zenon
<1>4. CASE CloseTUN(globalSwapTUN, "swapTUN", "swapTUN inner", "dropTUN") /\
           UNCHANGED <<globalApp, globalSwapTUN>>
  <2>n. PICK w : w = globalSwapTUN
    OBVIOUS
  <2>1. At("swapTUN") \/ At("swapTUN inner")
    BY <1>4, Zenon DEF CloseTUN
  <2>2. w # None
    BY <2>n, <2>1, Zenon DEF SwapInv, InCall
  <2>3. w \in Apps /\ HasTUN(w)
    BY <2>n, <2>2, Zenon DEF SwapInv, Types, Numbered
  <2>4. CloseTUN(w, "swapTUN", "swapTUN inner", "dropTUN")
    BY <1>4, <2>n, Zenon
  <2> QED
    BY <1>0, <1>4, <2>n, <2>3, <2>4, CloseTUNKeeps, Zenon
<1> QED
  BY <1>2, <1>3, <1>4, Zenon DEF ForgetStep, Forget

LEMMA StutterKeeps ==
  ASSUME SwapInv, UNCHANGED vars
  PROVE  SwapInv'
<1>1. UNCHANGED <<starts, app, globalApp, globalSwapTUN, dev, wrap, io, fwd, pc>>
  BY Zenon DEF vars
<1> QED
  <2>1. Types' /\ ReadersRight'
    BY <1>1, Zenon DEF SwapInv, Types, ReadersRight
  <2>2. Numbered' /\ Held' /\ InCall'
    BY <1>1, Zenon DEF SwapInv, Numbered, Held, InCall, HasTUN, At
  <2> QED
    BY <2>1, <2>2, Zenon DEF SwapInv

LEMMA NextSwap ==
  ASSUME SwapInv, [Next]_vars
  PROVE  SwapInv'
<1>1. CASE UNCHANGED vars
  BY <1>1, StutterKeeps, Zenon
<1>2. ASSUME NEW fd \in {"zero", "bad", "good"}, NEW off \in BOOLEAN, StartServer(fd, off)
      PROVE  SwapInv'
  BY <1>2, StartKeeps, Zenon
<1>3. CASE UpdateTunDevice
  BY <1>3, UpdateKeeps, Zenon
<1>4. CASE StopServer
  BY <1>4, StopKeeps, Zenon
<1>5. CASE CallStep
  <2>1. ASSUME NEW a \in Apps, a = globalApp, InitStep(a) PROVE SwapInv'
    BY <2>1, InitStepsKeep, Zenon
  <2>2. ASSUME NEW a \in Apps, a = globalApp, CloseStep(a) PROVE SwapInv'
    <3>1. CASE ServiceClose(a) /\ UNCHANGED <<starts, globalApp, globalSwapTUN, dev, wrap, io, fwd>>
      BY <2>2, <3>1, ServiceCloseKeeps, Zenon
    <3>2. CASE CloseTUN(a, "vpnDevice", "innerClose", "Conf") /\
               UNCHANGED <<starts, app, globalApp, globalSwapTUN, io, fwd>>
      <4>1. HasTUN(a)
        BY <2>2, <3>2, NoneIsNoApp, Zenon DEF CloseTUN, At, SwapInv, Numbered
      <4> QED
        BY <2>2, <3>2, <4>1, CloseTUNKeeps, Zenon
    <3> QED
      BY <2>2, <3>1, <3>2, Zenon DEF CloseStep, ServiceClose
  <2>3. CASE SwapStep
    BY <2>3, SwapKeeps, Zenon
  <2>4. CASE ForgetStep
    BY <2>4, ForgetKeeps, Zenon
  <2> QED
    BY <1>5, <2>1, <2>2, <2>3, <2>4, Zenon DEF CallStep
<1>6. ASSUME NEW a \in Apps, Goroutine(a) PROVE SwapInv'
  BY <1>6, UsersKeep, ForwarderKeeps, EndsKeep, Zenon DEF Goroutine, Winding, LoopsEnd, ServeConns, HandlersEnd
<1> QED
  BY <1>1, <1>2, <1>3, <1>4, <1>5, <1>6, Zenon DEF Next

(***************************************************************************)
(* Read and Write of a SwappableTUN give up with os.ErrClosed only once    *)
(* the wrapper is closed, whatever swaps, closes and other users do in     *)
(* between (swappable_tun.go, Read, Write and Swap).                       *)
(***************************************************************************)
THEOREM SwapsAreInvisible == Spec => []SwapInvisible
<1>1. SwapInv => SwapInvisible
  BY Zenon DEF SwapInv, ReadersRight, SwapInvisible
<1> QED
  BY <1>1, InitSwap, NextSwap, PTL DEF Spec
(***************************************************************************)
(* Who owns an open device                                                 *)
(***************************************************************************)

LEMMA InitOwn == Init => OwnInv
<1> SUFFICES ASSUME Init PROVE OwnInv
  OBVIOUS
<1>1. SwapInv
  BY InitSwap, Zenon
<1>2. Ownership
  BY <1>1, Zenon DEF Init, Ownership, Panicked, Running, Globals, Owned, Calling, InitLabels, CloseLabels,
     DropLabels, HasTUN, At, Idle, Types, None
<1> QED
  BY <1>1, <1>2, Zenon DEF OwnInv

(* The globals that hold something hold an application. *)
LEMMA GlobalApps ==
  ASSUME SwapInv
  PROVE  /\ globalApp # None => globalApp \in Apps
         /\ globalSwapTUN # None => globalSwapTUN \in Apps /\ HasTUN(globalSwapTUN)
BY Zenon DEF SwapInv, Types, Numbered

(* Steps that leave devices, wrappers, globals and the call in progress,   *)
(* and stop services at most.                                              *)
LEMMA QuietOwn ==
  ASSUME OwnInv, UNCHANGED <<starts, globalApp, globalSwapTUN, dev, pc>>,
         \A b \in Apps :
           /\ wrap'[b].cur = wrap[b].cur /\ wrap'[b].closed = wrap[b].closed
           /\ HasTUN(b)' <=> HasTUN(b)
           /\ app'[b].vpn = app[b].vpn /\ app'[b].close = app[b].close
           /\ app'[b].Api = app[b].Api /\ app'[b].P2p = app[b].P2p
           /\ app'[b].off = app[b].off /\ app'[b].live \subseteq app[b].live
  PROVE  Ownership'
<1>0. /\ globalApp # None => globalApp \in Apps
      /\ globalSwapTUN # None => globalSwapTUN \in Apps
      /\ At("swapTUN inner") => globalSwapTUN # None
      /\ globalApp # None => (HasTUN(globalApp)' <=> HasTUN(globalApp))
  BY GlobalApps, Zenon DEF OwnInv, SwapInv, InCall
<1>1. \A b \in Apps : Tripped(b) => Tripped(b)'
  BY Zenon DEF Tripped
<1>2. Panicked'
  BY <1>0, <1>1, ZenonT(40) DEF OwnInv, Ownership, Panicked
<1>3. Running'
  BY <1>0, Zenon DEF OwnInv, Ownership, Running, At
<1>4. Globals'
  BY <1>0, Zenon DEF OwnInv, Ownership, Globals, At
<1>5. \A d \in Devs, w \in Apps : OwnedBy(d, w) => OwnedBy(d, w)'
  BY Zenon DEF OwnedBy
<1>6. Owned'
  BY <1>0, <1>5, Zenon DEF OwnInv, Ownership, Owned, At
<1> QED
  BY <1>2, <1>3, <1>4, <1>6, Zenon DEF Ownership

LEMMA GoroutineOwn ==
  ASSUME OwnInv, NEW a \in Apps, Goroutine(a)
  PROVE  Ownership'
<1>1. ASSUME NEW u \in Users, UseTUN(a, u) PROVE Ownership'
  BY <1>1, QuietOwn, Zenon DEF UseTUN, HasTUN
<1>2. CASE forwardEvents(a)
  <2>1. /\ HasTUN(a) /\ wrap[a] \in Wrapper
        /\ UNCHANGED <<starts, app, globalApp, globalSwapTUN, dev, pc>>
    BY <1>2, Zenon DEF forwardEvents, ForwardLoad, ForwardRange, OwnInv, SwapInv, Numbered, Types
  <2>2. \A b \in Apps : /\ wrap'[b].cur = wrap[b].cur /\ wrap'[b].closed = wrap[b].closed
                        /\ HasTUN(b)' <=> HasTUN(b)
    BY <1>2, ForwardsKeep, Zenon DEF OwnInv, HasTUN
  <2> QED
    BY <2>1, <2>2, QuietOwn, Zenon
<1>3. ASSUME NEW s, Ends(a, s) PROVE Ownership'
  <2>1. \A b \in Apps : /\ app'[b].vpn = app[b].vpn /\ app'[b].close = app[b].close
                        /\ app'[b].Api = app[b].Api /\ app'[b].P2p = app[b].P2p
                        /\ app'[b].off = app[b].off /\ app'[b].live \subseteq app[b].live
    <3> DEFINE r == [app[a] EXCEPT !.live = @ \ {s}]
    <3>0. app[a] \in Application /\ app[a].live \ {s} \in SUBSET Services
      BY Zenon DEF OwnInv, SwapInv, Types, Application
    <3>1. /\ r \in Application /\ r.vpn = app[a].vpn /\ r.close = app[a].close
          /\ r.Api = app[a].Api /\ r.P2p = app[a].P2p
          /\ r.off = app[a].off /\ r.live \subseteq app[a].live
      BY <3>0, Zenon DEF Application
    <3>2. app' = [app EXCEPT ![a] = r]
      BY <1>3, Zenon DEF Ends, Stop
    <3> HIDE DEF r
    <3>3. Touches(a, r)
      BY <3>1, <3>2, Rewrites, Zenon DEF OwnInv
    <3> QED
      BY <3>1, <3>3, Zenon DEF Touches
  <2> QED
    BY <1>3, <2>1, QuietOwn, Zenon DEF Ends, HasTUN
<1> QED
  BY <1>1, <1>2, <1>3, Zenon DEF Goroutine, Winding, LoopsEnd, ServeConns, HandlersEnd
(* Between the steps that replace or close a device, an open device has an *)
(* owner that keeps it as long as nobody drops its wrapper.                *)
LEMMA OwnersStay ==
  ASSUME OwnInv, UNCHANGED <<globalSwapTUN, dev, wrap>>,
         pc.at \notin DropLabels \cup {"Swap", "closeOld", "innerClose"},
         \A b \in Apps : app[b].close = "panicked" => app'[b].close = "panicked",
         \A b \in Apps : HasTUN(b) => app'[b].off = app[b].off
  PROVE  Owned'
<1>1. \A d \in Devs, w \in Apps : OwnedBy(d, w) => OwnedBy(d, w)'
  BY Zenon DEF OwnedBy, HasTUN
<1>2. \A d \in Devs : dev[d] = "open" => \E w \in Apps : OwnedBy(d, w)
  BY Zenon DEF OwnInv, Ownership, Owned, At, DropLabels
<1> QED
  BY <1>1, <1>2, Zenon DEF Owned

LEMMA InitStepsOwn ==
  ASSUME OwnInv, NEW a \in Apps, a = globalApp, InitStep(a)
  PROVE  Ownership'
<1>0. /\ UNCHANGED <<starts, globalApp, globalSwapTUN, dev, wrap>>
      /\ a # None /\ a <= starts /\ pc.at \in InitLabels
  BY NoneIsNoApp, Zenon DEF InitStep, NetManagerStart, InitHost, NewDevice, NewSOCKS5, SetupAPI, setupDNS,
     SetupAtStartup, At, InitLabels, OwnInv, SwapInv, Numbered
<1>1. PICK r : /\ Touches(a, r) /\ r.close = app[a].close /\ r.off = app[a].off
               /\ r.vpn = app[a].vpn \/ (At("NewDevice") /\ r.vpn)
  BY InitTouches, Zenon DEF OwnInv
<1>2. /\ app'[a] = r /\ \A b \in Apps \ {a} : app'[b] = app[b]
  BY <1>1, Zenon DEF Touches
<1>3. PICK l \in InitLabels \cup {"idle", "Teardown"} : Goto(l)
  BY Zenon DEF InitStep, NetManagerStart, InitHost, NewDevice, NewSOCKS5, SetupAPI, setupDNS,
         SetupAtStartup, InitLabels
<1>4. pc'.at = l /\ pc'.stop = pc.stop
  BY <1>3, GotoTyped, Zenon DEF OwnInv, Labels, CloseLabels
<1>5. app[a].close # "panicked" /\ ~pc.stop
  BY <1>0, Zenon DEF OwnInv, Ownership, Panicked, Running, Calling
<1>6. HasTUN(a)' <=> HasTUN(a)
  BY <1>0, Zenon DEF HasTUN
<1>7. HasTUN(a) /\ pc'.at \in Calling \ {"NetManager.Start", "InitHost", "NewDevice"} =>
        r.vpn \/ r.off
  <2>1. CASE NewDevice(a) /\ ~Goto("Teardown")
    <3> DEFINE x == [app[a] EXCEPT !.live = @ \cup {"tunnel"}]
    <3>1. Touches(a, [x EXCEPT !.vpn = TRUE])
      BY <2>1, Starts, Zenon DEF NewDevice, Services, OwnInv
    <3>2. app[a] \in Application
      BY Zenon DEF OwnInv, SwapInv, Types
    <3>3. [x EXCEPT !.vpn = TRUE].vpn
      BY <3>2, Zenon DEF Application
    <3>4. [x EXCEPT !.vpn = TRUE] = r
      BY <1>1, <3>1, Zenon DEF Touches
    <3> QED
      BY <3>3, <3>4, Zenon
  <2>2. CASE Goto("Teardown")
    BY <2>2, GotoTyped DEF Labels, CloseLabels, Calling, InitLabels, OwnInv
  <2>3. CASE NetManagerStart(a)
    <3>1. Goto("InitHost") \/ Goto("Teardown")
      BY <2>3, Zenon DEF NetManagerStart
    <3> QED
      BY <2>2, <3>1, GotoTyped, Zenon DEF Labels, InitLabels, OwnInv
  <2>4. CASE InitHost(a)
    <3>1. Goto("NewDevice") \/ app[a].off \/ Goto("Teardown")
      BY <2>4, Zenon DEF InitHost
    <3> QED
      BY <1>1, <2>2, <3>1, GotoTyped, Zenon DEF Labels, InitLabels, OwnInv
  <2>5. CASE NewSOCKS5(a) \/ SetupAPI(a) \/ setupDNS(a) \/ SetupAtStartup(a)
    <3>1. pc.at \in Calling \ {"NetManager.Start", "InitHost", "NewDevice"}
      BY <2>5, Zenon DEF NewSOCKS5, SetupAPI, setupDNS, SetupAtStartup, At, Calling, InitLabels
    <3> QED
      BY <1>0, <1>1, <1>5, <3>1, Zenon DEF OwnInv, Ownership, Running
  <2> QED
    BY <2>1, <2>2, <2>3, <2>4, <2>5, Zenon DEF InitStep
<1>8. /\ pc'.at \notin CloseLabels \/ ~pc'.stop
      /\ pc'.at \notin DropLabels \cup {"forget"} /\ ~pc'.stop
  BY <1>4, <1>5, Zenon DEF InitLabels, CloseLabels, DropLabels
<1>9. pc.at \notin DropLabels \cup {"Swap", "closeOld", "innerClose", "swapTUN inner", "forget"}
  BY <1>0, Zenon DEF InitLabels, DropLabels
<1>10. \A b \in Apps : app'[b].close = app[b].close /\ app'[b].off = app[b].off
  BY <1>1, <1>2, Zenon
<1>11. Panicked'
  BY <1>0, <1>2, <1>5, <1>10, Zenon DEF OwnInv, Ownership, Panicked, Tripped
<1>12. Running'
  BY <1>0, <1>2, <1>6, <1>7, <1>8, Zenon DEF Running, At
<1>13. Globals'
  BY <1>0, <1>8, <1>9, <1>10, GlobalApps, Zenon DEF OwnInv, Ownership, Globals, At
<1>14. Owned'
  BY <1>0, <1>9, <1>10, OwnersStay, Zenon
<1> QED
  BY <1>11, <1>12, <1>13, <1>14, Zenon DEF Ownership
(* The order of Application.Close: each step but the last one goes on to   *)
(* the next, or panics over a field that was set in vain.                  *)
LEMMA CloseOrder ==
  ASSUME NEW a \in Apps, ServiceClose(a)
  PROVE  \/ Panic(a) /\ Tripped(a) /\ pc.at \in {"Api", "P2p"}
         \/ /\ \/ At("Teardown") /\ Goto("ctxCancel")
               \/ At("ctxCancel") /\ Goto("Api")
               \/ At("Tunnel") /\ Goto("SOCKS5")
               \/ At("SOCKS5") /\ Goto("P2p")
               \/ At("Dns") /\ Goto("vpnDevice")
            /\ ~At("Conf")
         \/ At("Api") /\ Goto("Tunnel") /\ ~(app[a].Api /\ "api" \notin app[a].live)
         \/ At("P2p") /\ Goto("Dns") /\ ~(app[a].P2p /\ "host" \notin app[a].live)
         \/ At("Dns") /\ Goto("Conf") /\ ~app[a].vpn
         \/ At("Conf") /\ Goto("forget")
BY DEF ServiceClose, TeardownAtShutdown, ctxCancel, ApiShutdown, TunnelClose, SOCKS5Close,
       P2pClose, DnsClose, ConfClose, Tripped, At

LEMMA ServiceCloseOwn ==
  ASSUME OwnInv, NEW a \in Apps, a = globalApp, ServiceClose(a),
         UNCHANGED <<starts, globalApp, globalSwapTUN, dev, wrap, io, fwd>>
  PROVE  Ownership'
<1>0. a # None /\ a <= starts /\ (HasTUN(a)' <=> HasTUN(a)) /\ starts \in Nat
  BY NoneIsNoApp, Zenon DEF HasTUN, OwnInv, SwapInv, Numbered, Types
<1>1. PICK r : /\ Touches(a, r)
               /\ r.vpn = app[a].vpn /\ r.Api = app[a].Api /\ r.P2p = app[a].P2p
               /\ r.off = app[a].off /\ r.live \subseteq app[a].live \cup {"handlers"}
               /\ \/ r.close = app[a].close
                  \/ At("Conf") /\ r.close = "returned"
                  \/ Panic(a) /\ r.close = "panicked"
  BY CloseTouches, Zenon DEF OwnInv
<1>2. /\ app'[a] = r /\ \A b \in Apps \ {a} : app'[b] = app[b]
  BY <1>1, Zenon DEF Touches
<1>3. Tripped(a) => Tripped(a)'
  BY <1>1, <1>2, Zenon DEF Tripped
<1>4. \A b \in Apps \ {a} : Tripped(b) => Tripped(b)'
  BY <1>2, Zenon DEF Tripped
<1>5. \A b \in Apps : app[b].close = "panicked" => Tripped(b)
  BY Zenon DEF OwnInv, Ownership, Panicked
<1>6. /\ pc.at \notin DropLabels \cup InitLabels \cup {"Swap", "closeOld", "innerClose", "forget", "idle"}
      /\ pc.at \in CloseLabels
  BY CloseOrder, Zenon DEF At, DropLabels, InitLabels, CloseLabels
<1>7. app[a].close = "panicked" =>
        /\ pc.at \notin {"Dns", "Conf"}
        /\ pc.at \in {"Tunnel", "SOCKS5", "P2p"} => app[a].P2p /\ "host" \notin app[a].live
  BY <1>0, Zenon DEF OwnInv, Ownership, Panicked
<1>8. \A b \in Apps : app[b].close = "panicked" => app'[b].close = "panicked"
  BY <1>1, <1>2, <1>7, Zenon DEF At
<1>11. \A b \in Apps : b > starts => b # a /\ app[b].close = "no"
  <2>1. \A b \in Apps : b > starts => b # a
    BY <1>0, BoundsAssumption DEF Apps
  <2> QED
    BY <2>1, Zenon DEF OwnInv, Ownership, Panicked
<1>12. \A b \in Apps : app'[b].off = app[b].off
  BY <1>1, <1>2, Zenon
<1>9. CASE Panic(a) /\ Tripped(a) /\ pc.at \in {"Api", "P2p"}
  <2>1. pc'.at \in {"idle", "crashed"} /\ (pc'.at = "idle" => ~pc'.stop)
    BY <1>9, Zenon DEF Panic, Idle
  <2>2. app'[a].close = "panicked"
    <3>1. app' = [app EXCEPT ![a].close = "panicked"] /\ app[a] \in Application
          /\ app \in [Apps -> Application]
      BY <1>9, Zenon DEF Panic, OwnInv, SwapInv, Types
    <3> QED
      BY <3>1, Zenon DEF Application
  <2>3. Panicked'
    <3>1. \A b \in Apps : app'[b].close = "panicked" => Tripped(b)'
      BY <1>2, <1>3, <1>4, <1>5, <1>9, Zenon
    <3>2. \A b \in Apps : b > starts => app'[b].close = "no"
      BY <1>0, <1>2, <1>11, Zenon
    <3> QED
      BY <2>1, <3>1, <3>2, Zenon DEF Panicked, InitLabels
  <2>4. Running'
    BY <2>1, <2>2, Zenon DEF Running, At, Calling, InitLabels, CloseLabels
  <2>5. Globals'
    BY <1>6, <1>8, <2>1, GlobalApps, Zenon DEF OwnInv, Ownership, Globals, At, DropLabels
  <2> QED
    BY <1>6, <1>8, <1>12, <2>3, <2>4, <2>5, OwnersStay, Zenon DEF Ownership
<1>10. CASE ~(Panic(a) /\ Tripped(a) /\ pc.at \in {"Api", "P2p"})
  <2>1. PICK l \in CloseLabels \cup {"forget"} : Goto(l) /\
          \/ pc.at \in {"Teardown", "ctxCancel"} /\ l \in {"ctxCancel", "Api"}
          \/ pc.at \in {"Tunnel", "SOCKS5"} /\ l \in {"SOCKS5", "P2p"}
          \/ pc.at = "Dns" /\ l = "vpnDevice"
          \/ pc.at = "Api" /\ l = "Tunnel" /\ ~(app[a].Api /\ "api" \notin app[a].live)
          \/ pc.at = "P2p" /\ l = "Dns" /\ ~(app[a].P2p /\ "host" \notin app[a].live)
          \/ pc.at = "Dns" /\ l = "Conf" /\ ~app[a].vpn
          \/ pc.at = "Conf" /\ l = "forget"
    BY <1>10, CloseOrder, Zenon DEF At, CloseLabels
  <2>2. pc'.at = l /\ pc'.stop = pc.stop
    BY <2>1, GotoTyped, Zenon DEF Labels, OwnInv
  <2>3. ~Panic(a)
    BY <2>1, <2>2 DEF Panic, Idle, CloseLabels
  <2>4. app'[a].close = app[a].close \/ (pc.at = "Conf" /\ app'[a].close = "returned")
    BY <1>1, <1>2, <2>3, Zenon DEF At
  <2>5. Panicked'
    <3>1. \A b \in Apps : app'[b].close = "panicked" => Tripped(b)'
      BY <1>2, <1>3, <1>4, <1>5, <2>4, Zenon
    <3>2. \A b \in Apps : b > starts => app'[b].close = "no"
      BY <1>0, <1>2, <1>11, Zenon
    <3>3. app'[a].close = "panicked" =>
            /\ l \notin {"Dns", "vpnDevice", "Conf", "forget"}
            /\ l \in {"Tunnel", "SOCKS5", "P2p"} => app[a].P2p /\ "host" \notin app[a].live
      BY <1>5, <1>7, <2>1, <2>4, Zenon DEF Tripped
    <3>4. l \notin InitLabels \cup {"innerClose"}
      BY <2>1, Zenon DEF InitLabels
    <3>5. app'[a].close = "panicked" /\ l \in {"Tunnel", "SOCKS5", "P2p"} =>
            app'[a].P2p /\ "host" \notin app'[a].live
      BY <1>1, <1>2, <3>3, Zenon
    <3> QED
      BY <2>2, <3>1, <3>2, <3>3, <3>4, <3>5, Zenon DEF Panicked
  <2>6. Running'
    <3>1. l \notin Calling /\ (l # "forget" => pc.at # "Conf")
      BY <2>1, Zenon DEF Calling, InitLabels, CloseLabels
    <3>2. l # "forget" /\ HasTUN(a) /\ app'[a].close # "panicked" /\ pc.stop =>
            app'[a].vpn \/ app'[a].off
      BY <1>0, <1>1, <1>2, <1>6, <2>4, <3>1, Zenon DEF OwnInv, Ownership, Running
    <3>3. l = "Conf" /\ pc.stop => ~HasTUN(a) \/ app'[a].off
      BY <1>0, <1>12, <1>6, <1>7, <2>1, Zenon DEF OwnInv, Ownership, Running
    <3>4. "forget" \notin CloseLabels
      BY Zenon DEF CloseLabels
    <3> QED
      BY <1>0, <2>2, <3>1, <3>2, <3>3, <3>4, Zenon DEF Running, At
  <2>7. Globals'
    <3>1. globalSwapTUN # None => globalSwapTUN = a \/ app'[globalSwapTUN].close = "panicked"
      BY <1>6, <1>8, GlobalApps, Zenon DEF OwnInv, Ownership, Globals
    <3>2. l = "forget" /\ pc.stop /\ globalSwapTUN = a => wrap[a].closed \/ app'[a].off
      BY <1>0, <1>12, <2>1, GlobalApps, Zenon DEF OwnInv, Ownership, Running, At, CloseLabels
    <3>3. l \notin DropLabels
      BY <2>1, Zenon DEF DropLabels
    <3> QED
      BY <2>2, <3>1, <3>2, <3>3, Zenon DEF Globals, At
  <2> QED
    BY <1>6, <1>8, <1>12, <2>5, <2>6, <2>7, OwnersStay, Zenon DEF Ownership
<1> QED
  BY <1>9, <1>10, Zenon
(* Marking a wrapper closed hands its device to the call that marks it. *)
LEMMA MarkOwned ==
  ASSUME OwnInv, NEW w \in Apps, Marked(w), UNCHANGED <<app, globalApp, globalSwapTUN, dev>>,
         pc.at \notin {"Swap", "closeOld", "innerClose", "swapTUN inner"},
         ~wrap[w].closed =>
           \/ pc'.at = "innerClose" /\ globalApp = w
           \/ pc'.at = "swapTUN inner" /\ globalSwapTUN = w
  PROVE  Owned'
<1>1. /\ \A b \in Apps : wrap'[b].cur = wrap[b].cur /\ (HasTUN(b)' <=> HasTUN(b))
      /\ \A b \in Apps \ {w} : wrap'[b].closed = wrap[b].closed
  BY Zenon DEF Marked, HasTUN
<1>2. \A d \in Devs, v \in Apps \ {w} : OwnedBy(d, v) => OwnedBy(d, v)'
  BY <1>1, Zenon DEF OwnedBy
<1>3. \A d \in Devs : dev[d] = "open" => \E v \in Apps : OwnedBy(d, v)
  BY Zenon DEF OwnInv, Ownership, Owned, At
<1>4. \A d \in Devs : OwnedBy(d, w) => wrap'[w].cur = d /\ ~wrap[w].closed
  BY <1>1, Zenon DEF OwnedBy
<1> QED
  BY <1>2, <1>3, <1>4, NoneIsNoApp, Zenon DEF Owned, At

(* Closing the device the call in progress holds. *)
LEMMA CloseOwned ==
  ASSUME OwnInv, UNCHANGED <<app, globalApp, globalSwapTUN, wrap>>,
         NEW d \in Devs, dev' = [dev EXCEPT ![d] = "closed"],
         pc.at \in {"Swap", "closeOld"} => pc.dev = d,
         pc.at = "innerClose" /\ globalApp # None => wrap[globalApp].cur = d,
         pc.at = "swapTUN inner" => wrap[globalSwapTUN].cur = d
  PROVE  Owned'
<1>1. \A e \in Devs : dev'[e] = "open" => dev[e] = "open" /\ e # d
  BY Zenon DEF OwnInv, SwapInv, Types
<1>2. \A e \in Devs, w \in Apps : OwnedBy(e, w) => OwnedBy(e, w)'
  BY Zenon DEF OwnedBy, HasTUN
<1>3. \A e \in Devs : dev[e] = "open" /\ e # d => \E w \in Apps : OwnedBy(e, w)
  BY Zenon DEF OwnInv, Ownership, Owned, At
<1> QED
  BY <1>1, <1>2, <1>3, Zenon DEF Owned

(* Application.Close closes the wrapper of the application. *)
LEMMA CloseVpnOwn ==
  ASSUME OwnInv, NEW a \in Apps, a = globalApp, CloseTUN(a, "vpnDevice", "innerClose", "Conf"),
         UNCHANGED <<starts, app, globalApp, globalSwapTUN, io, fwd>>
  PROVE  Ownership'
<1>0. a # None /\ pc.at \in {"vpnDevice", "innerClose"}
  BY NoneIsNoApp, Zenon DEF CloseTUN, At
<1>1. HasTUN(a) /\ app[a].close # "panicked"
  BY <1>0, Zenon DEF OwnInv, SwapInv, Numbered, Ownership, Panicked
<1>2. PICK l \in {"innerClose", "Conf"} : Goto(l)
  BY Zenon DEF CloseTUN
<1>3. pc'.at = l /\ pc'.stop = pc.stop
  BY <1>2, GotoTyped, Zenon DEF OwnInv, Labels, CloseLabels
<1>4. /\ l = "Conf" => wrap'[a].closed
      /\ HasTUN(a)' <=> HasTUN(a)
      /\ \A b \in Apps : wrap[b].closed => wrap'[b].closed
      /\ Owned'
  <2>1. CASE At("vpnDevice") /\ wrap' = [wrap EXCEPT ![a].closed = TRUE] /\ UNCHANGED dev
             /\ Goto(IF wrap[a].closed THEN "Conf" ELSE "innerClose")
    <3>1. Marked(a)
      BY <2>1, Marks, Zenon DEF OwnInv
    <3>2. ~wrap[a].closed => pc'.at = "innerClose"
      BY <2>1, GotoTyped, Zenon DEF OwnInv, Labels, CloseLabels
    <3>3. Owned'
      BY <2>1, <3>1, <3>2, MarkOwned, Zenon DEF At
    <3> QED
      BY <3>1, <3>3, Zenon DEF Marked, HasTUN
  <2>2. CASE At("innerClose") /\ dev' = [dev EXCEPT ![wrap[a].cur] = "closed"] /\ UNCHANGED wrap
    <3>1. wrap[a].cur \in Devs /\ wrap[a].closed
      BY <1>0, <1>1, <2>2, Zenon DEF OwnInv, SwapInv, Held, InCall
    <3>n. PICK d \in Devs : d = wrap[a].cur
      BY <3>1, Zenon
    <3>2. Owned'
      BY <2>2, <3>n, CloseOwned, Zenon DEF At
    <3> QED
      BY <2>2, <3>1, <3>2, Zenon DEF HasTUN
  <2> QED
    BY <2>1, <2>2, Zenon DEF CloseTUN
<1>5. Panicked'
  BY <1>1, Zenon DEF OwnInv, Ownership, Panicked, Tripped
<1>6. Running'
  <2>1. pc'.at \notin Calling /\ pc.at \in CloseLabels
    BY <1>0, <1>3, Zenon DEF Calling, InitLabels, CloseLabels
  <2>2. pc.stop => app[a].vpn \/ app[a].off
    BY <1>0, <1>1, <2>1, Zenon DEF OwnInv, Ownership, Running
  <2> QED
    BY <1>0, <1>1, <1>3, <1>4, <2>1, <2>2, Zenon DEF Running, At
<1>7. Globals'
  <2>1. pc.at \notin DropLabels /\ pc'.at \notin DropLabels \cup {"forget"}
    BY <1>0, <1>3, Zenon DEF DropLabels
  <2> QED
    BY <2>1, Zenon DEF OwnInv, Ownership, Globals, At
<1> QED
  BY <1>4, <1>5, <1>6, <1>7, Zenon DEF Ownership
(* What a call does once it has left the application: Panicked and Running *)
(* say nothing more of it.                                                 *)
LEMMA Left ==
  ASSUME OwnInv, UNCHANGED <<starts, app>>, globalApp' = None,
         pc'.at \in DropLabels \cup {"idle"}, pc'.at = "idle" => ~pc'.stop
  PROVE  Panicked' /\ Running'
BY Zenon DEF OwnInv, Ownership, Panicked, Tripped, Running, DropLabels, Calling, InitLabels

LEMMA ForgetOwn ==
  ASSUME OwnInv, ForgetStep
  PROVE  Ownership'
<1>0. UNCHANGED <<starts, app, io, fwd>> /\ Idle.at = "idle" /\ ~Idle.stop
  BY Zenon DEF ForgetStep, Idle
<1>1. ASSUME At("forget"), globalApp' = None, UNCHANGED <<dev, wrap>>,
             IF pc.stop \/ globalSwapTUN = None
             THEN globalSwapTUN' = None /\ pc' = Idle
             ELSE UNCHANGED globalSwapTUN /\ Goto("swapTUN")
      PROVE  Ownership'
  <2>1. /\ pc'.at \in {"idle", "swapTUN"} /\ (pc'.at = "idle" => ~pc'.stop)
        /\ globalSwapTUN' = None \/ (globalSwapTUN' = globalSwapTUN /\ pc'.at = "swapTUN")
    BY <1>0, <1>1, GotoTyped, Zenon DEF OwnInv, Labels, DropLabels
  <2>2. Panicked' /\ Running'
    BY <1>0, <1>1, <2>1, Left, Zenon DEF DropLabels
  <2>3. Globals'
    BY <1>1, <2>1, Zenon DEF Globals, At, DropLabels
  <2>4. Owned'
    <3>1. \A d \in Devs : dev[d] = "open" => \E w \in Apps : OwnedBy(d, w)
      BY <1>1, Zenon DEF OwnInv, Ownership, Owned, At
    <3>2. globalSwapTUN' # globalSwapTUN => pc.stop
      BY <1>1, Zenon
    <3>3. pc.stop /\ globalSwapTUN # None /\ ~wrap[globalSwapTUN].closed =>
            app[globalSwapTUN].off \/ app[globalSwapTUN].close = "panicked"
      BY <1>1, Zenon DEF OwnInv, Ownership, Globals
    <3>4. \A d \in Devs, w \in Apps : OwnedBy(d, w) => OwnedBy(d, w)'
      BY <1>0, <1>1, <3>2, <3>3, NoneIsNoApp, Zenon DEF OwnedBy, HasTUN
    <3> QED
      BY <1>1, <3>1, <3>4, Zenon DEF Owned
  <2> QED
    BY <2>2, <2>3, <2>4, Zenon DEF Ownership
<1>2. ASSUME At("dropTUN"), globalSwapTUN' = None, pc' = Idle, UNCHANGED <<globalApp, dev, wrap>>
      PROVE  Ownership'
  <2>1. globalApp = None /\ wrap[globalSwapTUN].closed
    BY <1>2, Zenon DEF OwnInv, SwapInv, InCall, Ownership, Globals, At, DropLabels
  <2>2. Panicked' /\ Running'
    BY <1>0, <1>2, <2>1, Left, Zenon
  <2>3. Globals'
    BY <1>0, <1>2, Zenon DEF Globals, At, DropLabels
  <2>4. Owned'
    <3>1. \A d \in Devs : dev[d] = "open" => \E w \in Apps : OwnedBy(d, w)
      BY <1>2, Zenon DEF OwnInv, Ownership, Owned, At
    <3>2. \A d \in Devs, w \in Apps : OwnedBy(d, w) => OwnedBy(d, w)'
      BY <1>0, <1>2, <2>1, Zenon DEF OwnedBy, HasTUN
    <3> QED
      BY <1>2, <3>1, <3>2, Zenon DEF Owned
  <2> QED
    BY <2>2, <2>3, <2>4, Zenon DEF Ownership
<1>3. ASSUME CloseTUN(globalSwapTUN, "swapTUN", "swapTUN inner", "dropTUN"),
             UNCHANGED <<globalApp, globalSwapTUN>>
      PROVE  Ownership'
  <2>n. PICK w : w = globalSwapTUN
    OBVIOUS
  <2>0. pc.at \in {"swapTUN", "swapTUN inner"}
    BY <1>3, Zenon DEF CloseTUN, At
  <2>1. w # None /\ w \in Apps /\ HasTUN(w) /\ globalApp = None
    BY <2>n, <2>0, GlobalApps, Zenon DEF OwnInv, SwapInv, InCall, At, Ownership, Globals, DropLabels
  <2>2. CloseTUN(w, "swapTUN", "swapTUN inner", "dropTUN")
    BY <1>3, <2>n, Zenon
  <2>3. PICK l \in {"swapTUN inner", "dropTUN"} : Goto(l)
    BY <2>2, Zenon DEF CloseTUN
  <2>4. pc'.at = l
    BY <2>3, GotoTyped, Zenon DEF OwnInv, Labels, DropLabels
  <2>5. Panicked' /\ Running'
    BY <1>0, <1>3, <2>1, <2>4, Left, Zenon DEF DropLabels
  <2>6. Globals'
    BY <1>3, <2>1, <2>4, Zenon DEF Globals, At, DropLabels
  <2>7. CASE At("swapTUN") /\ wrap' = [wrap EXCEPT ![w].closed = TRUE] /\ UNCHANGED dev
             /\ Goto(IF wrap[w].closed THEN "dropTUN" ELSE "swapTUN inner")
    <3>1. Marked(w)
      BY <2>1, <2>7, Marks, Zenon DEF OwnInv
    <3>2. ~wrap[w].closed => pc'.at = "swapTUN inner"
      BY <2>7, GotoTyped, Zenon DEF OwnInv, Labels, DropLabels
    <3>3. Owned'
      BY <1>0, <1>3, <2>n, <2>1, <2>7, <3>1, <3>2, MarkOwned, Zenon DEF At
    <3> QED
      BY <2>5, <2>6, <3>3, Zenon DEF Ownership
  <2>8. CASE At("swapTUN inner") /\ dev' = [dev EXCEPT ![wrap[w].cur] = "closed"] /\ UNCHANGED wrap
    <3>n. PICK d \in Devs : d = wrap[w].cur
      BY <2>1, Zenon DEF OwnInv, SwapInv, Held
    <3>1. Owned'
      BY <1>0, <1>3, <2>n, <2>8, <3>n, CloseOwned, Zenon DEF At
    <3> QED
      BY <2>5, <2>6, <3>1, Zenon DEF Ownership
  <2> QED
    BY <2>2, <2>7, <2>8, Zenon DEF CloseTUN
<1> QED
  BY <1>1, <1>2, <1>3, Zenon DEF ForgetStep, Forget
(* A call of UpdateTunDevice: the application goes on as it is. *)
LEMMA Updates ==
  ASSUME OwnInv, UNCHANGED <<starts, app, globalApp, globalSwapTUN>>,
         pc.at \in {"idle", "Swap", "closeOld"}, pc'.at \in {"idle", "Swap", "closeOld"}, ~pc'.stop,
         \A b \in Apps : HasTUN(b)' <=> HasTUN(b)
  PROVE  Panicked' /\ Running' /\ Globals'
<1>0. globalApp # None => globalApp \in Apps /\ (HasTUN(globalApp)' <=> HasTUN(globalApp))
  BY GlobalApps, Zenon DEF OwnInv
<1>1. Panicked'
  BY Zenon DEF OwnInv, Ownership, Panicked, Tripped, InitLabels
<1>2. Running'
  BY <1>0, Zenon DEF OwnInv, Ownership, Running, Calling, CloseLabels, At
<1>3. Globals'
  BY Zenon DEF OwnInv, Ownership, Globals, DropLabels, At
<1> QED
  BY <1>1, <1>2, <1>3, Zenon

LEMMA UpdateOwn ==
  ASSUME OwnInv, UpdateTunDevice
  PROVE  Ownership'
<1>n. PICK d : d = FreshDev
  OBVIOUS
<1>1. /\ d \in Devs /\ dev' = [dev EXCEPT ![d] = "open"] /\ pc.at = "idle"
      /\ pc'.at = "Swap" /\ pc'.dev = d /\ ~pc'.stop
      /\ UNCHANGED <<starts, app, globalApp, globalSwapTUN, wrap>>
  BY <1>n, FreshIsNew, Zenon DEF UpdateTunDevice, Idle
<1>2. Panicked' /\ Running' /\ Globals'
  BY <1>1, Updates, Zenon DEF HasTUN
<1>3. \A e \in Devs : dev'[e] = "open" => e = d \/ dev[e] = "open"
  BY <1>1, Zenon DEF OwnInv, SwapInv, Types
<1>4. \A e \in Devs, w \in Apps : OwnedBy(e, w) => OwnedBy(e, w)'
  BY <1>1, Zenon DEF OwnedBy, HasTUN
<1>5. \A e \in Devs : dev[e] = "open" => \E w \in Apps : OwnedBy(e, w)
  BY <1>1, Zenon DEF OwnInv, Ownership, Owned, At
<1>6. Owned'
  BY <1>1, <1>3, <1>4, <1>5, Zenon DEF Owned, At
<1> QED
  BY <1>2, <1>6, Zenon DEF Ownership

LEMMA SwapOwn ==
  ASSUME OwnInv, SwapStep
  PROVE  Ownership'
<1>n. PICK w, d : w = globalSwapTUN /\ d = pc.dev
  OBVIOUS
<1>0. /\ pc.at \in {"Swap", "closeOld"} /\ ~pc.stop
      /\ UNCHANGED <<starts, app, globalApp, globalSwapTUN>>
  BY Zenon DEF SwapStep, At, OwnInv, Ownership, Running, Calling
<1>1. w \in Apps /\ HasTUN(w) /\ wrap[w] \in Wrapper /\ d \in Devs
  BY <1>n, <1>0, GlobalApps, Zenon DEF OwnInv, SwapInv, InCall, At, Types
<1>2. ASSUME dev' = [dev EXCEPT ![d] = "closed"], pc' = Idle, UNCHANGED wrap
      PROVE  Ownership'
  <2>1. pc'.at = "idle" /\ ~pc'.stop
    BY <1>2, Zenon DEF Idle
  <2>2. Panicked' /\ Running' /\ Globals'
    BY <1>0, <1>2, <2>1, Updates, Zenon DEF HasTUN
  <2>3. Owned'
    BY <1>n, <1>0, <1>1, <1>2, CloseOwned, Zenon
  <2> QED
    BY <2>2, <2>3, Zenon DEF Ownership
<1>3. ASSUME wrap' = [wrap EXCEPT ![w].cur = d], UNCHANGED dev, ~wrap[w].closed,
             pc' = [pc EXCEPT !.at = "closeOld", !.dev = wrap[w].cur]
      PROVE  Ownership'
  <2> DEFINE r == [wrap[w] EXCEPT !.cur = d]
  <2>1. r \in Wrapper /\ r.cur = d /\ r.closed = wrap[w].closed /\ r.events = wrap[w].events
    BY <1>1, Zenon DEF Wrapper
  <2>2. wrap' = [wrap EXCEPT ![w] = r]
    BY <1>3, Zenon
  <2> HIDE DEF r
  <2>3. wrap'[w] = r /\ \A b \in Apps : b # w => wrap'[b] = wrap[b]
    BY <1>1, <2>1, <2>2, Rewraps, Zenon DEF OwnInv
  <2>4. \A b \in Apps : HasTUN(b)' <=> HasTUN(b)
    BY <2>1, <2>3, Zenon DEF HasTUN
  <2>5. pc'.at = "closeOld" /\ pc'.stop = pc.stop /\ pc'.dev = wrap[w].cur
    BY <1>3, Zenon DEF OwnInv, SwapInv, Types
  <2>6. Panicked' /\ Running' /\ Globals'
    BY <1>0, <2>4, <2>5, Updates, Zenon
  <2>7. OwnedBy(d, w)'
    BY <1>n, <1>0, <1>1, <1>3, <2>1, <2>3, <2>4, Zenon DEF OwnedBy
  <2>8. \A e \in Devs, v \in Apps : OwnedBy(e, v) => (v = w /\ e = wrap[w].cur) \/ OwnedBy(e, v)'
    BY <1>0, <2>3, <2>4, Zenon DEF OwnedBy
  <2>9. \A e \in Devs : dev[e] = "open" => e = d \/ \E v \in Apps : OwnedBy(e, v)
    BY <1>n, <1>0, Zenon DEF OwnInv, Ownership, Owned, At
  <2>10. Owned'
    BY <1>1, <1>3, <2>5, <2>7, <2>8, <2>9, Zenon DEF Owned, At
  <2> QED
    BY <2>6, <2>10, Zenon DEF Ownership
<1> QED
  BY <1>n, <1>2, <1>3, Zenon DEF SwapStep, Swap

LEMMA StopOwn ==
  ASSUME OwnInv, StopServer
  PROVE  Ownership'
<1>1. /\ pc.at = "idle" /\ pc'.at = IF globalApp = None THEN "forget" ELSE "Teardown"
      /\ UNCHANGED <<starts, app, globalApp, globalSwapTUN, dev, wrap>>
  BY Zenon DEF StopServer, Idle
<1>2. Panicked'
  BY <1>1, Zenon DEF OwnInv, Ownership, Panicked, Tripped, InitLabels
<1>3. Running'
  BY <1>1, Zenon DEF OwnInv, Ownership, Running, Calling, CloseLabels, InitLabels, HasTUN, At
<1>4. Globals'
  BY <1>1, GlobalApps, NoneIsNoApp, Zenon DEF OwnInv, Ownership, Globals, DropLabels, At
<1>5. Owned'
  BY <1>1, OwnersStay, Zenon DEF DropLabels
<1> QED
  BY <1>2, <1>3, <1>4, <1>5, Zenon DEF Ownership
(* StartServer: a wrapper the package still holds is that of an            *)
(* application whose Close panicked.                                       *)
LEMMA StartOwn ==
  ASSUME OwnInv, NEW fd, NEW off \in BOOLEAN, StartServer(fd, off)
  PROVE  Ownership'
<1>n. PICK a : a = starts + 1
  OBVIOUS
<1> DEFINE r == [app[a] EXCEPT !.live = {"writer"}, !.off = off]
<1>0. /\ a \in Apps /\ a # None /\ ~HasTUN(a)
      /\ Touches(a, r) /\ r.close = app[a].close
  BY <1>n, NextApp, Zenon DEF OwnInv
<1>1. /\ starts' = a /\ pc = Idle /\ starts \in Nat /\ Idle.at = "idle" /\ ~Idle.stop
      /\ globalApp # None => app[globalApp].close = "panicked"
  BY <1>n, Zenon DEF StartServer, OwnInv, SwapInv, Types, Idle
<1> HIDE DEF r
<1>2. app'[a] = r /\ \A b \in Apps : b # a => app'[b] = app[b]
  BY <1>0, Zenon DEF Touches
<1>3. app[a].close = "no" /\ \A b \in Apps : b > a => app[b].close = "no"
  <2>1. a > starts /\ \A b \in Apps : b > a => b > starts
    BY <1>n, <1>1, BoundsAssumption DEF Apps
  <2> QED
    BY <1>0, <2>1, Zenon DEF OwnInv, Ownership, Panicked
<1>4. \A b \in Apps : app'[b].close = app[b].close
  BY <1>0, <1>2, Zenon
<1>5. globalSwapTUN # None =>
        globalSwapTUN \in Apps /\ globalSwapTUN # a /\ app[globalSwapTUN].close = "panicked"
  BY <1>0, <1>1, GlobalApps, Zenon DEF OwnInv, Ownership, Globals, DropLabels
<1>6. /\ globalApp' \in {a, None} /\ ~pc'.stop
      /\ pc'.at = "NetManager.Start" \/ (pc'.at = "idle" /\ globalApp' = None)
  BY <1>n, <1>1, Zenon DEF StartServer, Idle
<1>7. Panicked'
  <2>1. \A b \in Apps : app'[b].close = "panicked" => b # a /\ Tripped(b)'
    BY <1>2, <1>3, <1>4 DEF OwnInv, Ownership, Panicked, Tripped
  <2>2. \A b \in Apps : b > starts' => app'[b].close = "no"
    BY <1>1, <1>3, <1>4, Zenon
  <2>3. globalApp' # None => app'[globalApp'].close # "panicked"
    BY <1>0, <1>3, <1>4, <1>6, Zenon
  <2> QED
    BY <2>1, <2>2, <2>3, Zenon DEF Panicked
<1>8. Running'
  BY <1>6, Zenon DEF Running, CloseLabels, At
<1>9. \A d \in Devs : dev[d] = "open" => \E w \in Apps :
        /\ HasTUN(w) /\ w # a /\ wrap[w].cur = d /\ ~wrap[w].closed
        /\ app[w].off \/ app[w].close = "panicked"
  <2>1. \A d \in Devs : dev[d] = "open" => \E w \in Apps : OwnedBy(d, w)
    BY <1>1, Zenon DEF OwnInv, Ownership, Owned, At
  <2> QED
    BY <1>0, <1>5, <2>1, NoneIsNoApp DEF OwnedBy
<1>12. \A b \in Apps : HasTUN(b) => b # a /\ app'[b].off = app[b].off
  BY <1>0, <1>2, Zenon
<1>10. CASE fd \in {"zero", "bad"}
  <2>1. UNCHANGED <<globalSwapTUN, dev, wrap>>
    BY <1>10, Zenon DEF StartServer
  <2>2. Globals'
    BY <1>4, <1>5, <1>6, <2>1, Zenon DEF Globals, DropLabels, At
  <2>3. Owned'
    BY <1>1, <1>4, <1>12, <2>1, OwnersStay, Zenon DEF DropLabels
  <2> QED
    BY <1>7, <1>8, <2>2, <2>3, Zenon DEF Ownership
<1>11. CASE fd = "good"
  <2> DEFINE v == [cur |-> FreshDev, closed |-> FALSE, events |-> "open"]
  <2>n. PICK f : f = FreshDev
    OBVIOUS
  <2>1. /\ FreshDev # None /\ globalApp' = a /\ globalSwapTUN' = a
        /\ dev' = [dev EXCEPT ![f] = "open"]
        /\ wrap' = [wrap EXCEPT ![a] = v]
    BY <1>n, <1>11, <2>n, Zenon DEF StartServer
  <2>2. f \in Devs /\ v \in Wrapper /\ v.cur = f /\ ~v.closed /\ v.events = "open"
    BY <2>n, <2>1, FreshIsNew, Zenon DEF Wrapper
  <2> HIDE DEF v
  <2>3. wrap'[a] = v /\ \A b \in Apps : b # a => wrap'[b] = wrap[b]
    BY <1>0, <2>1, <2>2, Rewraps, Zenon DEF OwnInv
  <2>4. \A e \in Devs : dev'[e] = "open" => e = f \/ dev[e] = "open"
    BY <2>1, <2>2, Zenon DEF OwnInv, SwapInv, Types
  <2>5. Globals'
    BY <1>6, <2>1, Zenon DEF Globals, DropLabels, At
  <2>6. OwnedBy(f, a)'
    BY <1>0, <2>1, <2>2, <2>3, Zenon DEF OwnedBy, HasTUN
  <2>7. \A e \in Devs : dev[e] = "open" => \E w \in Apps : OwnedBy(e, w)'
    BY <1>4, <1>9, <1>12, <2>3 DEF OwnedBy, HasTUN
  <2>8. Owned'
    BY <1>0, <2>4, <2>6, <2>7, Zenon DEF Owned
  <2> QED
    BY <1>7, <1>8, <2>5, <2>8, Zenon DEF Ownership
<1> QED
  BY <1>10, <1>11, Zenon DEF StartServer

LEMMA NextOwn ==
  ASSUME OwnInv, [Next]_vars
  PROVE  OwnInv'
<1> SUFFICES Ownership'
  BY NextSwap, Zenon DEF OwnInv
<1>1. CASE UNCHANGED vars
  BY <1>1, QuietOwn, Zenon DEF vars, HasTUN
<1>2. ASSUME NEW fd \in {"zero", "bad", "good"}, NEW off \in BOOLEAN, StartServer(fd, off)
      PROVE  Ownership'
  BY <1>2, StartOwn, Zenon
<1>3. CASE UpdateTunDevice
  BY <1>3, UpdateOwn, Zenon
<1>4. CASE StopServer
  BY <1>4, StopOwn, Zenon
<1>5. CASE CallStep
  <2>1. ASSUME NEW a \in Apps, a = globalApp, InitStep(a) PROVE Ownership'
    BY <2>1, InitStepsOwn, Zenon
  <2>2. ASSUME NEW a \in Apps, a = globalApp, CloseStep(a) PROVE Ownership'
    BY <2>2, ServiceCloseOwn, CloseVpnOwn, Zenon DEF CloseStep, ServiceClose
  <2>3. CASE SwapStep
    BY <2>3, SwapOwn, Zenon
  <2>4. CASE ForgetStep
    BY <2>4, ForgetOwn, Zenon
  <2> QED
    BY <1>5, <2>1, <2>2, <2>3, <2>4, Zenon DEF CallStep
<1>6. ASSUME NEW a \in Apps, Goroutine(a) PROVE Ownership'
  BY <1>6, GoroutineOwn, Zenon
<1> QED
  BY <1>1, <1>2, <1>3, <1>4, <1>5, <1>6, Zenon DEF Next

(***************************************************************************)
(* Between two calls of the host every open TUN device is the current one  *)
(* of the wrapper the package holds, of an application whose Close         *)
(* panicked, or of one whose config disables the VPN: no other descriptor  *)
(* handed over is lost, on the error paths either (cmd/gomobile-lib/       *)
(* main.go, StartServer, UpdateTunDevice, StopServer).                     *)
(***************************************************************************)
THEOREM DevicesAreOwned == Spec => []DevicesOwned
<1>1. OwnInv => DevicesOwned
  <2> SUFFICES ASSUME OwnInv, pc = Idle, NEW d \in Devs, dev[d] = "open"
               PROVE  \E w \in Apps : OwnedBy(d, w)
    BY Zenon DEF DevicesOwned, OwnedBy
  <2>1. pc.at = "idle"
    BY Zenon DEF Idle
  <2> QED
    BY <2>1, Zenon DEF OwnInv, Ownership, Owned, At
<1> QED
  BY <1>1, InitOwn, NextOwn, PTL DEF Spec
==============================================================================
