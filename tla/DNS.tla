-------------------------------- MODULE DNS --------------------------------
(***************************************************************************)
(* The DNS service of application.go and the resolver of awldns.go.  The     *)
(* service holds its mutex over a list of steps (todo): reading the names   *)
(* of the configuration, once per address family, publishing them to the    *)
(* resolver, subscribing to changes, and telling the operating system which *)
(* queries to send here.  The configuration has its own lock, changes       *)
(* between those steps, and emits the event of a change after unlocking.    *)
(* Nothing here keeps addresses apart: IPv4 addresses repeat when the       *)
(* subnet is full, IPv6 addresses are whatever the remote peers report.     *)
(***************************************************************************)
EXTENDS Naturals, Sequences, FiniteSets

CONSTANTS
  Peers,
  Domains,         \* domain names a peer can be given
  Addr4, Addr6,    \* addresses a peer can have
  AdminIP,         \* AdminHttpServerIP
  None,
  Saved,           \* bound: peer records the saved configuration can hold
  MaxChanges       \* bound: changes of the configuration, of the mode, failures

Admin == "admin"                       \* AdminHttpServerDomainName
Names == Peers \cup Domains \cup {Admin}
Addr == Addr4 \cup Addr6 \cup {AdminIP}
KnownPeer == [name : Domains \cup {None}, ip4 : Addr4, ip6 : Addr6 \cup {None}]

\* A peer ID is never a domain name.
ASSUME NamesAssumption == Peers \cap (Domains \cup {Admin}) = {}
ASSUME SavedAssumption == Saved \subseteq KnownPeer
ASSUME NoneAssumption == None \notin Names \cup Addr \cup KnownPeer

VARIABLES
  android, split,    \* platform; the OS can route by domain
  conf,              \* conf[p]: the KnownPeer, None if p is unknown
  emits,             \* changes whose KnownPeerChanged is not emitted yet
  last,              \* the bus holds a last event for new subscribers
  events,            \* events the callback has not handled yet
  subscribed,        \* the callback is registered
  todo,              \* steps left for the holder of the mutex
  got4,              \* IPv4 names read by the refresh under way
  cfg,               \* what the resolver answers from
  upstream, force, isSystem, configurator,  \* fields of DNSService
  os,                \* what the OS sends here: "none", "awl" or "all"
  failed,            \* the OS refused the last configuration
  started,
  stage,             \* of the application: "running", "cancelled" or "closed"
  changes

bus == <<emits, last, events, subscribed>>
flags == <<upstream, force, isSystem, configurator>>
vars == <<android, split, conf, bus, todo, got4, cfg, flags, os, failed, started,
          stage, changes>>

Empty == [n \in Names |-> None]
NoConfig == [up |-> None, v4 |-> Empty, v6 |-> Empty, rev |-> [a \in Addr |-> {}]]

Init ==
  /\ android \in BOOLEAN /\ split \in BOOLEAN
  /\ conf \in [Peers -> Saved \cup {None}]
  /\ force = FALSE /\ upstream = None /\ isSystem = FALSE /\ configurator = FALSE
  /\ emits = 0 /\ last = FALSE /\ events = 0 /\ subscribed = FALSE
  /\ todo = <<>> /\ got4 = Empty
  /\ cfg = NoConfig /\ os = "none" /\ failed = FALSE
  /\ started = FALSE /\ stage = "running" /\ changes = 0

Known == {p \in Peers : conf[p] # None}
\* A peer is named by its ID and by its domain name, when it has one.
Owners(n) == {p \in Known : n = p \/ conf[p].name = n}
ip4 == [p \in Known |-> conf[p].ip4]
ip6 == [p \in Known |-> conf[p].ip6]
Free == todo = <<>>
Change == changes < MaxChanges /\ changes' = changes + 1

(***************************************************************************)
(* Names.  A name two peers share goes to the one the map iteration leaves. *)
(***************************************************************************)
Given(ip, n) == {ip[p] : p \in Owners(n)} \ {None}
Mappings(ip) ==
  {m \in [Names -> {ip[p] : p \in Known} \cup {None}] :
     \A n \in Names : IF Given(ip, n) = {} THEN m[n] = None ELSE m[n] \in Given(ip, n)}
DNSNamesMapping == Mappings(ip4)
DNSNamesMappingV6 == Mappings(ip6)

\* The names of an address.  The loops keep the shortest, and of equally short
\* ones the first they come to; lengths are left out, so it may be any of them.
ReverseKeeps(v4, v6) ==
  [a \in Addr |-> cfg.rev[a] \cup {n \in Names : v4[n] = a \/ v6[n] = a}]
Reverse(v4, v6) == [a \in Addr |-> {n \in Names : v4[n] = a \/ v6[n] = a}]
ReceiveConfiguration(v4, v6) ==
  cfg' = [up |-> upstream, v4 |-> v4, v6 |-> v6, rev |-> Reverse(v4, v6)]

\* Answer to a question in .awl: the addresses, or that there is no such name.
dnsLocalDomainHandler(n, qtype) ==
  LET wanted == CASE qtype = "A" -> {cfg.v4[n]}
                  [] qtype = "AAAA" -> {cfg.v6[n]}
                  [] qtype = "ANY" -> {cfg.v4[n], cfg.v6[n]}
  IN IF cfg.v4[n] = None /\ cfg.v6[n] = None
     THEN [rcode |-> "NXDOMAIN", answer |-> {}]
     ELSE [rcode |-> "NOERROR", answer |-> wanted \ {None}]

\* The possible answers to a reverse question; None: the upstream is asked.
ptrHandler(a) == IF cfg.rev[a] = {} THEN {None} ELSE cfg.rev[a]

(***************************************************************************)
(* The configuration: a peer is added, removed, renamed, moved to another   *)
(* IPv4 address, or its IPv6 address is learned, once.  A domain name can   *)
(* be missing only until the first one is given.                           *)
(***************************************************************************)
Allowed(old, new) ==
  \/ new = None
  \/ old = None /\ new # None /\ new.ip6 = None
  \/ None \notin {old, new} /\ new.name \in {old.name} \cup Domains
     /\ old.ip6 \in {None, new.ip6}
PeerChanged(p, new) ==
  /\ Change /\ new # conf[p] /\ Allowed(conf[p], new)
  /\ conf' = [conf EXCEPT ![p] = new]
  /\ emits' = emits + 1
  /\ UNCHANGED <<android, split, last, events, subscribed, todo, got4, cfg, flags,
                 os, failed, started, stage>>

\* The emitter is stateful: the event reaches the callback, and is kept for one
\* that is registered later.
Emit ==
  /\ emits > 0 /\ emits' = emits - 1
  /\ last' = TRUE
  /\ events' = IF subscribed THEN events + 1 ELSE events
  /\ UNCHANGED <<android, split, conf, subscribed, todo, got4, cfg, flags, os,
                 failed, started, stage, changes>>

(***************************************************************************)
(* The operations that take the mutex.                                     *)
(***************************************************************************)
Refresh == <<"read4", "read6">>
Apply == <<"policy">> \o Refresh \o <<"setDNS">>

initDNS(clientEnabled) ==
  /\ ~android /\ Free /\ ~started /\ stage = "running"
  /\ started' = TRUE
  /\ upstream' = "public" /\ force' = clientEnabled
  /\ todo' = Refresh \o <<"subscribe", "configurator">> \o Apply
  /\ UNCHANGED <<android, split, conf, bus, got4, cfg, isSystem,
                 configurator, os, failed, stage, changes>>

initDNSAndroid ==
  /\ android /\ Free /\ ~started /\ stage = "running"
  /\ started' = TRUE
  /\ upstream' = "public"
  /\ todo' = Refresh \o <<"subscribe", "setHandler">>
  /\ UNCHANGED <<android, split, conf, bus, got4, cfg, force,
                 isSystem, configurator, os, failed, stage, changes>>

\* A listen address that does not parse; on Android no free address, no bridge.
DNSStaysOff ==
  /\ Free /\ ~started /\ stage = "running"
  /\ started' = TRUE
  /\ UNCHANGED <<android, split, conf, bus, todo, got4, cfg, flags, os, failed, stage,
                 changes>>

KnownPeerChanged ==
  /\ Free /\ events > 0
  /\ events' = events - 1 /\ todo' = Refresh
  /\ UNCHANGED <<android, split, conf, emits, last, subscribed, got4, cfg, flags, os,
                 failed, started, stage, changes>>

ForceUpstreamDNS(enabled) ==
  /\ Free /\ Change
  /\ configurator /\ isSystem /\ force # enabled
  /\ force' = enabled /\ todo' = Apply
  /\ UNCHANGED <<android, split, conf, bus, got4, cfg, upstream,
                 isSystem, configurator, os, failed, started, stage>>

\* Application.Close cancels the context, on which the subscription ends, before
\* it closes the service.
Cancel ==
  /\ stage = "running" /\ stage' = "cancelled"
  /\ UNCHANGED <<android, split, conf, bus, todo, got4, cfg, flags, os, failed,
                 started, changes>>
SubscriptionEnds ==
  /\ Free /\ subscribed /\ stage # "running"
  /\ subscribed' = FALSE /\ events' = 0
  /\ UNCHANGED <<android, split, conf, emits, last, todo, got4, cfg, flags, os, failed,
                 started, stage, changes>>
Close ==
  /\ Free /\ stage = "cancelled"
  /\ stage' = "closed"
  /\ os' = "none"
  /\ UNCHANGED <<android, split, conf, bus, todo, got4, cfg, flags, failed, started,
                 changes>>

(***************************************************************************)
(* The steps.                                                              *)
(***************************************************************************)
Step(s) == todo # <<>> /\ Head(todo) = s
Done == todo' = Tail(todo)

Read4 ==
  /\ Step("read4") /\ Done
  /\ \E m \in DNSNamesMapping :
       got4' = IF android THEN m ELSE [m EXCEPT ![Admin] = AdminIP]
  /\ UNCHANGED <<android, split, conf, bus, cfg, flags, os, failed,
                 started, stage, changes>>
Read6 ==
  /\ Step("read6") /\ Done
  /\ \E m \in DNSNamesMappingV6 : ReceiveConfiguration(got4, m)
  /\ got4' = Empty
  /\ UNCHANGED <<android, split, conf, bus, flags, os, failed,
                 started, stage, changes>>

\* The callback is registered and given the bus's last event.
SubscribeStateless ==
  /\ Step("subscribe") /\ Done
  /\ subscribed' = TRUE
  /\ UNCHANGED <<android, split, conf, emits, last, events, got4, cfg, flags, os, failed,
                 started, stage, changes>>
Subscribe ==
  /\ Step("subscribe") /\ Done
  /\ subscribed' = TRUE
  /\ events' = IF last THEN events + 1 ELSE events
  /\ UNCHANGED <<android, split, conf, emits, last, got4, cfg, flags, os, failed,
                 started, stage, changes>>
SetDNSHandler ==
  /\ Step("setHandler") /\ Done
  /\ isSystem' = TRUE
  /\ UNCHANGED <<android, split, conf, bus, got4, cfg, upstream,
                 force, configurator, os, failed, started, stage, changes>>
NewOSConfigurator ==
  /\ Step("configurator") /\ Done
  /\ configurator' = TRUE
  /\ UNCHANGED <<android, split, conf, bus, got4, cfg, upstream,
                 force, isSystem, os, failed, started, stage, changes>>

chooseMatchDomains == IF ~force /\ split THEN "awl" ELSE "all"
\* Which upstream the resolver forwards to: the system's own only when it must
\* capture everything without being asked to.
chooseUpstreamAlwaysBase == IF split THEN {"public"} ELSE {"base", "public"}
chooseUpstream == IF force \/ split THEN {"public"} ELSE {"base", "public"}
ChooseDNSPolicy ==
  /\ Step("policy") /\ Done
  /\ upstream' \in chooseUpstream
  /\ UNCHANGED <<android, split, conf, bus, got4, cfg, force,
                 isSystem, configurator, os, failed, started, stage, changes>>
SetDNS ==
  /\ Step("setDNS") /\ Done
  /\ os' = chooseMatchDomains
  /\ isSystem' = TRUE /\ failed' = FALSE
  /\ UNCHANGED <<android, split, conf, bus, got4, cfg, upstream,
                 force, configurator, started, stage, changes>>

\* No configurator, no base configuration, or the OS refuses: the rest of the
\* operation is given up and the caller is not told.
StepFails ==
  /\ Change
  /\ \/ Step("configurator") \/ Step("setDNS") \/ (Step("policy") /\ ~split)
  /\ todo' = <<>> /\ failed' = TRUE
  /\ UNCHANGED <<android, split, conf, bus, got4, cfg, flags, os,
                 started, stage>>

Steps == Read4 \/ Read6 \/ Subscribe \/ SetDNSHandler \/ NewOSConfigurator
         \/ ChooseDNSPolicy \/ SetDNS \/ StepFails

Next ==
  \/ \E p \in Peers, new \in KnownPeer \cup {None} : PeerChanged(p, new)
  \/ Emit
  \/ \E b \in BOOLEAN : initDNS(b) \/ ForceUpstreamDNS(b)
  \/ initDNSAndroid \/ DNSStaysOff \/ KnownPeerChanged
  \/ Cancel \/ SubscriptionEnds \/ Close
  \/ Steps

Spec == Init /\ [][Next]_vars

-----------------------------------------------------------------------------
Settled == Free /\ emits = 0 /\ events = 0

\* While the service follows the configuration and no change is waiting, every
\* name answers for the peers that have it now: known peers are found under
\* both their names, in each family they have, nobody else's address is given,
\* and the names of removed peers no longer exist - also when a peer changed
\* while DNS started, before the callback was registered, or between the two
\* reads of a refresh.
ResolvesKnownPeers ==
  subscribed /\ Settled =>
    \A n \in Names \ {Admin} :
      LET own == Owners(n)
          A == dnsLocalDomainHandler(n, "A")
          AAAA == dnsLocalDomainHandler(n, "AAAA")
      IN /\ A.rcode = (IF own = {} THEN "NXDOMAIN" ELSE "NOERROR")
         /\ A.rcode = AAAA.rcode
         /\ own # {} => A.answer # {}
         /\ Given(ip6, n) # {} => AAAA.answer # {}
         /\ A.answer \subseteq Given(ip4, n) /\ AAAA.answer \subseteq Given(ip6, n)

\* While the service follows the configuration and no change is waiting, a
\* reverse question for an address of a known peer is answered with a name that
\* peer, or another one with the same address, has now, and one for an address
\* nobody has any more goes to the upstream: no name outlives the removal, the
\* renaming or the move of its peer.
ReverseCurrent ==
  subscribed /\ Settled =>
    \A a \in Addr \ {AdminIP} :
      LET having == {p \in Known : a \in {ip4[p], ip6[p]}}
      IN IF having = {} THEN ptrHandler(a) = {None}
         ELSE ptrHandler(a) \subseteq (UNION {{p, conf[p].name} : p \in having}) \ {None}

\* While an exit node is in use and the OS accepted the last configuration, all
\* queries come here and leave to the configured public upstream, never to the
\* system's own resolver; without one, a system that can route by domain sends
\* only .awl here.
NoLeak ==
  isSystem /\ ~android /\ Free /\ ~failed /\ stage # "closed" =>
    /\ force => os = "all" /\ cfg.up = "public"
    /\ ~force /\ split => os = "awl"
=============================================================================
