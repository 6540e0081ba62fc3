------------------------------ MODULE P2PHost ------------------------------
(***************************************************************************)
(* p2p/p2p.go: the start of the DHT (Bootstrap), the loop that keeps the   *)
(* known peers connected (MaintainBackgroundConnections) and the           *)
(* protection of their connections from trimming, against peers that are   *)
(* added and removed and an application that closes.                       *)
(*                                                                         *)
(* A dial or a ping goes to libp2p with a context: it ends when it         *)
(* succeeds, when it fails, or, whatever the other side does, once the     *)
(* context is done.  Nothing makes a silent peer answer.                   *)
(***************************************************************************)
EXTENDS Naturals, FiniteSets

CONSTANTS
  Peers,       \* peers that may be known
  MaxBoots,    \* bound: bootstrap peers
  MaxChanges   \* bound: peers added and removed

Boots == 1 .. MaxBoots

ASSUME PeersAssumption == Peers \cap Boots = {}
ASSUME BoundsAssumption == MaxBoots \in Nat /\ MaxChanges \in Nat

VARIABLES
  app,         \* "up", "cancelled" (a.ctx is done), "closed" (P2p.Close)
  boots,       \* P2p.bootstrapPeers
  boot, left,  \* the goroutine of Bootstrap, successes it still waits for
  bctxDone,    \* its three seconds are over
  dial,        \* its goroutines, one for each bootstrap peer
  tokens,      \* length of successfulConnectionsCh
  maint,       \* MaintainBackgroundConnections
  pause,       \* what follows the round: the first retry delay or the ticker
  rctxDone,    \* the five seconds of the round are over
  todo,        \* ids of the round's list that were not visited yet
  work,        \* targets with a goroutine of the round, dialling or pinging
  known,       \* config.KnownPeers
  removing,    \* peers between the two steps of api.RemovePeer
  protected,   \* peers with protectedPeerTag
  kept,        \* history: known since the round took its list
  leaked,      \* history: protected when their removal was over already
  lost,        \* history: unprotected by an earlier removal when known again
  changes

bootVars == <<boots, boot, left, bctxDone, dial, tokens>>
maintVars == <<maint, pause, rctxDone, todo, work>>
peerVars == <<known, removing, protected, kept, leaked, lost, changes>>
hostVars == <<app, bootVars, maintVars, peerVars>>

Targets == Peers \cup Boots

\* A node that starts, or one without peers that has been running for a while
HostInit ==
  /\ app = "up"
  /\ boots \in {1 .. n : n \in 0 .. MaxBoots}
  /\ known \in SUBSET Peers
  /\ \/ boot = "none" /\ maint = "none" /\ pause = "delay"
     \/ boot = "done" /\ maint = "tick" /\ pause = "tick" /\ boots = {} /\ known = {}
  /\ left = 0 /\ bctxDone = FALSE /\ dial = [b \in Boots |-> "none"] /\ tokens = 0
  /\ rctxDone = FALSE /\ todo = {} /\ work = {}
  /\ removing = {} /\ protected = {} /\ kept = {} /\ leaked = {} /\ lost = {}
  /\ changes \in {0, MaxChanges}

-----------------------------------------------------------------------------
(* Bootstrap *)

Bootstrap ==
  /\ app = "up" /\ boot = "none"
  /\ boot' = "wait"
  /\ left' = IF Cardinality(boots) < 2 THEN Cardinality(boots) ELSE 2
  /\ dial' = [b \in Boots |-> IF b \in boots THEN "dialing" ELSE "none"]
  /\ UNCHANGED <<app, boots, bctxDone, tokens, maintVars, peerVars>>

\* Mutant: one success fits into the channel
ChannelOfOne == 1

\* The capacity of successfulConnectionsCh
SuccessesCap == Cardinality(boots)

BootConnected(b) ==
  /\ dial[b] = "dialing"
  /\ dial' = [dial EXCEPT ![b] = "sending"]
  /\ UNCHANGED <<app, boots, boot, left, bctxDone, tokens, maintVars, peerVars>>

\* Connect returns an error; once its context is done it must return
BootDialEnds(b) ==
  /\ dial[b] = "dialing"
  /\ dial' = [dial EXCEPT ![b] = "none"]
  /\ UNCHANGED <<app, boots, boot, left, bctxDone, tokens, maintVars, peerVars>>

BootSend(b) ==
  /\ dial[b] = "sending" /\ tokens < SuccessesCap
  /\ dial' = [dial EXCEPT ![b] = "none"]
  /\ tokens' = tokens + 1
  /\ UNCHANGED <<app, boots, boot, left, bctxDone, maintVars, peerVars>>

BootCtxDone == bctxDone \/ app # "up"

\* It makes a difference only while something waits for it
BootTimeout ==
  /\ boot \in {"wait", "join"} /\ ~bctxDone
  /\ left > 0 \/ \E b \in Boots : dial[b] = "dialing"
  /\ bctxDone' = TRUE
  /\ UNCHANGED <<app, boots, boot, left, dial, tokens, maintVars, peerVars>>

\* One turn of the select: a success, or the context is done
BootReceive ==
  /\ boot = "wait" /\ left > 0
  /\ \/ tokens > 0 /\ tokens' = tokens - 1
     \/ BootCtxDone /\ UNCHANGED tokens
  /\ left' = left - 1
  /\ UNCHANGED <<app, boots, boot, bctxDone, dial, maintVars, peerVars>>

\* dht.Bootstrap, and dhtBootstrapFinishedChan is closed
BootFinished ==
  /\ boot = "wait" /\ left = 0
  /\ boot' = "join"
  /\ UNCHANGED <<app, boots, left, bctxDone, dial, tokens, maintVars, peerVars>>

BootJoined ==
  /\ boot = "join" /\ \A b \in Boots : dial[b] = "none"
  /\ boot' = "done" /\ bctxDone' = FALSE /\ tokens' = 0
  /\ UNCHANGED <<app, boots, left, dial, maintVars, peerVars>>

-----------------------------------------------------------------------------
(* MaintainBackgroundConnections *)

StartMaintain ==
  /\ app = "up" /\ maint = "none" /\ boot # "none"
  /\ maint' = "wait"
  /\ UNCHANGED <<app, bootVars, pause, rctxDone, todo, work, peerVars>>

\* Mutant: the loop over the ticker does not look at the context
MaintainCancelledEarly ==
  /\ app # "up" /\ maint \in {"wait", "delay"}
  /\ maint' = "ended"
  /\ UNCHANGED <<app, bootVars, pause, rctxDone, todo, work, peerVars>>

MaintainCancelled ==
  /\ app # "up" /\ maint \in {"wait", "delay", "tick"}
  /\ maint' = "ended"
  /\ UNCHANGED <<app, bootVars, pause, rctxDone, todo, work, peerVars>>

\* knownPeersIdsFunc, when the DHT is ready, the delay is over or on a tick
RoundStart ==
  /\ \/ maint = "wait" /\ boot \in {"join", "done"}
     \/ maint \in {"delay", "tick"}
  /\ pause' = IF maint = "wait" THEN "delay" ELSE "tick"
  /\ maint' = "protect"
  /\ todo' = known /\ kept' = known
  /\ UNCHANGED <<app, bootVars, rctxDone, work, known, removing, protected,
                 leaked, lost, changes>>

ProtectPeer(p) ==
  /\ maint = "protect" /\ p \in todo
  /\ todo' = todo \ {p}
  /\ protected' = protected \cup {p}
  /\ leaked' = IF p \in known \cup removing THEN leaked ELSE leaked \cup {p}
  /\ lost' = lost \ {p}
  /\ work' = work \cup {p}
  /\ UNCHANGED <<app, bootVars, maint, pause, rctxDone, known, removing, kept, changes>>

DialBootstraps ==
  /\ maint = "protect" /\ todo = {}
  /\ maint' = "join"
  /\ work' = work \cup boots
  /\ UNCHANGED <<app, bootVars, pause, rctxDone, todo, peerVars>>

\* The dial fails, or the pings are over
WorkEnds(t) ==
  /\ t \in work
  /\ work' = work \ {t}
  /\ UNCHANGED <<app, bootVars, maint, pause, rctxDone, todo, peerVars>>

\* Mutant: the pings run under the context of the application
OnlyAppCtx == app # "up"

RoundCtxDone == rctxDone \/ app # "up"

RoundTimeout ==
  /\ work # {} /\ ~rctxDone
  /\ rctxDone' = TRUE
  /\ UNCHANGED <<app, bootVars, maint, pause, todo, work, peerVars>>

RoundJoined ==
  /\ maint = "join" /\ work = {}
  /\ maint' = pause /\ rctxDone' = FALSE
  /\ UNCHANGED <<app, bootVars, pause, todo, work, peerVars>>

-----------------------------------------------------------------------------
(* The API and Application.Close *)

Change == changes < MaxChanges /\ changes' = changes + 1 /\ app # "closed"

AddPeer(p) ==
  /\ Change /\ p \notin known
  /\ known' = known \cup {p}
  /\ UNCHANGED <<app, bootVars, maintVars, removing, protected, kept, leaked, lost>>

\* Mutant: UnprotectPeer is not called
RemovePeerOnly(p) ==
  /\ Change /\ p \in known
  /\ known' = known \ {p} /\ kept' = kept \ {p} /\ lost' = lost \ {p}
  /\ UNCHANGED <<app, bootVars, maintVars, removing, protected, leaked>>

RemovePeer(p) ==
  /\ Change /\ p \in known \ removing
  /\ known' = known \ {p} /\ kept' = kept \ {p} /\ lost' = lost \ {p}
  /\ removing' = removing \cup {p}
  /\ UNCHANGED <<app, bootVars, maintVars, protected, leaked>>

\* The peer may have been added again since
UnprotectPeer(p) ==
  /\ p \in removing
  /\ removing' = removing \ {p} /\ protected' = protected \ {p}
  /\ leaked' = leaked \ {p}
  /\ lost' = IF p \in known THEN lost \cup {p} ELSE lost
  /\ UNCHANGED <<app, bootVars, maintVars, known, kept, changes>>

Cancel ==
  /\ app = "up"
  /\ app' = "cancelled"
  /\ UNCHANGED <<bootVars, maintVars, peerVars>>

P2pClose ==
  /\ app = "cancelled"
  /\ app' = "closed"
  /\ UNCHANGED <<bootVars, maintVars, peerVars>>

-----------------------------------------------------------------------------
BootNext ==
  \/ Bootstrap \/ BootTimeout \/ BootReceive \/ BootFinished \/ BootJoined
  \/ \E b \in Boots : BootConnected(b) \/ BootDialEnds(b) \/ BootSend(b)

MaintainNext ==
  \/ StartMaintain \/ MaintainCancelled \/ RoundStart \/ DialBootstraps
  \/ RoundTimeout \/ RoundJoined
  \/ \E p \in Peers : ProtectPeer(p)
  \/ \E t \in Targets : WorkEnds(t)

PeersNext == \E p \in Peers : AddPeer(p) \/ RemovePeer(p) \/ UnprotectPeer(p)

\* Application.Close calls P2pClose after it closed the services above.
HostNext == BootNext \/ MaintainNext \/ PeersNext \/ Cancel

\* Timers fire, goroutines that can go on do, and a dial or a ping whose
\* context is done returns.  A select whose context is done does not go on
\* choosing the ticker, which was just reset.  Success, failure before the
\* timeout, calls of the API and the end of the application are up to others.
HostFair ==
  /\ WF_hostVars(Bootstrap \/ BootReceive \/ BootFinished \/ BootJoined)
  /\ WF_hostVars(BootTimeout)
  /\ \A b \in Boots : WF_hostVars(BootSend(b) \/ (BootCtxDone /\ BootDialEnds(b)))
  /\ WF_hostVars(StartMaintain \/ RoundStart \/ DialBootstraps \/ RoundJoined
                 \/ \E p \in Peers : ProtectPeer(p))
  /\ SF_hostVars(MaintainCancelled)
  /\ WF_hostVars(RoundTimeout)
  /\ \A t \in Targets : WF_hostVars(RoundCtxDone /\ WorkEnds(t))
  /\ \A p \in Peers : WF_hostVars(UnprotectPeer(p))

-----------------------------------------------------------------------------
(* Properties *)

\* A peer that is no longer known loses its protection from connection
\* trimming with its removal, unless a round of connectToKnownPeers still had
\* it on its list; and a peer that stayed known since a round took its list
\* has it, unless the second step of an earlier removal, UnprotectPeer, came
\* after the peer had been added again, and no round has protected it since.
ProtectionFollows ==
  /\ protected \subseteq known \cup removing \cup leaked
  /\ maint \in {"join", "delay", "tick"} => kept \subseteq protected \cup lost

\* Bootstrap ends and opens the way for MaintainBackgroundConnections, even if
\* no bootstrap peer answers, and leaves no goroutine behind: nobody waits for
\* a success that does not come, nor to report one nobody waits for.
BootstrapEnds == boot = "wait" ~> boot = "done"

\* While the application is up every peer that stays known is dialled again
\* and again: no round hangs on a peer that keeps silent.
KeepsDialing ==
  \A p \in Peers : []<>(p \notin known \/ p \in work \/ app # "up")
=============================================================================
