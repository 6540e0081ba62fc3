----------------------------- MODULE AuthStatus -----------------------------
(***************************************************************************)
(* The friend list of one awl node: service/auth_status.go, the parts of   *)
(* config/ it writes through (KnownPeers, BlockedPeers, Invites, the       *)
(* selected SOCKS5 exit node) and the API handlers that drive it.          *)
(*                                                                         *)
(* Every handler, API call and background loop is a goroutine.  A step of  *)
(* a goroutine is one critical section of the code (one acquisition of the *)
(* config lock or of authsLock, or one network exchange); between two      *)
(* steps any other goroutine may run.  Remote peers are unconstrained:     *)
(* they may send any request and any answer at any time, or fail.          *)
(***************************************************************************)
EXTENDS Integers, FiniteSets

CONSTANTS
  Peers,        \* remote peer IDs
  Invites,      \* invite IDs; each stands for its token as well
  Workers,      \* handler, API and one-shot goroutines
  RetryLoop,    \* the goroutine of BackgroundRetryAuthRequests
  StatusLoop,   \* the goroutine of BackgroundExchangeStatusInfo
  None,         \* no peer / no invite / no token
  AutoAccept,   \* P2pNode.AutoAcceptAuthRequests
  UseLimits,    \* values of MaxUses callers pass to CreateInvite
  StatusInfos,  \* status messages remote peers send
  Calls,        \* entry points in use
  MaxBusy,      \* bound: goroutines in flight, the status loop apart
  MaxRestarts   \* bound on crashes

Goroutines == Workers \cup {RetryLoop, StatusLoop}

AllCalls == {"auth", "status", "friend", "accept", "remove", "settings",
             "connected", "retry", "exchangeAll", "proxy", "invite",
             "revoke", "expire"}

ASSUME PeersFinite == IsFiniteSet(Peers)
ASSUME NoneIsNoID == None \notin Peers /\ None \notin Invites
ASSUME LoopsAreNotWorkers ==
  RetryLoop \notin Workers /\ StatusLoop \notin Workers /\ RetryLoop # StatusLoop
ASSUME UseLimitsAreNumbers == UseLimits \subseteq Int
ASSUME OptionsTyped ==
  /\ AutoAccept \in BOOLEAN
  /\ StatusInfos \subseteq {"declined", "deny", "allow"}
  /\ Calls \subseteq AllCalls
  /\ MaxBusy \in Nat /\ MaxRestarts \in Nat

(***************************************************************************)
(* State.  A KnownPeer keeps the status-owned fields the protocol decides  *)
(* on; the zero record is what GetPeer returns for an unknown peer.        *)
(***************************************************************************)
KnownPeer == [known: BOOLEAN, confirmed: BOOLEAN, declined: BOOLEAN,
              allowed: BOOLEAN, inviteID: Invites \cup {None}]

ZeroPeer == [known |-> FALSE, confirmed |-> FALSE, declined |-> FALSE,
             allowed |-> FALSE, inviteID |-> None]

Invite == [created: BOOLEAN, revoked: BOOLEAN, used: Nat, max: Nat \ {0}]

ZeroInvite == [created |-> FALSE, revoked |-> FALSE, used |-> 0, max |-> 1]

(* A goroutine: where it is, the peer it works on, the token it was shown, *)
(* who called AddPeer, the lookup result and the message it carries across *)
(* steps, where it continues, and the peers a loop still has to visit.     *)
PCs == {"idle", "authBlocked", "authKnown", "authCheck", "authOffer",
        "addUnblock", "addInsert", "addClear",
        "sendMark", "sendReply", "sendDeclined",
        "exStart", "exBlocked", "exReply", "statusUpdate", "statusClear",
        "statusBlocked", "statusReceive", "blockUpsert", "blockForget",
        "connectedKnown", "retryNext", "exchangeNext", "proxySet"}

Goroutine == [pc: PCs, peer: Peers \cup {None}, tok: Invites \cup {None},
              by: {"none", "auth", "friend", "accept"}, seen: BOOLEAN,
              msg: {"none", "declined", "deny", "allow"},
              then: {"idle", "exStart", "retryNext", "exchangeNext"},
              queue: SUBSET Peers]

Idle == [pc |-> "idle", peer |-> None, tok |-> None, by |-> "none",
         seen |-> FALSE, msg |-> "none", then |-> "idle", queue |-> {}]

VARIABLES
  knownPeers,     \* config.KnownPeers
  blockedPeers,   \* config.BlockedPeers
  invites,        \* config.Invites
  usingPeerID,    \* config.SOCKS5.UsingPeerID
  ingoingAuths,   \* AuthStatus.ingoingAuths
  outgoingAuths,  \* AuthStatus.outgoingAuths
  gor,            \* the goroutines
  expired,        \* invites whose ExpiresAt has passed
  disk,           \* the config file
  restarts,       \* crashes so far
  heard           \* history: peers that ever sent us a request or an answer

config == <<knownPeers, blockedPeers, invites, usingPeerID>>
auths == <<ingoingAuths, outgoingAuths>>
world == <<expired, disk, restarts>>
vars == <<config, auths, gor, world, heard>>

Snapshot == [peers |-> knownPeers, blocked |-> blockedPeers,
             invites |-> invites, using |-> usingPeerID]

Init ==
  /\ knownPeers = [p \in Peers |-> ZeroPeer]
  /\ blockedPeers = {}
  /\ invites = [i \in Invites |-> ZeroInvite]
  /\ usingPeerID = None
  /\ ingoingAuths = {}
  /\ outgoingAuths = {}
  /\ gor = [g \in Goroutines |-> Idle]
  /\ expired = {}
  /\ disk = Snapshot
  /\ restarts = 0
  /\ heard = {}

Known(p) == knownPeers[p].known

(* Invite.usable: not revoked, not expired, uses left. *)
Usable(i) ==
  /\ invites[i].created
  /\ ~invites[i].revoked
  /\ i \notin expired
  /\ invites[i].used < invites[i].max

(***************************************************************************)
(* Control flow of a goroutine.                                            *)
(***************************************************************************)
At(g, pc) == gor[g].pc = pc

InFlight == {g \in Goroutines : ~At(g, "idle")}

Start(g, call, task) ==
  /\ call \in Calls
  /\ At(g, "idle")
  /\ g = StatusLoop \/ Cardinality(InFlight) < MaxBusy
  /\ gor' = [gor EXCEPT ![g] = task]

Goto(g, pc) == gor' = [gor EXCEPT ![g].pc = pc]

Finish(g) == gor' = [gor EXCEPT ![g] = Idle]

Task(pc, p) == [Idle EXCEPT !.pc = pc, !.peer = p]

(* Return from SendAuthRequest or ExchangeNewStatusInfo to the caller: the *)
(* exchange that follows a request, the next peer of a loop, or the end.   *)
Return(g) ==
  LET t == gor[g] IN
  gor' = [gor EXCEPT ![g] =
            [Idle EXCEPT !.pc = t.then, !.queue = t.queue,
                         !.peer = IF t.then = "exStart" THEN t.peer ELSE None]]

(***************************************************************************)
(* AuthStreamHandler: a remote peer asks to be taken in, maybe with a      *)
(* token.  A blocked or known peer is only answered.                       *)
(***************************************************************************)
AuthStreamHandler(g, p, tok) ==
  /\ Start(g, "auth", [Task("authBlocked", p) EXCEPT !.tok = tok])
  /\ heard' = heard \cup {p}
  /\ UNCHANGED <<config, auths, world>>

AuthCheckBlocked(g) ==
  /\ At(g, "authBlocked")
  /\ IF gor[g].peer \in blockedPeers THEN Finish(g) ELSE Goto(g, "authKnown")
  /\ UNCHANGED <<config, auths, world, heard>>

AuthCheckKnown(g) ==
  /\ At(g, "authKnown")
  /\ IF Known(gor[g].peer) THEN Finish(g) ELSE Goto(g, "authCheck")
  /\ UNCHANGED <<config, auths, world, heard>>

(* checkInvite looks the token up and consumes nothing. *)
CheckInvite(tok) == tok # None /\ Usable(tok)

(* addPeerFromAuth follows if the token was good or the node accepts       *)
(* everyone; only a good token is passed on.                               *)
AuthCheckInvite(g) ==
  LET tok == gor[g].tok
      inviteValid == CheckInvite(tok)
  IN
  /\ At(g, "authCheck")
  /\ IF inviteValid \/ AutoAccept
     THEN gor' = [gor EXCEPT ![g].pc = "addUnblock", ![g].by = "auth",
                             ![g].tok = IF inviteValid THEN tok ELSE None]
     ELSE Goto(g, "authOffer")
  /\ UNCHANGED <<config, auths, world, heard>>

(* Whoever was not taken in is offered for a manual accept. *)
AuthOffer(g) ==
  /\ At(g, "authOffer")
  /\ ingoingAuths' = ingoingAuths \cup {gor[g].peer}
  /\ Finish(g)
  /\ UNCHANGED <<config, outgoingAuths, world, heard>>

(***************************************************************************)
(* AddPeer.                                                                *)
(***************************************************************************)
AddPeerUnblock(g) ==
  /\ At(g, "addUnblock")
  /\ blockedPeers' = blockedPeers \ {gor[g].peer}
  /\ Goto(g, "addInsert")
  /\ UNCHANGED <<knownPeers, invites, usingPeerID, auths, world, heard>>

(* Mutant: whoever is added counts as having confirmed us. *)
NewPeerConfirmed(g) ==
  [known |-> TRUE, confirmed |-> TRUE, declined |-> FALSE,
   allowed |-> FALSE, inviteID |-> gor[g].tok]

NewPeer(g) ==
  [known |-> TRUE, confirmed |-> gor[g].by # "friend", declined |-> FALSE,
   allowed |-> FALSE, inviteID |-> gor[g].tok]

(* Mutant: the use is not counted. *)
SpendNothing(tok) == invites

SpendUse(tok) ==
  IF tok = None THEN invites ELSE [invites EXCEPT ![tok].used = @ + 1]

(* Mutant: the redemption relies on the earlier peek of CheckInvite. *)
AddPeerInsertUnchecked(g) ==
  LET p == gor[g].peer IN
  /\ At(g, "addInsert")
  /\ ~Known(p)
  /\ invites' = SpendUse(gor[g].tok)
  /\ knownPeers' = [knownPeers EXCEPT ![p] = NewPeer(g)]
  /\ Goto(g, "addClear")
  /\ UNCHANGED <<blockedPeers, usingPeerID, auths, world, heard>>

(* One critical section: the peer is not there yet, the invite (if any) is *)
(* still good and loses a use, the peer is inserted.                       *)
AddPeerInsert(g) ==
  LET p == gor[g].peer
      tok == gor[g].tok
  IN
  /\ At(g, "addInsert")
  /\ ~Known(p)
  /\ tok # None => Usable(tok)
  /\ invites' = SpendUse(tok)
  /\ knownPeers' = [knownPeers EXCEPT ![p] = NewPeer(g)]
  /\ Goto(g, "addClear")
  /\ UNCHANGED <<blockedPeers, usingPeerID, auths, world, heard>>

(* addPeerFromAuth swallows the error and the handler offers the peer for  *)
(* a manual accept; the API reports the error to the user.                 *)
AfterRefusal(g) == IF gor[g].by = "auth" THEN Goto(g, "authOffer") ELSE Finish(g)

(* The same section refused: already added, the invite is no longer good,  *)
(* or (callers that do not uniquify) the alias or the IP is taken.         *)
AddPeerRefused(g) ==
  /\ At(g, "addInsert")
  /\ \/ Known(gor[g].peer)
     \/ gor[g].tok # None /\ ~Usable(gor[g].tok)
     \/ gor[g].by # "auth"
  /\ AfterRefusal(g)
  /\ UNCHANGED <<config, auths, world, heard>>

(* Drop the pending offer, then go on as the background goroutine. *)
AddPeerClear(g) ==
  LET p == gor[g].peer IN
  /\ At(g, "addClear")
  /\ ingoingAuths' = ingoingAuths \ {p}
  /\ gor' = [gor EXCEPT ![g] =
               IF gor[g].by = "friend"
               THEN [Task("sendMark", p) EXCEPT !.then = "exStart"]
               ELSE Task("exStart", p)]
  /\ UNCHANGED <<config, outgoingAuths, world, heard>>

(***************************************************************************)
(* SendAuthRequest.                                                        *)
(***************************************************************************)
SendAuthMark(g) ==
  /\ At(g, "sendMark")
  /\ outgoingAuths' = outgoingAuths \cup {gor[g].peer}
  /\ Goto(g, "sendReply")
  /\ UNCHANGED <<config, ingoingAuths, world, heard>>

SendAuthFailed(g) ==
  /\ At(g, "sendReply")
  /\ Return(g)
  /\ UNCHANGED <<config, auths, world, heard>>

SendAuthReply(g, confirmed, declined) ==
  LET p == gor[g].peer IN
  /\ At(g, "sendReply")
  /\ outgoingAuths' = IF confirmed \/ declined THEN outgoingAuths \ {p} ELSE outgoingAuths
  /\ heard' = heard \cup {p}
  /\ IF declined THEN Goto(g, "sendDeclined") ELSE Return(g)
  /\ UNCHANGED <<config, ingoingAuths, world>>

SendAuthDeclined(g) ==
  LET p == gor[g].peer IN
  /\ At(g, "sendDeclined")
  /\ knownPeers' = [knownPeers EXCEPT ![p].declined = @ \/ Known(p)]
  /\ Return(g)
  /\ UNCHANGED <<blockedPeers, invites, usingPeerID, auths, world, heard>>

(***************************************************************************)
(* ExchangeNewStatusInfo.                                                  *)
(***************************************************************************)
(* Mutant: the pending offer is left in place. *)
ExchangeStartKeeping(g) ==
  /\ At(g, "exStart")
  /\ Goto(g, "exBlocked")
  /\ UNCHANGED <<config, auths, world, heard>>

ExchangeStart(g) ==
  /\ At(g, "exStart")
  /\ ingoingAuths' = ingoingAuths \ {gor[g].peer}
  /\ Goto(g, "exBlocked")
  /\ UNCHANGED <<config, outgoingAuths, world, heard>>

ExchangeSend(g) ==
  /\ At(g, "exBlocked")
  /\ gor' = [gor EXCEPT ![g].pc = "exReply", ![g].seen = gor[g].peer \in blockedPeers]
  /\ UNCHANGED <<config, auths, world, heard>>

(* No connection, no stream, or an error while sending or receiving. *)
ExchangeFailed(g) ==
  /\ At(g, "exBlocked") \/ At(g, "exReply")
  /\ Return(g)
  /\ UNCHANGED <<config, auths, world, heard>>

ExchangeReply(g, info) ==
  /\ At(g, "exReply")
  /\ IF gor[g].seen
     THEN Return(g)
     ELSE gor' = [gor EXCEPT ![g].pc = "statusUpdate", ![g].msg = info]
  /\ heard' = heard \cup {gor[g].peer}
  /\ UNCHANGED <<config, auths, world>>

(***************************************************************************)
(* processPeerStatusInfo: UpdatePeerFields, then clearSelectedExitNode     *)
(* unless the peer allows us to use it.                                    *)
(***************************************************************************)
Merged(old, info) ==
  IF info = "declined"
  THEN [old EXCEPT !.declined = TRUE]
  ELSE [old EXCEPT !.confirmed = TRUE, !.declined = FALSE, !.allowed = (info = "allow")]

(* Mutant: the merged record is upserted even if the peer is gone. *)
StatusUpsert(g) ==
  LET p == gor[g].peer IN
  /\ At(g, "statusUpdate")
  /\ knownPeers' = [knownPeers EXCEPT ![p] = [Merged(@, gor[g].msg) EXCEPT !.known = TRUE]]
  /\ IF gor[g].msg = "allow" THEN Return(g) ELSE Goto(g, "statusClear")
  /\ UNCHANGED <<blockedPeers, invites, usingPeerID, auths, world, heard>>

StatusUpdate(g) ==
  LET p == gor[g].peer IN
  /\ At(g, "statusUpdate")
  /\ knownPeers' = [knownPeers EXCEPT ![p] = IF @.known THEN Merged(@, gor[g].msg) ELSE @]
  /\ IF gor[g].msg = "allow" THEN Return(g) ELSE Goto(g, "statusClear")
  /\ UNCHANGED <<blockedPeers, invites, usingPeerID, auths, world, heard>>

StatusClear(g) ==
  /\ At(g, "statusClear")
  /\ usingPeerID' = IF usingPeerID = gor[g].peer THEN None ELSE usingPeerID
  /\ Return(g)
  /\ UNCHANGED <<knownPeers, blockedPeers, invites, auths, world, heard>>

(***************************************************************************)
(* StatusStreamHandler.                                                    *)
(***************************************************************************)
StatusStreamHandler(g, p) ==
  /\ Start(g, "status", [Task("statusBlocked", p) EXCEPT !.seen = Known(p)])
  /\ UNCHANGED <<config, auths, world, heard>>

StatusCheckBlocked(g) ==
  LET isBlocked == gor[g].peer \in blockedPeers IN
  /\ At(g, "statusBlocked")
  /\ IF ~gor[g].seen /\ ~isBlocked
     THEN Finish(g)
     ELSE gor' = [gor EXCEPT ![g].pc = "statusReceive", ![g].seen = isBlocked]
  /\ UNCHANGED <<config, auths, world, heard>>

StatusReceive(g, info) ==
  LET p == gor[g].peer IN
  /\ At(g, "statusReceive")
  /\ outgoingAuths' = outgoingAuths \ {p}
  /\ heard' = heard \cup {p}
  /\ IF gor[g].seen
     THEN Finish(g)
     ELSE gor' = [gor EXCEPT ![g].pc = "statusUpdate", ![g].msg = info]
  /\ UNCHANGED <<config, ingoingAuths, world>>

StatusReceiveFailed(g) ==
  /\ At(g, "statusReceive")
  /\ Finish(g)
  /\ UNCHANGED <<config, auths, world, heard>>

(***************************************************************************)
(* BlockPeer, and the API handlers that end in it or in AddPeer.           *)
(***************************************************************************)
BlockUpsert(g) ==
  /\ At(g, "blockUpsert")
  /\ blockedPeers' = blockedPeers \cup {gor[g].peer}
  /\ Goto(g, "blockForget")
  /\ UNCHANGED <<knownPeers, invites, usingPeerID, auths, world, heard>>

BlockForget(g) ==
  /\ At(g, "blockForget")
  /\ outgoingAuths' = outgoingAuths \ {gor[g].peer}
  /\ Goto(g, "exStart")
  /\ UNCHANGED <<config, ingoingAuths, world, heard>>

SendFriendRequest(g, p) ==
  /\ Start(g, "friend", [Task("addUnblock", p) EXCEPT !.by = "friend"])
  /\ UNCHANGED <<config, auths, world, heard>>

AcceptFriend(g, p, decline) ==
  /\ p \in ingoingAuths
  /\ Start(g, "accept", IF decline THEN Task("blockUpsert", p)
                        ELSE [Task("addUnblock", p) EXCEPT !.by = "accept"])
  /\ UNCHANGED <<config, auths, world, heard>>

RemovePeer(g, p) ==
  /\ Known(p)
  /\ Start(g, "remove", Task("blockUpsert", p))
  /\ knownPeers' = [knownPeers EXCEPT ![p] = ZeroPeer]
  /\ UNCHANGED <<blockedPeers, invites, usingPeerID, auths, world, heard>>

(* The settings themselves are not part of this model; the exchange is. *)
UpdatePeerSettings(g, p) ==
  /\ Known(p)
  /\ Start(g, "settings", Task("exStart", p))
  /\ UNCHANGED <<config, auths, world, heard>>

UpdateProxySettings(g, p) ==
  /\ Known(p) /\ knownPeers[p].allowed
  /\ Start(g, "proxy", Task("proxySet", p))
  /\ UNCHANGED <<config, auths, world, heard>>

SetProxyPeerID(g) ==
  /\ At(g, "proxySet")
  /\ usingPeerID' = gor[g].peer
  /\ Finish(g)
  /\ UNCHANGED <<knownPeers, blockedPeers, invites, auths, world, heard>>

(* The empty selection needs no lookup. *)
ClearProxyPeerID ==
  /\ "proxy" \in Calls
  /\ usingPeerID' = None
  /\ UNCHANGED <<knownPeers, blockedPeers, invites, auths, gor, world, heard>>

(***************************************************************************)
(* onPeerConnected and the loops.                                          *)
(***************************************************************************)
OnPeerConnected(g, p) ==
  /\ Start(g, "connected", [Task("connectedKnown", p) EXCEPT !.seen = p \in outgoingAuths])
  /\ UNCHANGED <<config, auths, world, heard>>

ConnectedLookup(g) ==
  LET p == gor[g].peer
      exchange == IF Known(p) THEN "exStart" ELSE "idle"
  IN
  /\ At(g, "connectedKnown")
  /\ gor' = [gor EXCEPT ![g] =
               IF gor[g].seen THEN [Task("sendMark", p) EXCEPT !.then = exchange]
               ELSE IF Known(p) THEN Task("exStart", p)
               ELSE Idle]
  /\ UNCHANGED <<config, auths, world, heard>>

RetryTick ==
  /\ Start(RetryLoop, "retry", [Idle EXCEPT !.pc = "retryNext", !.queue = outgoingAuths])
  /\ UNCHANGED <<config, auths, world, heard>>

RetryNext(g) ==
  /\ At(g, "retryNext")
  /\ IF gor[g].queue = {}
     THEN Finish(g)
     ELSE \E p \in gor[g].queue :
            gor' = [gor EXCEPT ![g] = [Task("sendMark", p) EXCEPT
                      !.then = "retryNext", !.queue = gor[g].queue \ {p}]]
  /\ UNCHANGED <<config, auths, world, heard>>

(* ExchangeStatusInfoWithAllKnownPeers: the status loop's tick.  The       *)
(* goroutine UpdateMySettings starts runs the same exchanges at a moment   *)
(* of the user's choosing, which is a tick too: ticks are not timed here.  *)
ExchangeAll(g) ==
  /\ Start(g, "exchangeAll",
           [Idle EXCEPT !.pc = "exchangeNext", !.queue = {p \in Peers : Known(p)}])
  /\ UNCHANGED <<config, auths, world, heard>>

ExchangeNext(g) ==
  /\ At(g, "exchangeNext")
  /\ IF gor[g].queue = {}
     THEN Finish(g)
     ELSE \E p \in gor[g].queue :
            gor' = [gor EXCEPT ![g] =
                      [(IF Known(p) THEN Task("exStart", p) ELSE Task("exchangeNext", None))
                       EXCEPT !.then = IF Known(p) THEN "exchangeNext" ELSE "idle",
                              !.queue = gor[g].queue \ {p}]]
  /\ UNCHANGED <<config, auths, world, heard>>

(***************************************************************************)
(* Invites.  MaxUses below 1 is clamped.                                   *)
(***************************************************************************)
CreateInvite(i, maxUses) ==
  /\ "invite" \in Calls
  /\ ~invites[i].created
  /\ invites' = [invites EXCEPT ![i] =
                   [created |-> TRUE, revoked |-> FALSE, used |-> 0,
                    max |-> IF maxUses < 1 THEN 1 ELSE maxUses]]
  /\ expired' = expired \ {i}
  /\ UNCHANGED <<knownPeers, blockedPeers, usingPeerID, auths, gor, disk, restarts, heard>>

RevokeInvite(i) ==
  /\ "revoke" \in Calls
  /\ invites[i].created
  /\ invites' = [invites EXCEPT ![i].revoked = TRUE]
  /\ UNCHANGED <<knownPeers, blockedPeers, usingPeerID, auths, gor, world, heard>>

(* The clock passes ExpiresAt. *)
ExpireInvite(i) ==
  /\ "expire" \in Calls
  /\ invites[i].created
  /\ expired' = expired \cup {i}
  /\ UNCHANGED <<config, auths, gor, disk, restarts, heard>>

(***************************************************************************)
(* The config writer, and a crash followed by NewAuthStatus on what it     *)
(* wrote last.                                                             *)
(***************************************************************************)
WriteConfig ==
  /\ restarts < MaxRestarts
  /\ disk' = Snapshot
  /\ UNCHANGED <<config, auths, gor, expired, restarts, heard>>

RestoreOutgoingAuths(peers) ==
  {p \in Peers : peers[p].known /\ ~peers[p].confirmed /\ ~peers[p].declined}

Crash ==
  /\ restarts < MaxRestarts
  /\ restarts' = restarts + 1
  /\ knownPeers' = disk.peers
  /\ blockedPeers' = disk.blocked
  /\ invites' = disk.invites
  /\ usingPeerID' = disk.using
  /\ ingoingAuths' = {}
  /\ outgoingAuths' = RestoreOutgoingAuths(disk.peers)
  /\ gor' = [g \in Goroutines |-> Idle]
  /\ UNCHANGED <<expired, disk, heard>>

(***************************************************************************)
(* The specification.                                                      *)
(***************************************************************************)
AuthHandlerStep(g) ==
  \/ AuthCheckBlocked(g) \/ AuthCheckKnown(g) \/ AuthCheckInvite(g) \/ AuthOffer(g)

AddPeerStep(g) ==
  \/ AddPeerUnblock(g) \/ AddPeerInsert(g) \/ AddPeerRefused(g) \/ AddPeerClear(g)

SendAuthStep(g) ==
  \/ SendAuthMark(g) \/ SendAuthFailed(g) \/ SendAuthDeclined(g)
  \/ \E confirmed, declined \in BOOLEAN : SendAuthReply(g, confirmed, declined)

ExchangeStep(g) ==
  \/ ExchangeStart(g) \/ ExchangeSend(g) \/ ExchangeFailed(g)
  \/ \E info \in StatusInfos : ExchangeReply(g, info)
  \/ StatusUpdate(g) \/ StatusClear(g)

StatusHandlerStep(g) ==
  \/ StatusCheckBlocked(g) \/ StatusReceiveFailed(g)
  \/ \E info \in StatusInfos : StatusReceive(g, info)

Step(g) ==
  \/ AuthHandlerStep(g) \/ AddPeerStep(g) \/ SendAuthStep(g)
  \/ ExchangeStep(g) \/ StatusHandlerStep(g)
  \/ BlockUpsert(g) \/ BlockForget(g) \/ SetProxyPeerID(g)
  \/ ConnectedLookup(g) \/ RetryNext(g) \/ ExchangeNext(g)

Call(g, p) ==
  \/ \E tok \in Invites \cup {None} : AuthStreamHandler(g, p, tok)
  \/ StatusStreamHandler(g, p)
  \/ SendFriendRequest(g, p)
  \/ \E decline \in BOOLEAN : AcceptFriend(g, p, decline)
  \/ RemovePeer(g, p)
  \/ UpdatePeerSettings(g, p)
  \/ UpdateProxySettings(g, p)
  \/ OnPeerConnected(g, p)

InviteCall(i) ==
  \/ \E maxUses \in UseLimits : CreateInvite(i, maxUses)
  \/ RevokeInvite(i)
  \/ ExpireInvite(i)

Next ==
  \/ \E g \in Goroutines : Step(g)
  \/ \E g \in Workers, p \in Peers : Call(g, p)
  \/ ExchangeAll(StatusLoop)
  \/ RetryTick
  \/ ClearProxyPeerID
  \/ \E i \in Invites : InviteCall(i)
  \/ WriteConfig
  \/ Crash

Spec == Init /\ [][Next]_vars

(* The ticker of BackgroundExchangeStatusInfo keeps firing and the loop    *)
(* goes on where it can: dials and the opening of streams are bounded by   *)
(* timeouts of libp2p.  Nothing bounds the wait for an answer: the streams *)
(* have no deadline, so a silent remote keeps the loop waiting (Waiting).  *)
Waiting(g) == At(g, "exReply")

FairSpec ==
  /\ Spec
  /\ WF_vars(ExchangeAll(StatusLoop))
  /\ WF_vars(~Waiting(StatusLoop) /\ Step(StatusLoop))

(***************************************************************************)
(* Properties.                                                             *)
(***************************************************************************)
(* Every variable keeps its type; in particular every goroutine is at a    *)
(* step of the code and the file holds a whole config.                     *)
TypeOK ==
  /\ knownPeers \in [Peers -> KnownPeer]
  /\ blockedPeers \subseteq Peers
  /\ invites \in [Invites -> Invite]
  /\ usingPeerID \in Peers \cup {None}
  /\ ingoingAuths \subseteq Peers
  /\ outgoingAuths \subseteq Peers
  /\ gor \in [Goroutines -> Goroutine]
  /\ expired \subseteq Invites
  /\ disk \in [peers: [Peers -> KnownPeer], blocked: SUBSET Peers,
               invites: [Invites -> Invite], using: Peers \cup {None}]
  /\ restarts \in Nat
  /\ heard \subseteq Peers

AdmittedBy(peers, i) == {p \in Peers : peers[p].known /\ peers[p].inviteID = i}

(* No invite ever lets in more peers than it has uses, however the check   *)
(* of CheckInvite, the redemption inside AddPeer, revocation, removal of   *)
(* peers, config writes and crashes interleave.                            *)
InviteUses ==
  \A i \in Invites : Cardinality(AdmittedBy(knownPeers, i)) <= invites[i].used
                   /\ invites[i].used <= invites[i].max

RedeemsOne(i) ==
  LET new == AdmittedBy(knownPeers', i) \ AdmittedBy(knownPeers, i) IN
  (new # {} \/ invites'[i].used # invites[i].used) =>
    /\ Usable(i)
    /\ invites'[i].used = invites[i].used + 1
    /\ \E p \in Peers : new = {p} /\ ~Known(p)

(* A use is spent and a peer enters with that invite in the same step, and *)
(* only while the invite is usable: an invite revoked, expired or used up  *)
(* after CheckInvite peeked at it lets nobody in.  (A crash goes back to   *)
(* the file; InviteUses covers it.)                                        *)
RedemptionAtomic ==
  [][restarts' = restarts => \A i \in Invites : RedeemsOne(i)]_vars

(* A peer is confirmed only if it contacted us at some time: through its   *)
(* own request, an answer to ours, or a status exchange.  A peer the user  *)
(* merely typed in stays unconfirmed across removals, retries and crashes. *)
ConfirmedHeard ==
  \A p \in Peers : Known(p) /\ knownPeers[p].confirmed => p \in heard

(* A peer comes (back) into KnownPeers only by AddPeer: a status answer    *)
(* that arrives after RemovePeer never resurrects the removed peer.        *)
NoResurrection ==
  [][restarts' = restarts =>
       \A p \in Peers : ~Known(p) /\ knownPeers'[p].known =>
         \E g \in Goroutines : gor[g].peer = p /\ gor[g].by # "none"]_vars

(* A request left over for a peer that is a friend already (a duplicate    *)
(* auth stream that lost against AddPeer) goes away by itself: the status  *)
(* loop's next round drops it, unless the friend is removed first.  The    *)
(* loop visits the friends one after the other, so this is promised only   *)
(* if no remote leaves it waiting for an answer for ever.                  *)
StaleOfferHealed ==
  []<>(~Waiting(StatusLoop)) =>
    \A p \in Peers :
      p \in ingoingAuths /\ Known(p) ~> p \notin ingoingAuths \/ ~Known(p)
=============================================================================
