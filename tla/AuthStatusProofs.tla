-------------------------- MODULE AuthStatusProofs --------------------------
(***************************************************************************)
(* Proofs about AuthStatus, for any peers, invites, goroutines, calls and  *)
(* any number of crashes.                                                  *)
(***************************************************************************)
EXTENDS AuthStatus, FiniteSetTheorems, TLAPS

(* A goroutine between two steps of a handler works on a peer; one inside  *)
(* AddPeer was called by somebody.                                         *)
Busy ==
  \A g \in Goroutines :
    /\ gor[g].pc \notin {"idle", "retryNext", "exchangeNext"} => gor[g].peer \in Peers
    /\ gor[g].pc = "addInsert" \/ gor[g].pc = "addUnblock" => gor[g].by # "none"

TInv == TypeOK /\ Busy

LEMMA InitTyped == Init => TInv
<1> SUFFICES ASSUME Init PROVE TInv
  OBVIOUS
<1>1. ZeroPeer \in KnownPeer
  BY Zenon DEF ZeroPeer, KnownPeer
<1>2. ZeroInvite \in Invite
  BY DEF ZeroInvite, Invite
<1>3. Idle \in Goroutine
  BY Zenon DEF Idle, Goroutine, PCs
<1>4. TypeOK
  BY <1>1, <1>2, <1>3, Zenon DEF Init, TypeOK, Snapshot
<1>5. Busy
  BY Zenon DEF Init, Busy, Idle
<1> QED
  BY <1>4, <1>5, Zenon DEF TInv

(* Replacing one goroutine's record by a well-typed one that works on a    *)
(* peer keeps both conjuncts.                                              *)
GoodTask(t) ==
  /\ t \in Goroutine
  /\ t.pc \notin {"idle", "retryNext", "exchangeNext"} => t.peer \in Peers
  /\ t.pc = "addInsert" \/ t.pc = "addUnblock" => t.by # "none"

LEMMA GorUpdate ==
  ASSUME TInv, NEW g \in Goroutines, NEW t, GoodTask(t), gor' = [gor EXCEPT ![g] = t]
  PROVE  gor' \in [Goroutines -> Goroutine] /\ Busy'
BY Zenon DEF TInv, TypeOK, Busy, GoodTask

LEMMA GotoGood ==
  ASSUME TInv, NEW g \in Goroutines, NEW pc \in PCs,
         gor[g].pc \notin {"idle", "retryNext", "exchangeNext"},
         pc \in {"addInsert", "addUnblock"} => gor[g].by # "none",
         Goto(g, pc)
  PROVE  gor' \in [Goroutines -> Goroutine] /\ Busy'
<1> DEFINE t == [gor[g] EXCEPT !.pc = pc]
<1>1. gor[g] \in Goroutine /\ gor[g].peer \in Peers
  BY Zenon DEF TInv, TypeOK, Busy
<1>2. GoodTask(t)
  BY <1>1, Zenon DEF Goroutine, GoodTask
<1>3. gor' = [gor EXCEPT ![g] = t]
  BY Zenon DEF Goto
<1> QED
  BY <1>2, <1>3, GorUpdate, Zenon

LEMMA FinishGood ==
  ASSUME TInv, NEW g \in Goroutines, Finish(g)
  PROVE  gor' \in [Goroutines -> Goroutine] /\ Busy'
<1>1. GoodTask(Idle)
  BY Zenon DEF Idle, GoodTask, Goroutine, PCs
<1> QED
  BY <1>1, GorUpdate, Zenon DEF Finish

LEMMA ReturnGood ==
  ASSUME TInv, NEW g \in Goroutines, Return(g),
         gor[g].pc \notin {"idle", "retryNext", "exchangeNext"}
  PROVE  gor' \in [Goroutines -> Goroutine] /\ Busy'
<1> DEFINE t == [Idle EXCEPT !.pc = gor[g].then, !.queue = gor[g].queue,
                         !.peer = IF gor[g].then = "exStart" THEN gor[g].peer ELSE None]
<1>1. gor[g] \in Goroutine /\ gor[g].peer \in Peers
  BY Zenon DEF TInv, TypeOK, Busy
<1>2. GoodTask(t)
  <2>1. /\ gor[g].then \in {"idle", "exStart", "retryNext", "exchangeNext"}
        /\ gor[g].queue \in SUBSET Peers
    BY <1>1, Zenon DEF Goroutine
  <2>2. ASSUME NEW th \in {"idle", "exStart", "retryNext", "exchangeNext"},
               NEW q \in SUBSET Peers, NEW p \in Peers \cup {None},
               th = "exStart" => p \in Peers
        PROVE  GoodTask([Idle EXCEPT !.pc = th, !.queue = q, !.peer = p])
    <3> DEFINE r == [Idle EXCEPT !.pc = th, !.queue = q, !.peer = p]
    <3>1. r.pc = th /\ r.peer = p
      BY Zenon DEF Idle
    <3>2. th \in PCs /\ th \notin {"addInsert", "addUnblock"}
      BY Zenon DEF PCs
    <3>3. r \in Goroutine
      BY <3>2, Zenon DEF Goroutine, Idle
    <3> HIDE DEF r
    <3>4. GoodTask(r)
      BY <3>1, <3>2, <3>3, <2>2, Zenon DEF GoodTask
    <3> QED
      BY <3>4, Zenon DEF r
  <2>3. CASE gor[g].then = "exStart"
    BY <1>1, <2>1, <2>2, <2>3, Zenon
  <2>4. CASE gor[g].then # "exStart"
    BY <1>1, <2>1, <2>2, <2>4, Zenon
  <2> QED
    BY <2>3, <2>4, Zenon
<1>3. gor' = [gor EXCEPT ![g] = t]
  BY Zenon DEF Return
<1> QED
  BY <1>2, <1>3, GorUpdate, Zenon

(* Facts about gor' for a goroutine that starts a task or changes several  *)
(* fields; the tasks are listed one by one below.                          *)
LEMMA StartGood ==
  ASSUME TInv, NEW g \in Goroutines, NEW c, NEW t, GoodTask(t), Start(g, c, t)
  PROVE  gor' \in [Goroutines -> Goroutine] /\ Busy'
BY GorUpdate, Zenon DEF Start

LEMMA GoodTasks ==
  ASSUME NEW p \in Peers
  PROVE  /\ GoodTask(Task("exStart", p))
         /\ GoodTask(Task("blockUpsert", p))
         /\ GoodTask(Task("proxySet", p))
         /\ \A tok \in Invites \cup {None} : GoodTask([Task("authBlocked", p) EXCEPT !.tok = tok])
         /\ \A b \in {"auth", "friend", "accept"} :
              GoodTask([Task("addUnblock", p) EXCEPT !.by = b])
         /\ \A b \in BOOLEAN, pc \in {"statusBlocked", "connectedKnown"} :
              GoodTask([Task(pc, p) EXCEPT !.seen = b])
         /\ \A n \in {"idle", "exStart"} : GoodTask([Task("sendMark", p) EXCEPT !.then = n])
         /\ \A q \in SUBSET Peers :
              /\ GoodTask([Task("sendMark", p) EXCEPT !.then = "retryNext", !.queue = q])
              /\ GoodTask([Task("exStart", p) EXCEPT !.then = "exchangeNext", !.queue = q])
<1>1. /\ GoodTask(Task("exStart", p))
      /\ GoodTask(Task("blockUpsert", p))
      /\ GoodTask(Task("proxySet", p))
  BY ZenonT(40) DEF GoodTask, Goroutine, Task, Idle, PCs
<1>2. \A tok \in Invites \cup {None} : GoodTask([Task("authBlocked", p) EXCEPT !.tok = tok])
  BY ZenonT(40) DEF GoodTask, Goroutine, Task, Idle, PCs
<1>3. \A b \in {"auth", "friend", "accept"} : GoodTask([Task("addUnblock", p) EXCEPT !.by = b])
  BY ZenonT(40) DEF GoodTask, Goroutine, Task, Idle, PCs
<1>4. \A b \in BOOLEAN, pc \in {"statusBlocked", "connectedKnown"} :
        GoodTask([Task(pc, p) EXCEPT !.seen = b])
  <2>1. ASSUME NEW pc \in {"statusBlocked", "connectedKnown"}
        PROVE  GoodTask([Task(pc, p) EXCEPT !.seen = TRUE])
    BY ZenonT(40) DEF GoodTask, Goroutine, Task, Idle, PCs
  <2>2. ASSUME NEW pc \in {"statusBlocked", "connectedKnown"}
        PROVE  GoodTask([Task(pc, p) EXCEPT !.seen = FALSE])
    BY ZenonT(40) DEF GoodTask, Goroutine, Task, Idle, PCs
  <2> QED
    BY <2>1, <2>2, Zenon
<1>5. \A n \in {"idle", "exStart"} : GoodTask([Task("sendMark", p) EXCEPT !.then = n])
  BY ZenonT(40) DEF GoodTask, Goroutine, Task, Idle, PCs
<1>6. \A q \in SUBSET Peers :
        /\ GoodTask([Task("sendMark", p) EXCEPT !.then = "retryNext", !.queue = q])
        /\ GoodTask([Task("exStart", p) EXCEPT !.then = "exchangeNext", !.queue = q])
  <2> SUFFICES ASSUME NEW q \in SUBSET Peers,
                      NEW pc \in {"sendMark", "exStart"},
                      NEW th \in {"retryNext", "exchangeNext"}
               PROVE  GoodTask([Task(pc, p) EXCEPT !.then = th, !.queue = q])
    BY Zenon
  <2> DEFINE t == [Task(pc, p) EXCEPT !.then = th, !.queue = q]
  <2>1. pc \in PCs /\ pc \notin {"addInsert", "addUnblock"}
    BY Zenon DEF PCs
  <2>2. t \in Goroutine
    BY <2>1, Zenon DEF Goroutine, Task, Idle
  <2>3. t.pc = pc /\ t.peer = p
    BY Zenon DEF Task, Idle
  <2> HIDE DEF t
  <2>4. GoodTask(t)
    BY <2>1, <2>2, <2>3, Zenon DEF GoodTask
  <2> QED
    BY <2>4, Zenon DEF t
<1> QED
  BY <1>1, <1>2, <1>3, <1>4, <1>5, <1>6, Zenon

LEMMA GoodLoopTasks ==
  ASSUME NEW q \in SUBSET Peers
  PROVE  /\ GoodTask([Idle EXCEPT !.pc = "retryNext", !.queue = q])
         /\ GoodTask([Idle EXCEPT !.pc = "exchangeNext", !.queue = q])
         /\ GoodTask([Task("exchangeNext", None) EXCEPT !.then = "idle", !.queue = q])
BY Zenon DEF GoodTask, Goroutine, Task, Idle, PCs

(* What UNCHANGED <<config, auths, world>> leaves to show. *)
LEMMA OnlyGor ==
  ASSUME TInv, gor' \in [Goroutines -> Goroutine], Busy',
         UNCHANGED <<config, auths, world>>, heard' \subseteq Peers
  PROVE  TInv'
BY Zenon DEF TInv, TypeOK, config, auths, world

(* The peer of a goroutine that is not idle and not between two peers.     *)
LEMMA WorksOnPeer ==
  ASSUME TInv, NEW g \in Goroutines,
         gor[g].pc \notin {"idle", "retryNext", "exchangeNext"}
  PROVE  gor[g] \in Goroutine /\ gor[g].peer \in Peers
BY Zenon DEF TInv, TypeOK, Busy

LEMMA AuthHandlerTyped ==
  ASSUME TInv, NEW g \in Goroutines, AuthHandlerStep(g)
  PROVE  TInv'
<1>1. CASE AuthCheckBlocked(g)
  <2>1. gor' \in [Goroutines -> Goroutine] /\ Busy'
    BY <1>1, FinishGood, GotoGood, Zenon DEF AuthCheckBlocked, At, PCs
  <2> QED
    BY <1>1, <2>1, OnlyGor, Zenon DEF AuthCheckBlocked, TInv, TypeOK
<1>2. CASE AuthCheckKnown(g)
  <2>1. gor' \in [Goroutines -> Goroutine] /\ Busy'
    BY <1>2, FinishGood, GotoGood, Zenon DEF AuthCheckKnown, At, PCs
  <2> QED
    BY <1>2, <2>1, OnlyGor, Zenon DEF AuthCheckKnown, TInv, TypeOK
<1>3. CASE AuthCheckInvite(g)
  <2>1. CASE Goto(g, "authOffer")
    <3>1. gor' \in [Goroutines -> Goroutine] /\ Busy'
      BY <1>3, <2>1, GotoGood, Zenon DEF AuthCheckInvite, At, PCs
    <3> QED
      BY <1>3, <3>1, OnlyGor, Zenon DEF AuthCheckInvite, TInv, TypeOK
  <2>2. ASSUME NEW tok \in {gor[g].tok, None},
               gor' = [gor EXCEPT ![g].pc = "addUnblock", ![g].by = "auth", ![g].tok = tok]
        PROVE  TInv'
    <3> DEFINE t == [gor[g] EXCEPT !.pc = "addUnblock", !.by = "auth", !.tok = tok]
    <3>1. gor[g] \in Goroutine /\ gor[g].peer \in Peers
      BY <1>3, WorksOnPeer, Zenon DEF AuthCheckInvite, At
    <3>2. GoodTask(t)
      <4>0. "addUnblock" \in PCs
        BY DEF PCs
      <4>1. t \in Goroutine
        BY <3>1, <4>0, ZenonT(40) DEF Goroutine
      <4>2. t.peer = gor[g].peer /\ t.by = "auth"
        BY <3>1, Zenon DEF Goroutine
      <4> HIDE DEF t
      <4> QED
        BY <3>1, <4>1, <4>2, Zenon DEF GoodTask
    <3>3. gor' = [gor EXCEPT ![g] = t]
      BY <2>2, <3>1, Zenon DEF TInv, TypeOK
    <3>4. gor' \in [Goroutines -> Goroutine] /\ Busy'
      BY <3>2, <3>3, GorUpdate, Zenon
    <3> QED
      BY <1>3, <3>4, OnlyGor, Zenon DEF AuthCheckInvite, TInv, TypeOK
  <2> QED
    BY <1>3, <2>1, <2>2, Zenon DEF AuthCheckInvite
<1>4. CASE AuthOffer(g)
  <2>1. gor' \in [Goroutines -> Goroutine] /\ Busy'
    BY <1>4, FinishGood, Zenon DEF AuthOffer
  <2>2. gor[g].peer \in Peers
    BY <1>4, WorksOnPeer, Zenon DEF AuthOffer, At
  <2> QED
    BY <1>4, <2>1, <2>2, Zenon DEF AuthOffer, TInv, TypeOK, config, world
<1> QED
  BY <1>1, <1>2, <1>3, <1>4, Zenon DEF AuthHandlerStep

LEMMA AddPeerTyped ==
  ASSUME TInv, NEW g \in Goroutines, AddPeerStep(g)
  PROVE  TInv'
<1>1. CASE AddPeerUnblock(g)
  <2>1. gor[g].by # "none"
    BY <1>1, Zenon DEF AddPeerUnblock, At, TInv, Busy
  <2>2. gor' \in [Goroutines -> Goroutine] /\ Busy'
    BY <1>1, <2>1, GotoGood, Zenon DEF AddPeerUnblock, At, PCs
  <2> QED
    BY <1>1, <2>2, Zenon DEF AddPeerUnblock, TInv, TypeOK, auths, world
<1>2. CASE AddPeerInsert(g)
  <2>1. gor[g] \in Goroutine /\ gor[g].peer \in Peers
    BY <1>2, WorksOnPeer, Zenon DEF AddPeerInsert, At
  <2>2. gor' \in [Goroutines -> Goroutine] /\ Busy'
    BY <1>2, GotoGood, Zenon DEF AddPeerInsert, At, PCs
  <2>3. NewPeer(g) \in KnownPeer
    <3>1. gor[g].tok \in Invites \cup {None}
      BY <2>1, Zenon DEF Goroutine
    <3>2. CASE gor[g].by = "friend"
      <4>1. NewPeer(g) = [known |-> TRUE, confirmed |-> FALSE, declined |-> FALSE,
                          allowed |-> FALSE, inviteID |-> gor[g].tok]
        BY <3>2, Zenon DEF NewPeer
      <4> QED
        BY <3>1, <4>1 DEF KnownPeer
    <3>3. CASE gor[g].by # "friend"
      <4>1. NewPeer(g) = [known |-> TRUE, confirmed |-> TRUE, declined |-> FALSE,
                          allowed |-> FALSE, inviteID |-> gor[g].tok]
        BY <3>3, Zenon DEF NewPeer
      <4> QED
        BY <3>1, <4>1 DEF KnownPeer
    <3> QED
      BY <3>2, <3>3, Zenon
  <2>4. knownPeers' \in [Peers -> KnownPeer]
    BY <1>2, <2>1, <2>3, Zenon DEF AddPeerInsert, TInv, TypeOK
  <2>5. invites' \in [Invites -> Invite]
    <3>1. CASE gor[g].tok = None
      BY <1>2, <3>1, Zenon DEF AddPeerInsert, SpendUse, TInv, TypeOK
    <3>2. CASE gor[g].tok \in Invites
      <4>1. invites' = [invites EXCEPT ![gor[g].tok].used = @ + 1]
        BY <1>2, <3>2, NoneIsNoID, Zenon DEF AddPeerInsert, SpendUse
      <4>2. invites[gor[g].tok] \in Invite
        BY <3>2, Zenon DEF TInv, TypeOK
      <4>3. [invites[gor[g].tok] EXCEPT !.used = @ + 1] \in Invite
        BY <4>2 DEF Invite
      <4> QED
        BY <3>2, <4>1, <4>3, Zenon DEF TInv, TypeOK
    <3> QED
      BY <2>1, <3>1, <3>2, Zenon DEF Goroutine
  <2> QED
    BY <1>2, <2>2, <2>4, <2>5, Zenon DEF AddPeerInsert, TInv, TypeOK, auths, world
<1>3. CASE AddPeerRefused(g)
  <2>1. gor' \in [Goroutines -> Goroutine] /\ Busy'
    BY <1>3, FinishGood, GotoGood, Zenon DEF AddPeerRefused, AfterRefusal, At, PCs
  <2> QED
    BY <1>3, <2>1, OnlyGor, Zenon DEF AddPeerRefused, TInv, TypeOK
<1>4. CASE AddPeerClear(g)
  <2>1. gor[g].peer \in Peers
    BY <1>4, WorksOnPeer, Zenon DEF AddPeerClear, At
  <2>2. \E t : GoodTask(t) /\ gor' = [gor EXCEPT ![g] = t]
    BY <1>4, <2>1, GoodTasks, Zenon DEF AddPeerClear
  <2>3. gor' \in [Goroutines -> Goroutine] /\ Busy'
    BY <2>2, GorUpdate, Zenon
  <2> QED
    BY <1>4, <2>3, Zenon DEF AddPeerClear, TInv, TypeOK, config, world
<1> QED
  BY <1>1, <1>2, <1>3, <1>4, Zenon DEF AddPeerStep

LEMMA SendAuthTyped ==
  ASSUME TInv, NEW g \in Goroutines, SendAuthStep(g)
  PROVE  TInv'
<1>1. CASE SendAuthMark(g)
  <2>1. gor' \in [Goroutines -> Goroutine] /\ Busy'
    BY <1>1, GotoGood, Zenon DEF SendAuthMark, At, PCs
  <2>2. gor[g].peer \in Peers
    BY <1>1, WorksOnPeer, Zenon DEF SendAuthMark, At
  <2> QED
    BY <1>1, <2>1, <2>2, Zenon DEF SendAuthMark, TInv, TypeOK, config, world
<1>2. CASE SendAuthFailed(g)
  <2>1. gor' \in [Goroutines -> Goroutine] /\ Busy'
    BY <1>2, ReturnGood, Zenon DEF SendAuthFailed, At
  <2> QED
    BY <1>2, <2>1, OnlyGor, Zenon DEF SendAuthFailed, TInv, TypeOK
<1>3. ASSUME NEW c \in BOOLEAN, NEW d \in BOOLEAN, SendAuthReply(g, c, d)
      PROVE  TInv'
  <2>1. gor' \in [Goroutines -> Goroutine] /\ Busy'
    BY <1>3, ReturnGood, GotoGood, Zenon DEF SendAuthReply, At, PCs
  <2>2. gor[g].peer \in Peers
    BY <1>3, WorksOnPeer, Zenon DEF SendAuthReply, At
  <2>3. outgoingAuths' \subseteq Peers /\ heard' \subseteq Peers
    BY <1>3, <2>2, Zenon DEF SendAuthReply, TInv, TypeOK
  <2> QED
    BY <1>3, <2>1, <2>3, Zenon DEF SendAuthReply, TInv, TypeOK, config, world
<1>4. CASE SendAuthDeclined(g)
  <2>1. gor' \in [Goroutines -> Goroutine] /\ Busy'
    BY <1>4, ReturnGood, Zenon DEF SendAuthDeclined, At
  <2>2. gor[g].peer \in Peers
    BY <1>4, WorksOnPeer, Zenon DEF SendAuthDeclined, At
  <2>3. knownPeers' \in [Peers -> KnownPeer]
    <3> DEFINE p == gor[g].peer
    <3>1. knownPeers[p] \in KnownPeer
      BY <2>2, Zenon DEF TInv, TypeOK
    <3>2. [knownPeers[p] EXCEPT !.declined = @ \/ Known(p)] \in KnownPeer
      BY <3>1, Zenon DEF KnownPeer, Known
    <3> QED
      BY <1>4, <2>2, <3>2, Zenon DEF SendAuthDeclined, TInv, TypeOK
  <2> QED
    BY <1>4, <2>1, <2>3, Zenon DEF SendAuthDeclined, TInv, TypeOK, auths, world
<1> QED
  BY <1>1, <1>2, <1>3, <1>4, Zenon DEF SendAuthStep

LEMMA MessageGood ==
  ASSUME TInv, NEW g \in Goroutines, NEW info \in StatusInfos,
         gor[g].pc \notin {"idle", "retryNext", "exchangeNext"},
         gor' = [gor EXCEPT ![g].pc = "statusUpdate", ![g].msg = info]
  PROVE  gor' \in [Goroutines -> Goroutine] /\ Busy'
<1> DEFINE t == [gor[g] EXCEPT !.pc = "statusUpdate", !.msg = info]
<1>1. gor[g] \in Goroutine /\ gor[g].peer \in Peers
  BY WorksOnPeer, Zenon
<1>2. info \in {"declined", "deny", "allow"}
  BY OptionsTyped, Zenon
<1>3. GoodTask(t)
  <2>0. "statusUpdate" \in PCs
    BY DEF PCs
  <2>1. t \in Goroutine
    BY <1>1, <1>2, <2>0, ZenonT(40) DEF Goroutine
  <2>2. t.pc = "statusUpdate" /\ t.peer = gor[g].peer
    BY <1>1, Zenon DEF Goroutine
  <2> HIDE DEF t
  <2> QED
    BY <1>1, <2>1, <2>2, Zenon DEF GoodTask
<1>4. gor' = [gor EXCEPT ![g] = t]
  BY Zenon DEF TInv, TypeOK
<1> QED
  BY <1>3, <1>4, GorUpdate, Zenon

LEMMA SeenGood ==
  ASSUME TInv, NEW g \in Goroutines, NEW pc \in {"exReply", "statusReceive"},
         NEW seen \in BOOLEAN,
         gor[g].pc \notin {"idle", "retryNext", "exchangeNext"},
         gor' = [gor EXCEPT ![g].pc = pc, ![g].seen = seen]
  PROVE  gor' \in [Goroutines -> Goroutine] /\ Busy'
<1> DEFINE t == [gor[g] EXCEPT !.pc = pc, !.seen = seen]
<1>1. gor[g] \in Goroutine /\ gor[g].peer \in Peers
  BY WorksOnPeer, Zenon
<1>2. t \in Goroutine
  BY <1>1, ZenonT(40) DEF Goroutine, PCs
<1>3. t.pc = pc /\ t.peer = gor[g].peer
  BY <1>1, Zenon DEF Goroutine
<1>4. GoodTask(t)
  BY <1>1, <1>2, <1>3, Zenon DEF GoodTask
<1>5. gor' = [gor EXCEPT ![g] = t]
  BY Zenon DEF TInv, TypeOK
<1> QED
  BY <1>4, <1>5, GorUpdate, Zenon

LEMMA MergedTyped ==
  ASSUME NEW old \in KnownPeer, NEW info
  PROVE  /\ Merged(old, info) \in KnownPeer
         /\ Merged(old, info).known = old.known
         /\ Merged(old, info).inviteID = old.inviteID
<1>1. CASE info = "declined"
  BY <1>1, Zenon DEF Merged, KnownPeer
<1>2. CASE info = "allow"
  <2>1. Merged(old, info) = [old EXCEPT !.confirmed = TRUE, !.declined = FALSE, !.allowed = TRUE]
    BY <1>2, Zenon DEF Merged
  <2> QED
    BY <2>1, Zenon DEF KnownPeer
<1>3. CASE info # "declined" /\ info # "allow"
  <2>1. Merged(old, info) = [old EXCEPT !.confirmed = TRUE, !.declined = FALSE, !.allowed = FALSE]
    BY <1>3, Zenon DEF Merged
  <2> QED
    BY <2>1, Zenon DEF KnownPeer
<1> QED
  BY <1>1, <1>2, <1>3, Zenon

LEMMA ExchangeTyped ==
  ASSUME TInv, NEW g \in Goroutines, ExchangeStep(g)
  PROVE  TInv'
<1>1. CASE ExchangeStart(g)
  <2>1. gor' \in [Goroutines -> Goroutine] /\ Busy'
    BY <1>1, GotoGood, Zenon DEF ExchangeStart, At, PCs
  <2> QED
    BY <1>1, <2>1, Zenon DEF ExchangeStart, TInv, TypeOK, config, world
<1>2. CASE ExchangeSend(g)
  <2>1. gor' \in [Goroutines -> Goroutine] /\ Busy'
    <3> DEFINE b == gor[g].peer \in blockedPeers
    <3>1. b \in BOOLEAN
      OBVIOUS
    <3>2. gor' = [gor EXCEPT ![g].pc = "exReply", ![g].seen = b]
      BY <1>2, Zenon DEF ExchangeSend
    <3>3. gor[g].pc = "exBlocked"
      BY <1>2, Zenon DEF ExchangeSend, At
    <3> HIDE DEF b
    <3> QED
      BY <3>1, <3>2, <3>3, SeenGood, Zenon
  <2> QED
    BY <1>2, <2>1, OnlyGor, Zenon DEF ExchangeSend, TInv, TypeOK
<1>3. CASE ExchangeFailed(g)
  <2>1. gor' \in [Goroutines -> Goroutine] /\ Busy'
    BY <1>3, ReturnGood, Zenon DEF ExchangeFailed, At
  <2> QED
    BY <1>3, <2>1, OnlyGor, Zenon DEF ExchangeFailed, TInv, TypeOK
<1>4. ASSUME NEW info \in StatusInfos, ExchangeReply(g, info)
      PROVE  TInv'
  <2>1. gor' \in [Goroutines -> Goroutine] /\ Busy'
    BY <1>4, ReturnGood, MessageGood, Zenon DEF ExchangeReply, At
  <2>2. heard' \subseteq Peers
    BY <1>4, WorksOnPeer DEF ExchangeReply, At, TInv, TypeOK
  <2> QED
    BY <1>4, <2>1, <2>2, OnlyGor, Zenon DEF ExchangeReply
<1>5. CASE StatusUpdate(g)
  <2>1. gor' \in [Goroutines -> Goroutine] /\ Busy'
    BY <1>5, ReturnGood, GotoGood, Zenon DEF StatusUpdate, At, PCs
  <2>2. knownPeers' \in [Peers -> KnownPeer]
    <3> DEFINE p == gor[g].peer
    <3>1. p \in Peers /\ knownPeers[p] \in KnownPeer
      BY <1>5, WorksOnPeer, Zenon DEF StatusUpdate, At, TInv, TypeOK
    <3> QED
      BY <1>5, <3>1, MergedTyped, Zenon DEF StatusUpdate, TInv, TypeOK
  <2> QED
    BY <1>5, <2>1, <2>2, Zenon DEF StatusUpdate, TInv, TypeOK, auths, world
<1>6. CASE StatusClear(g)
  <2>1. gor' \in [Goroutines -> Goroutine] /\ Busy'
    BY <1>6, ReturnGood, Zenon DEF StatusClear, At
  <2>2. usingPeerID' \in Peers \cup {None}
    BY <1>6, Zenon DEF StatusClear, TInv, TypeOK
  <2> QED
    BY <1>6, <2>1, <2>2, Zenon DEF StatusClear, TInv, TypeOK, auths, world
<1> QED
  BY <1>1, <1>2, <1>3, <1>4, <1>5, <1>6, Zenon DEF ExchangeStep

LEMMA StatusHandlerTyped ==
  ASSUME TInv, NEW g \in Goroutines, StatusHandlerStep(g)
  PROVE  TInv'
<1>1. CASE StatusCheckBlocked(g)
  <2>1. gor' \in [Goroutines -> Goroutine] /\ Busy'
    <3> DEFINE b == gor[g].peer \in blockedPeers
    <3>1. b \in BOOLEAN
      OBVIOUS
    <3>2. Finish(g) \/ gor' = [gor EXCEPT ![g].pc = "statusReceive", ![g].seen = b]
      BY <1>1, Zenon DEF StatusCheckBlocked
    <3>3. gor[g].pc = "statusBlocked"
      BY <1>1, Zenon DEF StatusCheckBlocked, At
    <3> HIDE DEF b
    <3> QED
      BY <3>1, <3>2, <3>3, FinishGood, SeenGood, Zenon
  <2> QED
    BY <1>1, <2>1, OnlyGor, Zenon DEF StatusCheckBlocked, TInv, TypeOK
<1>2. CASE StatusReceiveFailed(g)
  <2>1. gor' \in [Goroutines -> Goroutine] /\ Busy'
    BY <1>2, FinishGood, Zenon DEF StatusReceiveFailed
  <2> QED
    BY <1>2, <2>1, OnlyGor, Zenon DEF StatusReceiveFailed, TInv, TypeOK
<1>3. ASSUME NEW info \in StatusInfos, StatusReceive(g, info)
      PROVE  TInv'
  <2>1. gor' \in [Goroutines -> Goroutine] /\ Busy'
    BY <1>3, FinishGood, MessageGood, Zenon DEF StatusReceive, At
  <2>2. heard' \subseteq Peers
    BY <1>3, WorksOnPeer DEF StatusReceive, At, TInv, TypeOK
  <2> QED
    BY <1>3, <2>1, <2>2, Zenon DEF StatusReceive, TInv, TypeOK, config, world
<1> QED
  BY <1>1, <1>2, <1>3, Zenon DEF StatusHandlerStep

LEMMA StepTyped ==
  ASSUME TInv, NEW g \in Goroutines, Step(g)
  PROVE  TInv'
<1>1. CASE BlockUpsert(g)
  <2>1. gor' \in [Goroutines -> Goroutine] /\ Busy'
    BY <1>1, GotoGood, Zenon DEF BlockUpsert, At, PCs
  <2>2. gor[g].peer \in Peers
    BY <1>1, WorksOnPeer, Zenon DEF BlockUpsert, At
  <2> QED
    BY <1>1, <2>1, <2>2, Zenon DEF BlockUpsert, TInv, TypeOK, auths, world
<1>2. CASE BlockForget(g)
  <2>1. gor' \in [Goroutines -> Goroutine] /\ Busy'
    BY <1>2, GotoGood, Zenon DEF BlockForget, At, PCs
  <2> QED
    BY <1>2, <2>1, Zenon DEF BlockForget, TInv, TypeOK, config, world
<1>3. CASE SetProxyPeerID(g)
  <2>1. gor' \in [Goroutines -> Goroutine] /\ Busy'
    BY <1>3, FinishGood, Zenon DEF SetProxyPeerID
  <2>2. gor[g].peer \in Peers
    BY <1>3, WorksOnPeer, Zenon DEF SetProxyPeerID, At
  <2> QED
    BY <1>3, <2>1, <2>2, Zenon DEF SetProxyPeerID, TInv, TypeOK, auths, world
<1>4. CASE ConnectedLookup(g)
  <2>1. gor[g].peer \in Peers
    BY <1>4, WorksOnPeer, Zenon DEF ConnectedLookup, At
  <2>2. GoodTask(Idle)
    BY Zenon DEF GoodTask, Idle, Goroutine, PCs
  <2>3. \E t : GoodTask(t) /\ gor' = [gor EXCEPT ![g] = t]
    BY <1>4, <2>1, <2>2, GoodTasks, Zenon DEF ConnectedLookup
  <2>4. gor' \in [Goroutines -> Goroutine] /\ Busy'
    BY <2>3, GorUpdate, Zenon
  <2> QED
    BY <1>4, <2>4, OnlyGor, Zenon DEF ConnectedLookup, TInv, TypeOK
<1>5. CASE RetryNext(g)
  <2>1. gor[g].queue \subseteq Peers
    BY Zenon DEF TInv, TypeOK, Goroutine
  <2>2. Finish(g) \/ \E t : GoodTask(t) /\ gor' = [gor EXCEPT ![g] = t]
    BY <1>5, <2>1, GoodTasks, Zenon DEF RetryNext
  <2>3. gor' \in [Goroutines -> Goroutine] /\ Busy'
    BY <2>2, FinishGood, GorUpdate, Zenon
  <2> QED
    BY <1>5, <2>3, OnlyGor, Zenon DEF RetryNext, TInv, TypeOK
<1>6. CASE ExchangeNext(g)
  <2>1. gor[g].queue \subseteq Peers
    BY Zenon DEF TInv, TypeOK, Goroutine
  <2>2. ASSUME NEW p \in gor[g].queue, Known(p),
               gor' = [gor EXCEPT ![g] = [Task("exStart", p) EXCEPT
                         !.then = "exchangeNext", !.queue = gor[g].queue \ {p}]]
        PROVE  gor' \in [Goroutines -> Goroutine] /\ Busy'
    BY <2>1, <2>2, GoodTasks, GorUpdate, Zenon
  <2>3. ASSUME NEW p \in gor[g].queue, ~Known(p),
               gor' = [gor EXCEPT ![g] = [Task("exchangeNext", None) EXCEPT
                         !.then = "idle", !.queue = gor[g].queue \ {p}]]
        PROVE  gor' \in [Goroutines -> Goroutine] /\ Busy'
    BY <2>1, <2>3, GoodLoopTasks, GorUpdate, Zenon
  <2>4. gor' \in [Goroutines -> Goroutine] /\ Busy'
    BY <1>6, <2>2, <2>3, FinishGood, Zenon DEF ExchangeNext
  <2> QED
    BY <1>6, <2>4, OnlyGor, Zenon DEF ExchangeNext, TInv, TypeOK
<1> QED
  BY <1>1, <1>2, <1>3, <1>4, <1>5, <1>6, AuthHandlerTyped, AddPeerTyped,
     SendAuthTyped, ExchangeTyped, StatusHandlerTyped, Zenon DEF Step

LEMMA CallTyped ==
  ASSUME TInv, NEW g \in Workers, NEW p \in Peers, Call(g, p)
  PROVE  TInv'
<1>0. g \in Goroutines
  BY Zenon DEF Goroutines
<1>1. ASSUME NEW tok \in Invites \cup {None}, AuthStreamHandler(g, p, tok)
      PROVE  TInv'
  <2>1. gor' \in [Goroutines -> Goroutine] /\ Busy'
    BY <1>0, <1>1, GoodTasks, StartGood, Zenon DEF AuthStreamHandler
  <2> QED
    BY <1>1, <2>1, OnlyGor, Zenon DEF AuthStreamHandler, TInv, TypeOK
<1>2. CASE StatusStreamHandler(g, p)
  <2>1. gor' \in [Goroutines -> Goroutine] /\ Busy'
    <3>1. Known(p) \in BOOLEAN
      BY Zenon DEF TInv, TypeOK, Known, KnownPeer
    <3>2. GoodTask([Task("statusBlocked", p) EXCEPT !.seen = Known(p)])
      BY <3>1, GoodTasks, Zenon
    <3> QED
      BY <1>0, <1>2, <3>2, StartGood, Zenon DEF StatusStreamHandler
  <2> QED
    BY <1>2, <2>1, OnlyGor, Zenon DEF StatusStreamHandler, TInv, TypeOK
<1>3. CASE SendFriendRequest(g, p)
  <2>1. gor' \in [Goroutines -> Goroutine] /\ Busy'
    BY <1>0, <1>3, GoodTasks, StartGood, Zenon DEF SendFriendRequest
  <2> QED
    BY <1>3, <2>1, OnlyGor, Zenon DEF SendFriendRequest, TInv, TypeOK
<1>4. ASSUME NEW decline \in BOOLEAN, AcceptFriend(g, p, decline)
      PROVE  TInv'
  <2>1. gor' \in [Goroutines -> Goroutine] /\ Busy'
    BY <1>0, <1>4, GoodTasks, StartGood, Zenon DEF AcceptFriend
  <2> QED
    BY <1>4, <2>1, OnlyGor, Zenon DEF AcceptFriend, TInv, TypeOK
<1>5. CASE RemovePeer(g, p)
  <2>1. gor' \in [Goroutines -> Goroutine] /\ Busy'
    BY <1>0, <1>5, GoodTasks, StartGood, Zenon DEF RemovePeer
  <2>2. ZeroPeer \in KnownPeer
    BY Zenon DEF ZeroPeer, KnownPeer
  <2> QED
    BY <1>5, <2>1, <2>2, Zenon DEF RemovePeer, TInv, TypeOK, auths, world
<1>6. CASE UpdatePeerSettings(g, p)
  <2>1. gor' \in [Goroutines -> Goroutine] /\ Busy'
    BY <1>0, <1>6, GoodTasks, StartGood, Zenon DEF UpdatePeerSettings
  <2> QED
    BY <1>6, <2>1, OnlyGor, Zenon DEF UpdatePeerSettings, TInv, TypeOK
<1>7. CASE UpdateProxySettings(g, p)
  <2>1. gor' \in [Goroutines -> Goroutine] /\ Busy'
    BY <1>0, <1>7, GoodTasks, StartGood, Zenon DEF UpdateProxySettings
  <2> QED
    BY <1>7, <2>1, OnlyGor, Zenon DEF UpdateProxySettings, TInv, TypeOK
<1>8. CASE OnPeerConnected(g, p)
  <2>1. gor' \in [Goroutines -> Goroutine] /\ Busy'
    <3> DEFINE b == p \in outgoingAuths
    <3>1. b \in BOOLEAN
      OBVIOUS
    <3>2. Start(g, "connected", [Task("connectedKnown", p) EXCEPT !.seen = b])
      BY <1>8, Zenon DEF OnPeerConnected
    <3> HIDE DEF b
    <3>3. GoodTask([Task("connectedKnown", p) EXCEPT !.seen = b])
      BY <3>1, GoodTasks, Zenon
    <3> QED
      BY <1>0, <3>2, <3>3, StartGood, Zenon
  <2> QED
    BY <1>8, <2>1, OnlyGor, Zenon DEF OnPeerConnected, TInv, TypeOK
<1> QED
  BY <1>1, <1>2, <1>3, <1>4, <1>5, <1>6, <1>7, <1>8, Zenon DEF Call

LEMMA NextTyped == TInv /\ [Next]_vars => TInv'
<1> SUFFICES ASSUME TInv, [Next]_vars PROVE TInv'
  OBVIOUS
<1>1. ASSUME NEW g \in Workers \cup {StatusLoop}, ExchangeAll(g)
      PROVE  TInv'
  <2>1. g \in Goroutines
    BY Zenon DEF Goroutines
  <2>2. gor' \in [Goroutines -> Goroutine] /\ Busy'
    BY <1>1, <2>1, GoodLoopTasks, StartGood, Zenon DEF ExchangeAll
  <2> QED
    BY <1>1, <2>2, OnlyGor, Zenon DEF ExchangeAll, TInv, TypeOK
<1>2. CASE RetryTick
  <2>1. RetryLoop \in Goroutines /\ outgoingAuths \in SUBSET Peers
    BY Zenon DEF Goroutines, TInv, TypeOK
  <2>2. gor' \in [Goroutines -> Goroutine] /\ Busy'
    BY <1>2, <2>1, GoodLoopTasks, StartGood, Zenon DEF RetryTick
  <2> QED
    BY <1>2, <2>2, OnlyGor, Zenon DEF RetryTick, TInv, TypeOK
<1>3. CASE ClearProxyPeerID
  BY <1>3, Zenon DEF ClearProxyPeerID, TInv, TypeOK, Busy, auths, world
<1>4. ASSUME NEW i \in Invites, InviteCall(i)
      PROVE  TInv'
  <2>1. ASSUME NEW m \in UseLimits, CreateInvite(i, m)
        PROVE  TInv'
    <3>1. m \in Int
      BY UseLimitsAreNumbers, Zenon
    <3>2. (IF m < 1 THEN 1 ELSE m) \in Nat \ {0}
      BY <3>1
    <3>3. [created |-> TRUE, revoked |-> FALSE, used |-> 0,
           max |-> IF m < 1 THEN 1 ELSE m] \in Invite
      BY <3>2, Zenon DEF Invite
    <3> QED
      BY <2>1, <3>3, Zenon DEF CreateInvite, TInv, TypeOK, Busy, auths
  <2>2. CASE RevokeInvite(i)
    <3>1. [invites[i] EXCEPT !.revoked = TRUE] \in Invite
      <4>1. invites[i] \in Invite
        BY Zenon DEF TInv, TypeOK
      <4> QED
        BY <4>1, Zenon DEF Invite
    <3> QED
      BY <2>2, <3>1, Zenon DEF RevokeInvite, TInv, TypeOK, Busy, auths, world
  <2>3. CASE ExpireInvite(i)
    BY <2>3, Zenon DEF ExpireInvite, TInv, TypeOK, Busy, config, auths
  <2> QED
    BY <1>4, <2>1, <2>2, <2>3, Zenon DEF InviteCall
<1>5. CASE WriteConfig
  BY <1>5, Zenon DEF WriteConfig, Snapshot, TInv, TypeOK, Busy, config, auths
<1>6. CASE Crash
  <2>1. Idle \in Goroutine
    BY Zenon DEF Idle, Goroutine, PCs
  <2>2. gor' \in [Goroutines -> Goroutine] /\ Busy'
    BY <1>6, <2>1, Zenon DEF Crash, Busy, Idle
  <2> QED
    BY <1>6, <2>2 DEF Crash, RestoreOutgoingAuths, TInv, TypeOK
<1>7. CASE UNCHANGED vars
  BY <1>7, Zenon DEF vars, config, auths, world, TInv, TypeOK, Busy
<1> QED
  BY <1>1, <1>2, <1>3, <1>4, <1>5, <1>6, <1>7, StepTyped, CallTyped, Zenon DEF Next

(* Type correctness of the friend list, its goroutines and the config      *)
(* file, in every reachable state.                                         *)
THEOREM TypeCorrect == Spec => []TypeOK
<1>1. TInv => TypeOK
  BY Zenon DEF TInv
<1> QED
  BY InitTyped, NextTyped, <1>1, PTL DEF Spec

(***************************************************************************)
(* Invite uses.  InviteUses is not inductive: a crash replaces memory by   *)
(* the file, so the file must satisfy it too; and CreateInvite starts a    *)
(* record at zero uses, so an ID not created must not have been used.      *)
(***************************************************************************)
WithinUses(peers, inv) ==
  \A i \in Invites : /\ Cardinality(AdmittedBy(peers, i)) <= inv[i].used
                     /\ inv[i].used <= inv[i].max
                     /\ ~inv[i].created => inv[i].used = 0

UInv == TInv /\ WithinUses(knownPeers, invites) /\ WithinUses(disk.peers, disk.invites)

LEMMA AdmittedFinite ==
  ASSUME NEW peers, NEW i
  PROVE  /\ IsFiniteSet(AdmittedBy(peers, i))
         /\ Cardinality(AdmittedBy(peers, i)) \in Nat
<1>1. AdmittedBy(peers, i) \subseteq Peers
  BY Zenon DEF AdmittedBy
<1> QED
  BY <1>1, PeersFinite, FS_Subset, FS_CardinalityType, Zenon

(* A step that admits nobody: no record enters or changes its invite.      *)
AdmitsNobody ==
  /\ invites' = invites
  /\ \A p \in Peers : knownPeers'[p].known =>
       knownPeers[p].known /\ knownPeers'[p].inviteID = knownPeers[p].inviteID

LEMMA NobodyKeepsUses ==
  ASSUME AdmitsNobody, WithinUses(knownPeers, invites), invites \in [Invites -> Invite]
  PROVE  WithinUses(knownPeers', invites')
<1> SUFFICES ASSUME NEW i \in Invites
             PROVE  /\ Cardinality(AdmittedBy(knownPeers', i)) <= invites[i].used
                    /\ invites[i].used <= invites[i].max
                    /\ ~invites[i].created => invites[i].used = 0
  BY Zenon DEF WithinUses, AdmitsNobody
<1>1. AdmittedBy(knownPeers', i) \subseteq AdmittedBy(knownPeers, i)
  BY Zenon DEF AdmittedBy, AdmitsNobody
<1>2. Cardinality(AdmittedBy(knownPeers', i)) <= Cardinality(AdmittedBy(knownPeers, i))
  BY <1>1, AdmittedFinite, FS_Subset, Zenon
<1>3. invites[i].used \in Nat
  BY Zenon DEF Invite
<1> QED
  BY <1>2, <1>3, AdmittedFinite DEF WithinUses

LEMMA StepAdmits ==
  ASSUME TInv, NEW g \in Goroutines, Step(g)
  PROVE  /\ disk' = disk /\ restarts' = restarts
         /\ AddPeerInsert(g) \/ AdmitsNobody
<1>1. disk' = disk /\ restarts' = restarts
  BY Zenon DEF Step, AuthHandlerStep, AddPeerStep, SendAuthStep, ExchangeStep, StatusHandlerStep,
         AuthCheckBlocked, AuthCheckKnown, AuthCheckInvite, AuthOffer,
         AddPeerUnblock, AddPeerInsert, AddPeerRefused, AddPeerClear,
         SendAuthMark, SendAuthFailed, SendAuthReply, SendAuthDeclined,
         ExchangeStart, ExchangeSend, ExchangeFailed, ExchangeReply, StatusUpdate, StatusClear,
         StatusCheckBlocked, StatusReceive, StatusReceiveFailed,
         BlockUpsert, BlockForget, SetProxyPeerID, ConnectedLookup, RetryNext, ExchangeNext, world
<1>2. CASE StatusUpdate(g)
  <2> DEFINE p == gor[g].peer
  <2>1. p \in Peers /\ knownPeers[p] \in KnownPeer
    BY <1>2, WorksOnPeer, Zenon DEF StatusUpdate, At, TInv, TypeOK
  <2>2. knownPeers' = [knownPeers EXCEPT ![p] =
                         IF @.known THEN Merged(@, gor[g].msg) ELSE @]
    BY <1>2, Zenon DEF StatusUpdate
  <2>3. invites' = invites
    BY <1>2, Zenon DEF StatusUpdate
  <2>4. /\ \A q \in Peers \ {p} : knownPeers'[q] = knownPeers[q]
        /\ knownPeers'[p] = IF knownPeers[p].known THEN Merged(knownPeers[p], gor[g].msg)
                                                   ELSE knownPeers[p]
    BY <2>1, <2>2, Zenon DEF TInv, TypeOK
  <2>5. knownPeers'[p].known =>
          knownPeers[p].known /\ knownPeers'[p].inviteID = knownPeers[p].inviteID
    <3>1. CASE knownPeers[p].known
      BY <2>1, <2>4, <3>1, MergedTyped
    <3>2. CASE ~knownPeers[p].known
      BY <2>4, <3>2
    <3> QED BY <3>1, <3>2
  <2>6. AdmitsNobody
    BY <2>3, <2>4, <2>5, Zenon DEF AdmitsNobody
  <2> QED
    BY <1>1, <2>6
<1>3. CASE SendAuthDeclined(g)
  <2> DEFINE p == gor[g].peer
  <2>1. p \in Peers /\ knownPeers[p] \in KnownPeer
    BY <1>3, WorksOnPeer, Zenon DEF SendAuthDeclined, At, TInv, TypeOK
  <2>2. knownPeers' = [knownPeers EXCEPT ![p].declined = @ \/ Known(p)]
    BY <1>3, Zenon DEF SendAuthDeclined
  <2>3. invites' = invites
    BY <1>3, Zenon DEF SendAuthDeclined
  <2> QED
    BY <2>1, <2>2, <2>3, <1>1, Zenon DEF AdmitsNobody, TInv, TypeOK, KnownPeer
<1>4. CASE ~StatusUpdate(g) /\ ~SendAuthDeclined(g) /\ ~AddPeerInsert(g)
  <2>1. knownPeers' = knownPeers /\ invites' = invites
    BY <1>4, Zenon
    DEF Step, AuthHandlerStep, AddPeerStep, SendAuthStep, ExchangeStep, StatusHandlerStep,
        AuthCheckBlocked, AuthCheckKnown, AuthCheckInvite, AuthOffer,
        AddPeerUnblock, AddPeerRefused, AddPeerClear,
        SendAuthMark, SendAuthFailed, SendAuthReply,
        ExchangeStart, ExchangeSend, ExchangeFailed, ExchangeReply, StatusClear,
        StatusCheckBlocked, StatusReceive, StatusReceiveFailed,
        BlockUpsert, BlockForget, SetProxyPeerID, ConnectedLookup, RetryNext, ExchangeNext, config
  <2> QED
    BY <2>1, <1>1, Zenon DEF AdmitsNobody
<1> QED
  BY <1>1, <1>2, <1>3, <1>4, Zenon

LEMMA CallAdmits ==
  ASSUME TInv, NEW g \in Workers, NEW p \in Peers, Call(g, p)
  PROVE  disk' = disk /\ restarts' = restarts /\ AdmitsNobody
<1>1. CASE RemovePeer(g, p)
  BY <1>1, Zenon DEF RemovePeer, AdmitsNobody, ZeroPeer, world, TInv, TypeOK
<1>2. CASE ~RemovePeer(g, p)
  BY <1>2, Zenon DEF Call, AuthStreamHandler, StatusStreamHandler, SendFriendRequest, AcceptFriend,
              UpdatePeerSettings, UpdateProxySettings, OnPeerConnected, AdmitsNobody, config, world
<1> QED
  BY <1>1, <1>2, Zenon

(* What AddPeer's critical section does to the peers let in by an invite.  *)
LEMMA InsertAdmits ==
  ASSUME TInv, NEW g \in Goroutines, AddPeerInsert(g), NEW i \in Invites
  PROVE  \/ /\ AdmittedBy(knownPeers', i) = AdmittedBy(knownPeers, i)
            /\ invites'[i] = invites[i]
         \/ /\ gor[g].tok = i
            /\ Usable(i)
            /\ ~Known(gor[g].peer)
            /\ gor[g].peer \in Peers
            /\ AdmittedBy(knownPeers', i) = AdmittedBy(knownPeers, i) \cup {gor[g].peer}
            /\ gor[g].peer \notin AdmittedBy(knownPeers, i)
            /\ invites'[i] = [invites[i] EXCEPT !.used = @ + 1]
<1> DEFINE p == gor[g].peer
<1>1. p \in Peers /\ gor[g] \in Goroutine
  BY WorksOnPeer, Zenon DEF AddPeerInsert, At
<1>2. /\ ~knownPeers[p].known
      /\ knownPeers' = [knownPeers EXCEPT ![p] = NewPeer(g)]
      /\ invites' = SpendUse(gor[g].tok)
      /\ gor[g].tok # None => Usable(gor[g].tok)
  BY Zenon DEF AddPeerInsert, Known
<1>3. NewPeer(g).known /\ NewPeer(g).inviteID = gor[g].tok
  BY Zenon DEF NewPeer
<1>4. \A q \in Peers : knownPeers'[q] = IF q = p THEN NewPeer(g) ELSE knownPeers[q]
  BY <1>1, <1>2, Zenon DEF TInv, TypeOK
<1>5. CASE gor[g].tok = i
  <2>1. AdmittedBy(knownPeers', i) = AdmittedBy(knownPeers, i) \cup {p}
    BY <1>1, <1>3, <1>4, <1>5, Zenon DEF AdmittedBy
  <2>2. p \notin AdmittedBy(knownPeers, i)
    BY <1>2, Zenon DEF AdmittedBy
  <2>3. invites'[i] = [invites[i] EXCEPT !.used = @ + 1]
    BY <1>2, <1>5, NoneIsNoID, Zenon DEF SpendUse, TInv, TypeOK
  <2> QED
    BY <1>1, <1>2, <1>5, <2>1, <2>2, <2>3, NoneIsNoID, Zenon DEF Known
<1>6. CASE gor[g].tok # i
  <2>1. AdmittedBy(knownPeers', i) = AdmittedBy(knownPeers, i)
    BY <1>1, <1>2, <1>3, <1>4, <1>6 DEF AdmittedBy
  <2>2. invites'[i] = invites[i]
    BY <1>2, <1>6, Zenon DEF SpendUse, TInv, TypeOK
  <2> QED
    BY <2>1, <2>2, Zenon
<1> QED
  BY <1>5, <1>6, Zenon

LEMMA InsertKeepsUses ==
  ASSUME TInv, NEW g \in Goroutines, AddPeerInsert(g), WithinUses(knownPeers, invites)
  PROVE  WithinUses(knownPeers', invites')
<1> SUFFICES ASSUME NEW i \in Invites
             PROVE  /\ Cardinality(AdmittedBy(knownPeers', i)) <= invites'[i].used
                    /\ invites'[i].used <= invites'[i].max
                    /\ ~invites'[i].created => invites'[i].used = 0
  BY Zenon DEF WithinUses
<1>1. invites[i] \in Invite
  BY Zenon DEF TInv, TypeOK
<1>2. /\ Cardinality(AdmittedBy(knownPeers, i)) <= invites[i].used
      /\ invites[i].used <= invites[i].max
      /\ ~invites[i].created => invites[i].used = 0
  BY Zenon DEF WithinUses
<1>3. CASE /\ AdmittedBy(knownPeers', i) = AdmittedBy(knownPeers, i)
           /\ invites'[i] = invites[i]
  BY <1>2, <1>3, Zenon
<1>4. CASE /\ Usable(i)
           /\ AdmittedBy(knownPeers', i) = AdmittedBy(knownPeers, i) \cup {gor[g].peer}
           /\ gor[g].peer \notin AdmittedBy(knownPeers, i)
           /\ invites'[i] = [invites[i] EXCEPT !.used = @ + 1]
  <2>1. Cardinality(AdmittedBy(knownPeers', i)) = Cardinality(AdmittedBy(knownPeers, i)) + 1
    BY <1>4, AdmittedFinite, FS_AddElement, Zenon
  <2>2. /\ invites'[i].used = invites[i].used + 1
        /\ invites'[i].max = invites[i].max
        /\ invites'[i].created = invites[i].created
    BY <1>1, <1>4, Zenon DEF Invite
  <2>3. invites[i].created /\ invites[i].used < invites[i].max
    BY <1>4, Zenon DEF Usable
  <2>4. invites[i].used \in Nat /\ invites[i].max \in Nat
    BY <1>1, Zenon DEF Invite
  <2> QED
    BY SMTT(30), <1>2, <2>1, <2>2, <2>3, <2>4, AdmittedFinite
<1> QED
  BY <1>3, <1>4, InsertAdmits, Zenon

LEMMA InviteCallKeepsUses ==
  ASSUME TInv, NEW i \in Invites, InviteCall(i), WithinUses(knownPeers, invites)
  PROVE  WithinUses(knownPeers', invites') /\ disk' = disk
<1>1. ASSUME NEW m \in UseLimits, CreateInvite(i, m)
      PROVE  WithinUses(knownPeers', invites') /\ disk' = disk
  <2>1. invites[i].used = 0
    BY <1>1, Zenon DEF CreateInvite, WithinUses
  <2>2. Cardinality(AdmittedBy(knownPeers, i)) <= 0
    BY <2>1, Zenon DEF WithinUses
  <2>3. invites'[i].used = 0 /\ invites'[i].max \in Nat
    BY <1>1, UseLimitsAreNumbers DEF CreateInvite, TInv, TypeOK
  <2>4. knownPeers' = knownPeers /\ disk' = disk
        /\ \A j \in Invites \ {i} : invites'[j] = invites[j]
    BY <1>1, Zenon DEF CreateInvite, TInv, TypeOK
  <2> QED
    BY <2>2, <2>3, <2>4 DEF WithinUses
<1>2. CASE RevokeInvite(i)
  <2>1. /\ knownPeers' = knownPeers /\ disk' = disk
        /\ \A j \in Invites : invites'[j] = IF j = i THEN [invites[i] EXCEPT !.revoked = TRUE]
                                            ELSE invites[j]
    BY <1>2, Zenon DEF RevokeInvite, world, TInv, TypeOK
  <2>2. invites[i] \in Invite
    BY Zenon DEF TInv, TypeOK
  <2>3. \A j \in Invites : /\ invites'[j].used = invites[j].used
                           /\ invites'[j].max = invites[j].max
                           /\ invites'[j].created = invites[j].created
    BY <2>1, <2>2 DEF Invite
  <2> QED
    BY <2>1, <2>3, Zenon DEF WithinUses
<1>3. CASE ExpireInvite(i)
  BY <1>3, Zenon DEF ExpireInvite, config
<1> QED
  BY <1>1, <1>2, <1>3, Zenon DEF InviteCall

LEMMA InitUses == Init => UInv
<1> SUFFICES ASSUME Init PROVE UInv
  OBVIOUS
<1>1. TInv
  BY InitTyped, Zenon
<1>2. ASSUME NEW i \in Invites PROVE AdmittedBy(knownPeers, i) = {}
  BY Zenon DEF Init, AdmittedBy, ZeroPeer
<1>3. WithinUses(knownPeers, invites)
  BY SMTT(30), <1>2, FS_EmptySet DEF Init, WithinUses, ZeroInvite
<1>4. disk.peers = knownPeers /\ disk.invites = invites
  BY Zenon DEF Init, Snapshot
<1> QED
  BY <1>1, <1>3, <1>4, Zenon DEF UInv

LEMMA NextUses == UInv /\ [Next]_vars => UInv'
<1> SUFFICES ASSUME UInv, [Next]_vars PROVE UInv'
  OBVIOUS
<1>0. TInv /\ TInv' /\ invites \in [Invites -> Invite]
  BY NextTyped, Zenon DEF UInv, TInv, TypeOK
<1>1. ASSUME NEW g \in Goroutines, Step(g) PROVE UInv'
  BY <1>0, <1>1, StepAdmits, InsertKeepsUses, NobodyKeepsUses, Zenon DEF UInv
<1>2. ASSUME NEW g \in Workers, NEW p \in Peers, Call(g, p) PROVE UInv'
  BY <1>0, <1>2, CallAdmits, NobodyKeepsUses, Zenon DEF UInv
<1>3. ASSUME NEW i \in Invites, InviteCall(i) PROVE UInv'
  BY <1>0, <1>3, InviteCallKeepsUses, Zenon DEF UInv
<1>4. CASE WriteConfig
  <2>1. /\ disk'.peers = knownPeers /\ disk'.invites = invites
        /\ knownPeers' = knownPeers /\ invites' = invites
    BY <1>4, Zenon DEF WriteConfig, Snapshot, config
  <2> QED
    BY <1>0, <2>1, Zenon DEF UInv
<1>5. CASE Crash
  BY <1>0, <1>5, Zenon DEF Crash, UInv
<1>6. CASE \/ ExchangeAll(StatusLoop)
           \/ RetryTick \/ ClearProxyPeerID \/ UNCHANGED vars
  <2>1. knownPeers' = knownPeers /\ invites' = invites /\ disk' = disk
    BY <1>6, Zenon DEF ExchangeAll, RetryTick, ClearProxyPeerID, vars, config, world
  <2> QED
    BY <1>0, <2>1, Zenon DEF UInv
<1> QED
  BY <1>1, <1>2, <1>3, <1>4, <1>5, <1>6, Zenon DEF Next

(* No invite lets in more peers than it has uses: InviteUses for every     *)
(* number of peers, invites and goroutines, and across crashes.            *)
THEOREM InviteUsesHold == Spec => []InviteUses
<1>1. UInv => InviteUses
  BY Zenon DEF UInv, WithinUses, InviteUses
<1> QED
  BY InitUses, NextUses, <1>1, PTL DEF Spec

LEMMA NextRedeems ==
  ASSUME UInv, Next, restarts' = restarts, NEW i \in Invites
  PROVE  RedeemsOne(i)
<1>0. TInv /\ invites[i] \in Invite
  BY Zenon DEF UInv, TInv, TypeOK
<1>1. ASSUME AdmitsNobody PROVE RedeemsOne(i)
  BY <1>1, Zenon DEF AdmitsNobody, RedeemsOne, AdmittedBy
<1>2. ASSUME NEW g \in Goroutines, AddPeerInsert(g) PROVE RedeemsOne(i)
  <2>1. CASE /\ AdmittedBy(knownPeers', i) = AdmittedBy(knownPeers, i)
             /\ invites'[i] = invites[i]
    BY <2>1, Zenon DEF RedeemsOne
  <2>2. CASE /\ Usable(i)
             /\ ~Known(gor[g].peer)
             /\ gor[g].peer \in Peers
             /\ AdmittedBy(knownPeers', i) = AdmittedBy(knownPeers, i) \cup {gor[g].peer}
             /\ gor[g].peer \notin AdmittedBy(knownPeers, i)
             /\ invites'[i] = [invites[i] EXCEPT !.used = @ + 1]
    <3>1. invites'[i].used = invites[i].used + 1
      BY <1>0, <2>2, Zenon DEF Invite
    <3>2. AdmittedBy(knownPeers', i) \ AdmittedBy(knownPeers, i) = {gor[g].peer}
      BY <2>2, Zenon
    <3> QED
      BY <2>2, <3>1, <3>2, Zenon DEF RedeemsOne
  <2> QED
    BY <1>0, <1>2, <2>1, <2>2, InsertAdmits, Zenon
<1>3. ASSUME NEW j \in Invites, InviteCall(j) PROVE RedeemsOne(i)
  <2>1. ASSUME NEW m \in UseLimits, CreateInvite(j, m)
        PROVE  knownPeers' = knownPeers /\ invites'[i].used = invites[i].used
    <3>1. invites[j].used = 0
      BY <2>1, Zenon DEF CreateInvite, UInv, WithinUses
    <3> QED
      BY <2>1, <3>1, Zenon DEF CreateInvite, UInv, TInv, TypeOK
  <2>2. ASSUME RevokeInvite(j)
        PROVE  knownPeers' = knownPeers /\ invites'[i].used = invites[i].used
    <3>1. invites'[i] \in {invites[i], [invites[i] EXCEPT !.revoked = TRUE]}
      BY <2>2, Zenon DEF RevokeInvite, UInv, TInv, TypeOK
    <3> QED
      BY <1>0, <2>2, <3>1 DEF RevokeInvite, Invite
  <2>3. ASSUME ExpireInvite(j)
        PROVE  knownPeers' = knownPeers /\ invites'[i].used = invites[i].used
    BY <2>3, Zenon DEF ExpireInvite, config
  <2> QED
    BY <1>3, <2>1, <2>2, <2>3, Zenon DEF InviteCall, RedeemsOne
<1>4. CASE Crash
  BY <1>0, <1>4 DEF Crash, TInv, TypeOK
<1>5. CASE \/ ExchangeAll(StatusLoop)
           \/ RetryTick \/ ClearProxyPeerID \/ WriteConfig
  <2>1. knownPeers' = knownPeers /\ invites' = invites
    BY <1>5, Zenon DEF ExchangeAll, RetryTick, ClearProxyPeerID, WriteConfig, config
  <2> QED
    BY <2>1, Zenon DEF RedeemsOne
<1> QED
  BY <1>0, <1>1, <1>2, <1>3, <1>4, <1>5, StepAdmits, CallAdmits, Zenon DEF Next

(* Redemption is atomic, and only a usable invite is redeemed: the action  *)
(* property RedemptionAtomic for every value of the constants.             *)
THEOREM RedemptionIsAtomic == Spec => RedemptionAtomic
<1>1. UInv /\ [Next]_vars => [restarts' = restarts => \A i \in Invites : RedeemsOne(i)]_vars
  BY NextRedeems, Zenon
<1> QED
  BY InitUses, NextUses, <1>1, PTL DEF Spec, RedemptionAtomic

LEMMA NextResurrectsNobody ==
  ASSUME TInv, Next, restarts' = restarts, NEW p \in Peers, ~Known(p), knownPeers'[p].known
  PROVE  \E g \in Goroutines : gor[g].peer = p /\ gor[g].by # "none"
<1>1. ~AdmitsNobody
  BY Zenon DEF AdmitsNobody, Known
<1>2. knownPeers' # knownPeers
  BY Zenon DEF Known
<1>3. ~Crash
  BY DEF Crash, TInv, TypeOK
<1>4. PICK g \in Goroutines : AddPeerInsert(g)
  <2>1. ASSUME NEW g \in Goroutines, Step(g) PROVE AddPeerInsert(g)
    BY <1>1, <2>1, StepAdmits, Zenon
  <2>2. ASSUME NEW g \in Workers, NEW q \in Peers, Call(g, q) PROVE FALSE
    BY <1>1, <2>2, CallAdmits, Zenon
  <2>3. ASSUME \/ ExchangeAll(StatusLoop) \/ RetryTick \/ ClearProxyPeerID \/ WriteConfig
               \/ \E i \in Invites : InviteCall(i)
        PROVE  FALSE
    BY <1>2, <2>3, Zenon DEF ExchangeAll, RetryTick, ClearProxyPeerID, WriteConfig,
                      InviteCall, CreateInvite, RevokeInvite, ExpireInvite, config
  <2> QED
    BY <1>3, <2>1, <2>2, <2>3, Zenon DEF Next
<1>5. gor[g].by # "none"
  BY <1>4, Zenon DEF AddPeerInsert, At, TInv, Busy
<1>6. knownPeers' = [knownPeers EXCEPT ![gor[g].peer] = NewPeer(g)]
  BY <1>4, Zenon DEF AddPeerInsert
<1>7. gor[g].peer = p
  BY <1>6, Zenon DEF Known, TInv, TypeOK
<1> QED
  BY <1>5, <1>7, Zenon

(* Nobody but AddPeer brings a peer into KnownPeers: the action property   *)
(* NoResurrection for any peers, goroutines and interleaving of status     *)
(* answers with RemovePeer.                                                *)
THEOREM NobodyResurrected == Spec => NoResurrection
<1>1. TInv /\ [Next]_vars =>
        [restarts' = restarts =>
           \A p \in Peers : ~Known(p) /\ knownPeers'[p].known =>
             \E g \in Goroutines : gor[g].peer = p /\ gor[g].by # "none"]_vars
  BY NextResurrectsNobody, Zenon
<1> QED
  BY InitTyped, NextTyped, <1>1, PTL DEF Spec, NoResurrection

(***************************************************************************)
(* Confirmation.  ConfirmedHeard is not inductive: the file must satisfy   *)
(* it too, and a confirmation is decided a few steps after the peer spoke: *)
(* a request being handled, an offer waiting for the user, an AddPeer made *)
(* on behalf of either and a status about to be merged all come from a     *)
(* peer that was heard.                                                    *)
(***************************************************************************)
Backed(t, peers) ==
  \/ t.by \in {"auth", "accept"}
  \/ t.pc \in {"authBlocked", "authKnown", "authCheck", "authOffer", "statusUpdate"}
  => t.peer \in peers

ConfirmedIn(known, peers) ==
  \A p \in Peers : known[p].known /\ known[p].confirmed => p \in peers

AllBacked ==
  /\ \A g \in Goroutines : Backed(gor[g], heard)
  /\ ingoingAuths \subseteq heard

HInv ==
  TInv /\ AllBacked /\ ConfirmedIn(knownPeers, heard) /\ ConfirmedIn(disk.peers, heard)

LEMMA BackedUpdate ==
  ASSUME TInv, AllBacked, NEW g \in Goroutines, NEW t, Backed(t, heard'),
         heard \subseteq heard', ingoingAuths' \subseteq heard',
         gor' = [gor EXCEPT ![g] = t]
  PROVE  AllBacked'
<1>1. gor'[g] = t /\ \A h \in Goroutines \ {g} : gor'[h] = gor[h]
  BY Zenon DEF TInv, TypeOK
<1>2. \A h \in Goroutines \ {g} : Backed(gor[h], heard')
  BY Zenon DEF AllBacked, Backed
<1> QED
  BY <1>1, <1>2, Zenon DEF AllBacked

(* A goroutine that moves on inside a handler stays backed, and one that   *)
(* returns or finishes has nothing left to back.                           *)
LEMMA GotoBacked ==
  ASSUME TInv, AllBacked, NEW g \in Goroutines, NEW pc,
         pc \in {"authKnown", "authCheck", "authOffer"} =>
           \/ gor[g].by = "auth" \/ gor[g].pc \in {"authBlocked", "authKnown", "authCheck"},
         pc \notin {"authBlocked", "statusUpdate"},
         heard \subseteq heard', ingoingAuths' \subseteq heard', Goto(g, pc)
  PROVE  AllBacked'
<1> DEFINE t == [gor[g] EXCEPT !.pc = pc]
<1>1. gor[g] \in Goroutine /\ Backed(gor[g], heard)
  BY Zenon DEF TInv, TypeOK, AllBacked
<1>2. t.pc = pc /\ t.by = gor[g].by /\ t.peer = gor[g].peer
  BY <1>1, Zenon DEF Goroutine
<1>3. Backed(t, heard')
  BY <1>1, <1>2, Zenon DEF Backed
<1>4. gor' = [gor EXCEPT ![g] = t]
  BY Zenon DEF Goto
<1> QED
  BY <1>3, <1>4, BackedUpdate, Zenon

LEMMA EndBacked ==
  ASSUME TInv, AllBacked, NEW g \in Goroutines,
         heard \subseteq heard', ingoingAuths' \subseteq heard', Finish(g) \/ Return(g)
  PROVE  AllBacked'
<1>1. CASE Finish(g)
  <2>1. Backed(Idle, heard')
    BY Zenon DEF Backed, Idle
  <2> QED
    BY <1>1, <2>1, BackedUpdate, Zenon DEF Finish
<1>2. CASE Return(g)
  <2> DEFINE t == [Idle EXCEPT !.pc = gor[g].then, !.queue = gor[g].queue,
                         !.peer = IF gor[g].then = "exStart" THEN gor[g].peer ELSE None]
  <2>1. gor[g].then \in {"idle", "exStart", "retryNext", "exchangeNext"}
    BY Zenon DEF TInv, TypeOK, Goroutine
  <2>2. t.pc = gor[g].then /\ t.by = "none"
    BY Zenon DEF Idle
  <2>3. Backed(t, heard')
    BY <2>1, <2>2, Zenon DEF Backed
  <2>4. gor' = [gor EXCEPT ![g] = t]
    BY <1>2, Zenon DEF Return
  <2> QED
    BY <2>3, <2>4, BackedUpdate, Zenon
<1> QED
  BY <1>1, <1>2, Zenon

(* No step forgets who was heard, and only AuthOffer adds an offer. *)
LEMMA StepHears ==
  ASSUME TInv, AllBacked, NEW g \in Goroutines, Step(g)
  PROVE  heard \subseteq heard' /\ ingoingAuths' \subseteq heard'
<1>1. CASE AuthOffer(g)
  <2>1. gor[g].peer \in heard
    BY <1>1, Zenon DEF AuthOffer, At, AllBacked, Backed
  <2> QED
    BY <1>1, <2>1, Zenon DEF AuthOffer, AllBacked
<1>2. CASE ~AuthOffer(g)
  <2>1. heard \subseteq heard' /\ ingoingAuths' \subseteq ingoingAuths
    BY <1>2, Zenon DEF Step, AuthHandlerStep, AddPeerStep, SendAuthStep, ExchangeStep, StatusHandlerStep,
         AuthCheckBlocked, AuthCheckKnown, AuthCheckInvite,
         AddPeerUnblock, AddPeerInsert, AddPeerRefused, AddPeerClear,
         SendAuthMark, SendAuthFailed, SendAuthReply, SendAuthDeclined,
         ExchangeStart, ExchangeSend, ExchangeFailed, ExchangeReply, StatusUpdate, StatusClear,
         StatusCheckBlocked, StatusReceive, StatusReceiveFailed,
         BlockUpsert, BlockForget, SetProxyPeerID, ConnectedLookup, RetryNext, ExchangeNext, auths
  <2> QED
    BY <2>1, Zenon DEF AllBacked
<1> QED
  BY <1>1, <1>2, Zenon

LEMMA StepBacked ==
  ASSUME TInv, AllBacked, NEW g \in Goroutines, Step(g)
  PROVE  AllBacked'
<1>0. /\ heard \subseteq heard' /\ ingoingAuths' \subseteq heard'
      /\ gor[g] \in Goroutine /\ Backed(gor[g], heard)
  BY StepHears, Zenon DEF TInv, TypeOK, AllBacked
<1>1. CASE AuthCheckBlocked(g) \/ AuthCheckKnown(g) \/ AuthOffer(g)
  BY <1>0, <1>1, GotoBacked, EndBacked, Zenon DEF AuthCheckBlocked, AuthCheckKnown, AuthOffer, At
<1>2. CASE AuthCheckInvite(g)
  <2>1. CASE Goto(g, "authOffer")
    BY <1>0, <1>2, <2>1, GotoBacked, Zenon DEF AuthCheckInvite, At
  <2>2. ASSUME NEW tok, gor' = [gor EXCEPT ![g].pc = "addUnblock", ![g].by = "auth", ![g].tok = tok]
        PROVE  AllBacked'
    <3> DEFINE t == [gor[g] EXCEPT !.pc = "addUnblock", !.by = "auth", !.tok = tok]
    <3>1. t.peer = gor[g].peer
      BY <1>0, Zenon DEF Goroutine
    <3>2. gor[g].peer \in heard
      BY <1>0, <1>2, Zenon DEF AuthCheckInvite, At, Backed
    <3>3. Backed(t, heard')
      BY <1>0, <3>1, <3>2, Zenon DEF Backed
    <3>4. gor' = [gor EXCEPT ![g] = t]
      BY <2>2, Zenon
    <3> QED
      BY <1>0, <3>3, <3>4, BackedUpdate, Zenon
  <2> QED
    BY <1>2, <2>1, <2>2, Zenon DEF AuthCheckInvite
<1>3. CASE AddPeerUnblock(g) \/ AddPeerInsert(g) \/ AddPeerRefused(g)
  BY <1>0, <1>3, GotoBacked, EndBacked, Zenon DEF AddPeerUnblock, AddPeerInsert, AddPeerRefused, AfterRefusal
<1>4. CASE SendAuthStep(g)
  BY <1>0, <1>4, GotoBacked, EndBacked, Zenon
  DEF SendAuthStep, SendAuthMark, SendAuthFailed, SendAuthReply, SendAuthDeclined
<1>5. CASE \/ ExchangeStart(g) \/ ExchangeFailed(g) \/ StatusUpdate(g) \/ StatusClear(g)
           \/ BlockUpsert(g) \/ BlockForget(g) \/ SetProxyPeerID(g) \/ StatusReceiveFailed(g)
  BY <1>0, <1>5, GotoBacked, EndBacked, Zenon
  DEF ExchangeStart, ExchangeFailed, StatusUpdate, StatusClear,
      BlockUpsert, BlockForget, SetProxyPeerID, StatusReceiveFailed
<1>6. CASE ExchangeSend(g) \/ StatusCheckBlocked(g)
  <2>1. CASE Finish(g)
    BY <1>0, <2>1, EndBacked, Zenon
  <2>2. ASSUME NEW pc \in {"exReply", "statusReceive"}, NEW b,
               gor' = [gor EXCEPT ![g].pc = pc, ![g].seen = b]
        PROVE  AllBacked'
    <3> DEFINE t == [gor[g] EXCEPT !.pc = pc, !.seen = b]
    <3>1. t.pc = pc /\ t.by = gor[g].by /\ t.peer = gor[g].peer
      BY <1>0, Zenon DEF Goroutine
    <3>2. Backed(t, heard')
      BY <1>0, <3>1, Zenon DEF Backed
    <3>3. gor' = [gor EXCEPT ![g] = t]
      BY <2>2, Zenon
    <3> QED
      BY <1>0, <3>2, <3>3, BackedUpdate, Zenon
  <2> QED
    BY <1>6, <2>1, <2>2, Zenon DEF ExchangeSend, StatusCheckBlocked
<1>7. ASSUME NEW info \in StatusInfos, ExchangeReply(g, info) \/ StatusReceive(g, info)
      PROVE  AllBacked'
  <2>1. CASE Finish(g) \/ Return(g)
    BY <1>0, <2>1, EndBacked, Zenon
  <2>2. CASE gor' = [gor EXCEPT ![g].pc = "statusUpdate", ![g].msg = info]
    <3> DEFINE t == [gor[g] EXCEPT !.pc = "statusUpdate", !.msg = info]
    <3>1. t.peer = gor[g].peer
      BY <1>0, Zenon DEF Goroutine
    <3>2. gor[g].peer \in heard'
      BY <1>7, Zenon DEF ExchangeReply, StatusReceive
    <3>3. Backed(t, heard')
      BY <3>1, <3>2, Zenon DEF Backed
    <3>4. gor' = [gor EXCEPT ![g] = t]
      BY <2>2, Zenon
    <3> QED
      BY <1>0, <3>3, <3>4, BackedUpdate, Zenon
  <2> QED
    BY <1>7, <2>1, <2>2, Zenon DEF ExchangeReply, StatusReceive
<1>8. ASSUME NEW t, t.by = "none",
             t.pc \in {"idle", "sendMark", "exStart", "exchangeNext"},
             gor' = [gor EXCEPT ![g] = t]
      PROVE  AllBacked'
  <2>1. Backed(t, heard')
    BY <1>8, Zenon DEF Backed
  <2> QED
    BY <1>0, <1>8, <2>1, BackedUpdate, Zenon
<1>9. CASE AddPeerClear(g)
  <2> DEFINE t == IF gor[g].by = "friend"
                  THEN [Task("sendMark", gor[g].peer) EXCEPT !.then = "exStart"]
                  ELSE Task("exStart", gor[g].peer)
  <2>1. t.by = "none" /\ t.pc \in {"sendMark", "exStart"}
    BY Zenon DEF Task, Idle
  <2>2. gor' = [gor EXCEPT ![g] = t]
    BY <1>9, Zenon DEF AddPeerClear
  <2> QED
    BY <1>8, <2>1, <2>2, Zenon
<1>10. CASE ConnectedLookup(g)
  <2> DEFINE p == gor[g].peer
             next == IF Known(p) THEN "exStart" ELSE "idle"
             t == IF gor[g].seen THEN [Task("sendMark", p) EXCEPT !.then = next]
                  ELSE IF Known(p) THEN Task("exStart", p)
                  ELSE Idle
  <2>1. t.by = "none" /\ t.pc \in {"idle", "sendMark", "exStart"}
    BY Zenon DEF Task, Idle
  <2>2. gor' = [gor EXCEPT ![g] = t]
    BY <1>10, Zenon DEF ConnectedLookup
  <2> HIDE DEF t
  <2> QED
    BY <1>8, <2>1, <2>2, Zenon
<1>11. CASE RetryNext(g)
  <2>1. CASE Finish(g)
    BY <1>0, <2>1, EndBacked, Zenon
  <2>2. ASSUME NEW p, gor' = [gor EXCEPT ![g] = [Task("sendMark", p) EXCEPT
                                !.then = "retryNext", !.queue = gor[g].queue \ {p}]]
        PROVE  AllBacked'
    BY <1>8, <2>2, Zenon DEF Task, Idle
  <2> QED
    BY <1>11, <2>1, <2>2, Zenon DEF RetryNext
<1>12. CASE ExchangeNext(g)
  <2>1. CASE Finish(g)
    BY <1>0, <2>1, EndBacked, Zenon
  <2>2. ASSUME NEW p, NEW r \in {Task("exStart", p), Task("exchangeNext", None)}, NEW n,
               gor' = [gor EXCEPT ![g] = [r EXCEPT !.then = n, !.queue = gor[g].queue \ {p}]]
        PROVE  AllBacked'
    BY <1>8, <2>2, Zenon DEF Task, Idle
  <2> QED
    BY <1>12, <2>1, <2>2, Zenon DEF ExchangeNext
<1> QED
  BY <1>1, <1>2, <1>3, <1>4, <1>5, <1>6, <1>7, <1>9, <1>10, <1>11, <1>12, Zenon
  DEF Step, AuthHandlerStep, AddPeerStep, ExchangeStep, StatusHandlerStep

LEMMA CallBacked ==
  ASSUME TInv, AllBacked, NEW g \in Workers, NEW p \in Peers, Call(g, p)
  PROVE  AllBacked' /\ heard \subseteq heard'
<1>0. g \in Goroutines
  BY Zenon DEF Goroutines
<1>1. heard \subseteq heard' /\ ingoingAuths' = ingoingAuths /\ ingoingAuths' \subseteq heard'
  BY Zenon DEF Call, AuthStreamHandler, StatusStreamHandler, SendFriendRequest, AcceptFriend, RemovePeer,
         UpdatePeerSettings, UpdateProxySettings, OnPeerConnected, auths, AllBacked
<1>2. \E t : Backed(t, heard') /\ gor' = [gor EXCEPT ![g] = t]
  <2>1. ASSUME NEW tok, AuthStreamHandler(g, p, tok)
        PROVE  \E t : Backed(t, heard') /\ gor' = [gor EXCEPT ![g] = t]
    BY <2>1, Zenon DEF AuthStreamHandler, Start, Task, Idle, Backed
  <2>2. ASSUME NEW decline, AcceptFriend(g, p, decline)
        PROVE  \E t : Backed(t, heard') /\ gor' = [gor EXCEPT ![g] = t]
    <3>1. p \in heard'
      BY <1>1, <2>2, Zenon DEF AcceptFriend
    <3> DEFINE t == IF decline THEN Task("blockUpsert", p)
                    ELSE [Task("addUnblock", p) EXCEPT !.by = "accept"]
    <3>2. t.peer = p
      BY Zenon DEF Task, Idle
    <3>3. Backed(t, heard')
      BY <3>1, <3>2, Zenon DEF Backed
    <3>4. gor' = [gor EXCEPT ![g] = t]
      BY <2>2, Zenon DEF AcceptFriend, Start
    <3> QED
      BY <3>3, <3>4, Zenon
  <2>3. CASE \/ StatusStreamHandler(g, p) \/ SendFriendRequest(g, p) \/ RemovePeer(g, p)
             \/ UpdatePeerSettings(g, p) \/ UpdateProxySettings(g, p) \/ OnPeerConnected(g, p)
    BY <2>3, Zenon DEF StatusStreamHandler, SendFriendRequest, RemovePeer, UpdatePeerSettings,
                UpdateProxySettings, OnPeerConnected, Start, Task, Idle, Backed
  <2> QED
    BY <2>1, <2>2, <2>3, Zenon DEF Call
<1> QED
  BY <1>0, <1>1, <1>2, BackedUpdate, Zenon

(* Confirmed stays a matter of who was heard, whatever a step writes. *)
LEMMA StepConfirms ==
  ASSUME HInv, NEW g \in Goroutines, Step(g)
  PROVE  ConfirmedIn(knownPeers', heard') /\ ConfirmedIn(disk'.peers, heard')
<1> DEFINE p == gor[g].peer
<1>0. TInv /\ AllBacked /\ heard \subseteq heard' /\ disk' = disk /\ Backed(gor[g], heard)
  BY StepHears, StepAdmits, Zenon DEF HInv, AllBacked
<1>1. ConfirmedIn(knownPeers, heard') /\ ConfirmedIn(disk'.peers, heard')
  BY <1>0, Zenon DEF HInv, ConfirmedIn
<1>2. ASSUME NEW r, p \in Peers, knownPeers' = [knownPeers EXCEPT ![p] = r],
             \/ p \in heard'
             \/ ~r.confirmed
             \/ r.known = knownPeers[p].known /\ r.confirmed = knownPeers[p].confirmed
      PROVE  ConfirmedIn(knownPeers', heard')
  BY <1>0, <1>1, <1>2, Zenon DEF ConfirmedIn, TInv, TypeOK
<1>3. CASE AddPeerInsert(g)
  <2>1. p \in Peers /\ gor[g].by # "none" /\ gor[g] \in Goroutine
    BY <1>0, <1>3, WorksOnPeer, Zenon DEF AddPeerInsert, At, TInv, Busy
  <2>2. gor[g].by = "friend" \/ p \in heard'
    BY <1>0, <2>1, Zenon DEF Backed, Goroutine
  <2>3. NewPeer(g).confirmed = (gor[g].by # "friend")
    BY Zenon DEF NewPeer
  <2>4. knownPeers' = [knownPeers EXCEPT ![p] = NewPeer(g)]
    BY <1>3, Zenon DEF AddPeerInsert
  <2> QED
    BY <1>1, <1>2, <2>1, <2>2, <2>3, <2>4, Zenon
<1>4. CASE StatusUpdate(g)
  <2>1. p \in Peers /\ p \in heard'
    BY <1>0, <1>4, WorksOnPeer, Zenon DEF StatusUpdate, At, Backed
  <2>2. \E r : knownPeers' = [knownPeers EXCEPT ![p] = r]
    BY <1>4, Zenon DEF StatusUpdate
  <2> QED
    BY <1>1, <1>2, <2>1, <2>2, Zenon
<1>5. CASE SendAuthDeclined(g)
  <2> DEFINE r == [knownPeers[p] EXCEPT !.declined = @ \/ Known(p)]
  <2>1. p \in Peers /\ knownPeers[p] \in KnownPeer
    BY <1>0, <1>5, WorksOnPeer, Zenon DEF SendAuthDeclined, At, TInv, TypeOK
  <2>2. r.known = knownPeers[p].known /\ r.confirmed = knownPeers[p].confirmed
    BY <2>1, Zenon DEF KnownPeer
  <2>3. knownPeers' = [knownPeers EXCEPT ![p] = r]
    BY <1>5, Zenon DEF SendAuthDeclined
  <2> QED
    BY <1>1, <1>2, <2>1, <2>2, <2>3, Zenon
<1>6. CASE ~AddPeerInsert(g) /\ ~StatusUpdate(g) /\ ~SendAuthDeclined(g)
  <2>1. knownPeers' = knownPeers
    BY <1>6, Zenon
    DEF Step, AuthHandlerStep, AddPeerStep, SendAuthStep, ExchangeStep, StatusHandlerStep,
        AuthCheckBlocked, AuthCheckKnown, AuthCheckInvite, AuthOffer,
        AddPeerUnblock, AddPeerRefused, AddPeerClear,
        SendAuthMark, SendAuthFailed, SendAuthReply,
        ExchangeStart, ExchangeSend, ExchangeFailed, ExchangeReply, StatusClear,
        StatusCheckBlocked, StatusReceive, StatusReceiveFailed,
        BlockUpsert, BlockForget, SetProxyPeerID, ConnectedLookup, RetryNext, ExchangeNext, config
  <2> QED
    BY <1>1, <2>1, Zenon
<1> QED
  BY <1>1, <1>3, <1>4, <1>5, <1>6, Zenon

LEMMA NextHeard == HInv /\ [Next]_vars => HInv'
<1> SUFFICES ASSUME HInv, [Next]_vars PROVE HInv'
  OBVIOUS
<1>0. TInv /\ TInv' /\ AllBacked
  BY NextTyped, Zenon DEF HInv
<1>1. ASSUME NEW g \in Goroutines, Step(g) PROVE HInv'
  BY <1>0, <1>1, StepBacked, StepConfirms, Zenon DEF HInv
<1>2. ASSUME NEW g \in Workers, NEW p \in Peers, Call(g, p) PROVE HInv'
  <2>1. AllBacked' /\ heard \subseteq heard' /\ disk' = disk
    BY <1>0, <1>2, CallBacked, CallAdmits, Zenon
  <2>2. \A q \in Peers : knownPeers'[q].known /\ knownPeers'[q].confirmed =>
                           knownPeers[q].known /\ knownPeers[q].confirmed
    <3>1. CASE RemovePeer(g, p)
      BY <1>0, <3>1, Zenon DEF RemovePeer, ZeroPeer, TInv, TypeOK
    <3>2. CASE ~RemovePeer(g, p)
      BY <1>2, <3>2, Zenon DEF Call, AuthStreamHandler, StatusStreamHandler, SendFriendRequest,
                AcceptFriend, UpdatePeerSettings, UpdateProxySettings, OnPeerConnected, config
    <3> QED
      BY <3>1, <3>2, Zenon
  <2> QED
    BY <1>0, <2>1, <2>2, Zenon DEF HInv, ConfirmedIn
<1>3. CASE ExchangeAll(StatusLoop) \/ RetryTick
  <2>1. /\ heard' = heard /\ knownPeers' = knownPeers /\ disk' = disk
        /\ ingoingAuths' = ingoingAuths
    BY <1>3, Zenon DEF ExchangeAll, RetryTick, config, auths, world
  <2>2. \E g \in Goroutines : \E t : Backed(t, heard') /\ gor' = [gor EXCEPT ![g] = t]
    BY <1>3, Zenon DEF ExchangeAll, RetryTick, Start, Idle, Backed, Goroutines
  <2>3. AllBacked'
    BY <1>0, <2>1, <2>2, BackedUpdate, Zenon DEF AllBacked
  <2> QED
    BY <1>0, <2>1, <2>3, Zenon DEF HInv
<1>4. CASE \/ ClearProxyPeerID \/ UNCHANGED vars
           \/ \E i \in Invites : InviteCall(i)
  <2>1. /\ heard' = heard /\ knownPeers' = knownPeers /\ disk' = disk
        /\ ingoingAuths' = ingoingAuths /\ gor' = gor
    BY <1>4, Zenon DEF ClearProxyPeerID, InviteCall, CreateInvite, RevokeInvite, ExpireInvite,
                vars, config, auths, world
  <2> QED
    BY <1>0, <2>1, Zenon DEF HInv, AllBacked
<1>5. CASE WriteConfig
  <2>1. /\ heard' = heard /\ knownPeers' = knownPeers /\ disk'.peers = knownPeers
        /\ ingoingAuths' = ingoingAuths /\ gor' = gor
    BY <1>5, Zenon DEF WriteConfig, Snapshot, config, auths
  <2> QED
    BY <1>0, <2>1, Zenon DEF HInv, AllBacked
<1>6. CASE Crash
  <2>1. AllBacked'
    BY <1>6, Zenon DEF Crash, AllBacked, Backed, Idle
  <2> QED
    BY <1>0, <1>6, <2>1, Zenon DEF Crash, HInv
<1> QED
  BY <1>1, <1>2, <1>3, <1>4, <1>5, <1>6, Zenon DEF Next

(* A peer counts as confirmed only if it contacted us: ConfirmedHeard for  *)
(* any number of peers, requests, answers, status exchanges and crashes.   *)
THEOREM ConfirmedWereHeard == Spec => []ConfirmedHeard
<1>1. Init => HInv
  <2> SUFFICES ASSUME Init PROVE HInv
    OBVIOUS
  <2>1. \A p \in Peers : ~knownPeers[p].known /\ ~disk.peers[p].known
    BY Zenon DEF Init, ZeroPeer, Snapshot
  <2>2. AllBacked
    BY Zenon DEF Init, AllBacked, Backed, Idle
  <2> QED BY <2>1, <2>2, InitTyped, Zenon DEF HInv, ConfirmedIn
<1>2. HInv => ConfirmedHeard
  BY Zenon DEF HInv, ConfirmedIn, ConfirmedHeard, Known
<1> QED
  BY <1>1, <1>2, NextHeard, PTL DEF Spec
=============================================================================
