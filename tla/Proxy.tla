------------------------------- MODULE Proxy -------------------------------
(***************************************************************************)
(* The SOCKS5 proxy: socks5/client.go and service/socks5.go.  A client     *)
(* connects to the local listener, the accept loop hands the connection to *)
(* ServeConns, and a goroutine of its own (proxyConn) opens a stream to the*)
(* selected exit node and copies both ways.  The exit node runs the same   *)
(* code on its side (ProxyStreamHandler), so a session is modelled from    *)
(* end to end: client, this node, stream, exit node.                       *)
(*                                                                         *)
(* A client greets, waits for the choice of a method, asks, waits for the  *)
(* reply, and may hang up at any time, or never.  The target behind the    *)
(* exit node may end its connection, or never.  Nothing else bounds these  *)
(* reads: the code sets no deadline.  Closing the application ends         *)
(* contexts, then the listener, then the host with all its streams.        *)
(***************************************************************************)
EXTENDS P2PHost, Sequences

CONSTANTS
  Conns,     \* connections clients make
  Reaching   \* bound: those for which a stream may be opened

ASSUME ReachingAssumption == Reaching \subseteq Conns

VARIABLES
  listener,  \* "off" (ListenerEnabled is not set), "open", "closed"
  accept,    \* the accept loop: "idle", a connection it holds, or "ended"
  connsCh,   \* its channel, of capacity one
  serving,   \* ServeConns: "run" or "ended"
  sess       \* the connections

proxyVars == <<listener, accept, connsCh, serving, sess>>
vars == <<hostVars, proxyVars>>

(* client: what it does; at: where the goroutine of this node is;          *)
(* up, down: the copy loops of handleStream; stream: "none", "open", "half"*)
(* (we sent EOF) or "reset"; noauth: the protocol that was agreed, while   *)
(* the exit node has yet to look at it; exit: the exit node's handler, in  *)
(* "relay" connected with the target, in "drained" after the target's end. *)
NoSession ==
  [client |-> "none", at |-> "none", up |-> FALSE, down |-> FALSE,
   stream |-> "none", noauth |-> FALSE, exit |-> "none"]

\* What is left of a session when this node has closed the connection.  The
\* client of a connection this node closed sees its end.
Closed(c) ==
  [NoSession EXCEPT !.client = IF sess[c].client = "gone" THEN "gone" ELSE "dropped",
                    !.at = "closed", !.exit = sess[c].exit,
                    !.stream = IF sess[c].exit \in {"none", "done"} THEN "none"
                               ELSE "reset"]

ProxyInit ==
  /\ listener \in {"off", "open"}
  /\ accept = IF listener = "open" THEN "idle" ELSE "ended"
  /\ connsCh = <<>>
  /\ serving = IF listener = "open" THEN "run" ELSE "ended"
  /\ sess = [c \in Conns |-> NoSession]

At(c, at) == sess[c].at = at
Set(c, s) == sess' = [sess EXCEPT ![c] = s]
OnlySession == UNCHANGED <<hostVars, listener, accept, connsCh, serving>>

-----------------------------------------------------------------------------
(* Clients *)

ClientConnects(c) ==
  /\ listener = "open" /\ boot # "none" /\ sess[c].client = "none"
  /\ Set(c, [sess[c] EXCEPT !.client = "greets", !.at = "backlog"])
  /\ OnlySession

\* The client has its method, or its reply, and goes on
ClientAsks(c) ==
  /\ sess[c].client = "chosen"
  /\ Set(c, [sess[c] EXCEPT !.client = "asks"])
  /\ OnlySession

ClientLeaves(c) ==
  /\ sess[c].client \notin {"none", "gone"}
  /\ Set(c, [sess[c] EXCEPT !.client = "gone"])
  /\ OnlySession

\* Mutant: a copy that is done leaves its destination open
NeverEnded(c) == FALSE

\* A copy that is done ends what it writes to: the client reads EOF
SeesEnd(c) == sess[c].at = "copy" /\ ~sess[c].down

Gone(c) == sess[c].client = "gone"

-----------------------------------------------------------------------------
(* The accept loop and ServeConns *)

Accept(c) ==
  /\ listener = "open" /\ accept = "idle" /\ At(c, "backlog")
  /\ accept' = c
  /\ Set(c, [sess[c] EXCEPT !.at = "held"])
  /\ UNCHANGED <<hostVars, listener, connsCh, serving>>

\* The send to connsCh
Offer(c) ==
  /\ accept = c /\ Len(connsCh) < 1
  /\ accept' = "idle" /\ connsCh' = Append(connsCh, c)
  /\ Set(c, [sess[c] EXCEPT !.at = "queued"])
  /\ UNCHANGED <<hostVars, listener, serving>>

\* The timer of one second
DropConn(c) ==
  /\ accept = c /\ Len(connsCh) = 1
  /\ accept' = "idle"
  /\ Set(c, Closed(c))
  /\ UNCHANGED <<hostVars, listener, connsCh, serving>>

\* Accept fails, because the listener is closed or for another reason, which
\* leaves it open: the channel is closed and nobody accepts any more
AcceptEnds ==
  /\ listener = "closed" /\ accept = "idle"
  /\ accept' = "ended"
  /\ UNCHANGED <<hostVars, listener, connsCh, serving, sess>>

AcceptFails ==
  /\ listener = "open" /\ accept = "idle"
  /\ accept' = "ended"
  /\ UNCHANGED <<hostVars, listener, connsCh, serving, sess>>

ServeConn ==
  /\ serving = "run" /\ maint # "none" /\ connsCh # <<>>
  /\ connsCh' = Tail(connsCh)
  /\ Set(Head(connsCh), [sess[Head(connsCh)] EXCEPT !.at = "select"])
  /\ UNCHANGED <<hostVars, listener, accept, serving>>

ServeConnsEnds ==
  /\ serving = "run" /\ connsCh = <<>> /\ accept = "ended"
  /\ serving' = "ended"
  /\ UNCHANGED <<hostVars, listener, accept, connsCh, sess>>

\* The system drops the connections the listener had not handed out
SOCKS5Close ==
  /\ app = "cancelled" /\ listener = "open"
  /\ listener' = "closed"
  /\ sess' = [c \in Conns |-> IF At(c, "backlog") THEN Closed(c) ELSE sess[c]]
  /\ UNCHANGED <<hostVars, accept, connsCh, serving>>

-----------------------------------------------------------------------------
(* proxyConn *)

\* No peer is selected, the peer does not allow it, it cannot be connected
\* (ConnectPeer has a timeout of ten seconds) or the stream fails
ProxyFails(c) ==
  /\ At(c, "select")
  /\ Set(c, [sess[c] EXCEPT !.at = "reply"])
  /\ OnlySession

OpenStream(c, noauth) ==
  /\ At(c, "select") /\ app = "up" /\ c \in Reaching
  /\ Set(c, [sess[c] EXCEPT !.stream = "open", !.noauth = noauth, !.exit = "check",
                            !.at = IF noauth THEN "auth" ELSE "copy",
                            !.up = ~noauth, !.down = ~noauth])
  /\ OnlySession

\* HandleLocalAuth reads the greeting and agrees on a method, with the user name
\* and the password where they are needed
LocalAuth(c) ==
  /\ At(c, "auth") /\ sess[c].client = "greets"
  /\ Set(c, [sess[c] EXCEPT !.client = "chosen",
                            !.at = "copy", !.up = TRUE, !.down = TRUE])
  /\ OnlySession

\* The client cannot do the method or gives a wrong password, and is told; or
\* its greeting cannot be read, and it is told nothing.  The stream is reset,
\* and ServeConns still answers with SendServerFailureReply
LocalAuthFails(c) ==
  /\ At(c, "auth") /\ sess[c].client \in {"greets", "gone"}
  /\ \E client \in IF Gone(c) THEN {"gone"} ELSE {"refused", "unheard"} :
       Set(c, [sess[c] EXCEPT !.stream = "reset", !.at = "reply", !.client = client])
  /\ OnlySession

\* SendServerFailureReply reads the greeting and chooses a method; after a
\* failed HandleLocalAuth it is another one, or what was left of the first ...
ReplyMethod(c) ==
  /\ At(c, "reply") /\ sess[c].client \in {"greets", "unheard"}
  /\ Set(c, [sess[c] EXCEPT !.client = "chosen"])
  /\ OnlySession

\* ... and when it has read the request turns it down, or a read fails because
\* the client is gone; then ServeConns closes the connection
Reply(c) ==
  /\ At(c, "reply")
  /\ sess[c].client = "asks" \/ Gone(c)
  /\ Set(c, Closed(c))
  /\ OnlySession

-----------------------------------------------------------------------------
(* handleStream: two copies, each ending what it writes to when it is done *)

\* The exit node has reset the stream, or ended its side of it
StreamEnds(c) == sess[c].stream = "reset" \/ sess[c].exit = "drained"

\* From stream to conn, until the stream ends or the client no longer takes data
CopyDownEnds(c) ==
  /\ sess[c].down
  /\ StreamEnds(c) \/ Gone(c)
  /\ Set(c, [sess[c] EXCEPT !.down = FALSE])
  /\ OnlySession

\* Mutant: the end of the connection is not passed on to the stream
CopyUpKeeps(c) ==
  /\ sess[c].up
  /\ Gone(c) \/ sess[c].stream = "reset"
  /\ Set(c, [sess[c] EXCEPT !.up = FALSE])
  /\ OnlySession

\* From conn to stream, until the client has closed its side or what it sends
\* finds the stream ended
CopyUpEnds(c) ==
  /\ sess[c].up
  /\ Gone(c) \/ sess[c].stream = "reset"
  /\ Set(c, [sess[c] EXCEPT !.up = FALSE,
                            !.stream = IF @ = "open" THEN "half" ELSE @])
  /\ OnlySession

\* Both are done: after a pause of 50 ms the stream is reset and conn is closed
SessionOver(c) ==
  /\ At(c, "copy") /\ ~sess[c].up /\ ~sess[c].down
  /\ Set(c, Closed(c))
  /\ OnlySession

-----------------------------------------------------------------------------
(* ProxyStreamHandler of the exit node *)

\* Unknown peer, no permission, or disabled and no reply is due: the stream is
\* reset
ExitDenies(c) ==
  /\ sess[c].exit = "check"
  /\ Set(c, [sess[c] EXCEPT !.exit = "done", !.stream = "reset", !.noauth = FALSE])
  /\ OnlySession

\* Proxying is disabled: a peer that left the greeting to us gets an answer
ExitDisabled(c) ==
  /\ sess[c].exit = "check" /\ ~sess[c].noauth
  /\ Set(c, [sess[c] EXCEPT !.exit = "reply", !.noauth = FALSE])
  /\ OnlySession

ExitServes(c) ==
  /\ sess[c].exit = "check"
  /\ Set(c, [sess[c] EXCEPT !.exit = "serve", !.noauth = FALSE])
  /\ OnlySession

\* What the client sends arrives while both copies run
Linked(c) == sess[c].stream = "open" /\ sess[c].up /\ sess[c].down

\* ServeConn, or SendServerFailureReply, reads the greeting of a client whose
\* greeting was left to the exit node
ExitMethod(c) ==
  /\ sess[c].exit \in {"serve", "reply"} /\ Linked(c)
  /\ sess[c].client = "greets"
  /\ Set(c, [sess[c] EXCEPT !.client = "chosen"])
  /\ OnlySession

\* ServeConn dials the target and answers the request
ExitAnswers(c) ==
  /\ sess[c].exit = "serve" /\ Linked(c) /\ sess[c].client = "asks"
  /\ Set(c, [sess[c] EXCEPT !.client = "talks", !.exit = "relay"])
  /\ OnlySession

\* The target ends its connection, and with it the exit node its side of ours
TargetEnds(c) ==
  /\ sess[c].exit = "relay" /\ sess[c].stream \in {"open", "half"}
  /\ Set(c, [sess[c] EXCEPT !.exit = "drained"])
  /\ OnlySession

\* Our side has ended: a read of the request fails, and a target that ended too
\* is all the handler waited for.  A reset also ends a copy from the stream
OurSideEnded(c) ==
  \/ sess[c].stream = "reset"
  \/ sess[c].stream = "half" /\ sess[c].exit # "relay"

\* The handler returns, after its pause, and resets the stream: the request was
\* turned down, our side has ended, or the target no longer takes data
ExitReturns(c) ==
  /\ sess[c].exit \in {"serve", "reply", "relay", "drained"}
  /\ \/ OurSideEnded(c)
     \/ Linked(c) /\ sess[c].client = "asks"
     \/ sess[c].exit = "drained"
  /\ Set(c, [sess[c] EXCEPT !.exit = "done",
                            !.stream = IF At(c, "closed") THEN "none" ELSE "reset"])
  /\ OnlySession

\* P2p.Close, or the connection to the exit node is lost: all streams end
ResetStreams == [c \in Conns |-> IF sess[c].stream \in {"open", "half"}
                                 THEN [sess[c] EXCEPT !.stream = "reset"] ELSE sess[c]]

LinkLost ==
  /\ ResetStreams # sess
  /\ sess' = ResetStreams
  /\ OnlySession

CloseHost ==
  /\ listener # "open"
  /\ P2pClose
  /\ sess' = ResetStreams
  /\ UNCHANGED <<listener, accept, connsCh, serving>>

-----------------------------------------------------------------------------
ClientNext(c) == ClientConnects(c) \/ ClientAsks(c) \/ ClientLeaves(c)

ProxyConn(c) ==
  \/ ProxyFails(c) \/ \E noauth \in BOOLEAN : OpenStream(c, noauth)
  \/ LocalAuth(c) \/ LocalAuthFails(c) \/ ReplyMethod(c) \/ Reply(c)
  \/ CopyDownEnds(c) \/ CopyUpEnds(c) \/ SessionOver(c)

ExitNext(c) ==
  \/ ExitDenies(c) \/ ExitDisabled(c) \/ ExitServes(c)
  \/ ExitMethod(c) \/ ExitAnswers(c) \/ TargetEnds(c) \/ ExitReturns(c)

ProxyNext ==
  \/ \E c \in Conns : Accept(c) \/ Offer(c) \/ DropConn(c)
                      \/ ClientNext(c) \/ ProxyConn(c) \/ ExitNext(c)
  \/ AcceptEnds \/ AcceptFails \/ ServeConn \/ ServeConnsEnds \/ SOCKS5Close \/ LinkLost

Init == HostInit /\ ProxyInit

Next ==
  \/ HostNext /\ UNCHANGED proxyVars
  \/ ProxyNext
  \/ CloseHost

\* Goroutines that can go on do, on both nodes, and the exit node answers a
\* request: dialling a target has the system's timeout.  Whether a client asks or
\* hangs up, a target ends a connection, Accept fails or a link breaks is up to
\* them, and none of them ever has to.
ProxyFair ==
  /\ WF_vars(AcceptEnds \/ \E c \in Conns : Accept(c) \/ Offer(c))
  /\ WF_vars(ServeConn \/ ServeConnsEnds)
  /\ \A c \in Conns :
       WF_vars(\/ ProxyFails(c) \/ LocalAuth(c) \/ LocalAuthFails(c)
               \/ sess[c].client = "greets" /\ ReplyMethod(c)
               \/ Reply(c) \/ SessionOver(c))
  /\ \A c \in Reaching :
       /\ WF_vars(StreamEnds(c) /\ CopyDownEnds(c))
       /\ WF_vars(Gone(c) /\ CopyUpEnds(c))
       /\ WF_vars(\/ ExitDenies(c) \/ ExitServes(c) \/ ExitMethod(c)
                  \/ sess[c].client = "asks" /\ (ExitAnswers(c) \/ ExitReturns(c))
                  \/ OurSideEnded(c) /\ ExitReturns(c))

\* Application.Close goes on once it has begun.
CloseFair == WF_vars(SOCKS5Close \/ CloseHost)

Spec == Init /\ [][Next]_vars /\ HostFair /\ ProxyFair /\ CloseFair

-----------------------------------------------------------------------------
(* Properties *)

\* A client that has greeted, or asked, and has no answer
Waits(c) == sess[c].client \in {"greets", "asks"} /\ ~SeesEnd(c)

\* Nobody takes connections from the listener, which is still open
NotAccepted(c) == At(c, "backlog") /\ accept = "ended"

\* Whoever connects and speaks the protocol gets through to the exit node, is
\* turned down, or sees the connection end, whether or not a peer is selected,
\* the exit node allows and serves it, links break, other clients and targets
\* stay silent or the application closes.  The one exception: after an error of
\* Accept other than its end, clients wait in the backlog of the listener.  (A
\* client whose greeting HandleLocalAuth cannot read is never answered either;
\* it is "unheard".)  A client connects and asks once, so it is enough that again
\* and again none waits.
NobodyWaits == []<>(\A c \in Conns : Waits(c) => NotAccepted(c))

\* The exit node waits for a target that has not ended, and nothing else is left
OnTarget(c) == sess[c].exit = "relay" /\ sess[c].stream = "half" /\ ~sess[c].up

\* When the client has left, both nodes end the session: proxyConn returns and
\* closes its connection, and the handler of the exit node returns.  The only
\* thing that can keep them is the target, as neither copy loop has a deadline:
\* as long as it neither sends nor ends, and the link holds, the session stays
\* half-closed on both nodes.  (A connection nobody accepts is no session.)
SessionEnds ==
  []<>(\A c \in Conns : Gone(c) =>
         \/ At(c, "closed") /\ sess[c].exit \in {"none", "done"}
         \/ OnTarget(c) \/ NotAccepted(c))

\* After Application.Close all loops of the services end: Bootstrap, the
\* maintenance of connections, the accept loop and ServeConns, which first
\* serves what is still in its channel.
ServicesStop ==
  []<>(app = "closed" => /\ boot \in {"none", "done"} /\ maint \in {"none", "ended"}
                         /\ accept = "ended" /\ serving = "ended" /\ connsCh = <<>>)
=============================================================================
