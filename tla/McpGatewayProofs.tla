-------------------------- MODULE McpGatewayProofs --------------------------
(***************************************************************************)
(* What McpGateway guarantees for any number of websockets, registrations  *)
(* and public requests, any capacity of the pending map and of the queues. *)
(* The four invariants are proved together: each part is inductive given   *)
(* the ones before it.                                                     *)
(***************************************************************************)
EXTENDS McpGateway, TLAPS

\* The active route belongs to a socket_loop that installed it and has not
\* yet run disconnect(): in particular never to one that is still upgrading.
ActiveInstalled ==
    active # None =>
        sock[active] \in {"retire", "recheck", "rejected", "acking", "online", "sending",
                         "leaving"}

\* PendingTracksWaiters already from the moment the entry is inserted.
WaiterPending ==
    /\ \A r \in pending : req[r] \in {"send", "await"}
    /\ \A r \in Requests :
           req[r] \in {"send", "await"} /\ reply[r] = "none" => r \in pending

\* A request cloned the route of a websocket that is past its upgrade, whose
\* credential therefore no longer changes.
RouteSettled ==
    \A r \in Requests :
        /\ started[r] <= token
        /\ req[r] \notin {"new", "failed"} =>
               route[r] \in Sockets /\ sock[route[r]] # "new"

IndInv ==
    /\ TypeOK
    /\ ActiveInstalled
    /\ RotationCaught
    /\ WaiterPending
    /\ RouteSettled
    /\ NoStaleDispatch

-----------------------------------------------------------------------------
\* The types of all variables are kept by every step.
LEMMA TypeStep == TypeOK /\ [Next]_vars => TypeOK'
<1> SUFFICES ASSUME TypeOK, [Next]_vars PROVE TypeOK'
  OBVIOUS
<1> USE McpGatewayAssumption DEF TypeOK, Actors, SockState, RegState, ReqState, ReplyState,
        sockVars, regVars, reqVars, dispatchVars
<1>1. ASSUME NEW g \in Registrars, RegistrarNext(g) PROVE TypeOK'
  <2>1. CASE RegisterCommit(g)
    BY <2>1 DEF RegisterCommit
  <2>2. CASE RegisterRevoke(g)
    BY <2>2 DEF RegisterRevoke, TakeActive
  <2>3. CASE RegisterRetire(g)
    BY <2>3 DEF RegisterRetire, RetireHeld, FailSession
  <2>4. CASE RegisterDropped(g)
    BY <2>4 DEF RegisterDropped
  <2>q. QED BY <1>1, <2>1, <2>2, <2>3, <2>4 DEF RegistrarNext
<1>2. ASSUME NEW s \in Sockets, SocketNext(s) PROVE TypeOK'
  <2>1. CASE Upgrade(s)
    BY <2>1 DEF Upgrade
  <2>2. CASE HelloRejected(s)
    BY <2>2 DEF HelloRejected
  <2>3. CASE Install(s)
    BY <2>3 DEF Install
  <2>4. CASE RetirePrevious(s)
    BY <2>4 DEF RetirePrevious, RetireHeld, FailSession
  <2>5. CASE Recheck(s)
    BY <2>5 DEF Recheck
  <2>6. CASE RejectedRevoke(s)
    BY <2>6 DEF RejectedRevoke, TakeActive
  <2>7. CASE RejectedRetire(s)
    BY <2>7 DEF RejectedRetire, RetireHeld, FailSession
  <2>8. CASE HelloAck(s)
    BY <2>8 DEF HelloAck
  <2>9. CASE ConnectionLost(s)
    BY <2>9 DEF ConnectionLost
  <2>10. CASE CloseObserved(s)
    BY <2>10 DEF CloseObserved
  <2>11. CASE DisconnectRoute(s)
    BY <2>11 DEF DisconnectRoute
  <2>12. CASE DisconnectFail(s)
    BY <2>12 DEF DisconnectFail, FailSession
  <2>13. CASE SocketReturn(s)
    BY <2>13 DEF SocketReturn
  <2>14. ASSUME NEW r \in Requests, Forward(s, r) PROVE TypeOK'
    BY <2>14 DEF Forward, QueueOf
  <2>15. ASSUME NEW r \in Requests, Receive(s, r) PROVE TypeOK'
    BY <2>15 DEF Receive, QueueOf
  <2>16. CASE BeginSend(s)
    BY <2>16 DEF BeginSend
  <2>17. CASE SendDone(s)
    BY <2>17 DEF SendDone
  <2>q. QED BY <1>2, <2>1, <2>2, <2>3, <2>4, <2>5, <2>6, <2>7, <2>8, <2>9, <2>10, <2>11, <2>12, <2>13,
            <2>14, <2>15, <2>16, <2>17 DEF SocketNext
<1>3. ASSUME NEW r \in Requests, RequestNext(r) PROVE TypeOK'
  <2>1. CASE ReadActive(r)
    BY <2>1 DEF ReadActive, Goto
  <2>2. CASE CheckCredential(r)
    BY <2>2 DEF CheckCredential, Goto
  <2>3. CASE RequestRevoke(r)
    BY <2>3 DEF RequestRevoke, TakeActive, Goto
  <2>4. CASE RequestRetire(r)
    BY <2>4 DEF RequestRetire, RetireHeld, FailSession, Goto
  <2>5. CASE InsertPending(r)
    BY <2>5 DEF InsertPending, Goto
  <2>6. CASE SendRequest(r)
    BY <2>6 DEF SendRequest, Goto
  <2>7. CASE SendFails(r)
    BY <2>7 DEF SendFails, Finish, Goto
  <2>8. CASE TakeReply(r)
    BY <2>8 DEF TakeReply, Finish, Goto
  <2>9. CASE ReplyTimeout(r)
    BY <2>9 DEF ReplyTimeout, Finish, Goto
  <2>10. CASE ClientGone(r)
    BY <2>10 DEF ClientGone, Finish, Goto
  <2>q. QED BY <1>3, <2>1, <2>2, <2>3, <2>4, <2>5, <2>6, <2>7, <2>8, <2>9, <2>10 DEF RequestNext
<1>4. CASE UNCHANGED vars
    BY <1>4 DEF vars
<1>q. QED BY <1>1, <1>2, <1>3, <1>4 DEF Next

\* The route never points to a socket that is still upgrading or has left.
LEMMA ActiveStep ==
    TypeOK /\ ActiveInstalled /\ [Next]_vars => ActiveInstalled'
<1> SUFFICES ASSUME TypeOK, ActiveInstalled, [Next]_vars PROVE ActiveInstalled'
  OBVIOUS
<1> USE McpGatewayAssumption DEF TypeOK, ActiveInstalled, SockState, sockVars
<1>1. ASSUME NEW g \in Registrars, RegistrarNext(g) PROVE ActiveInstalled'
  <2>1. CASE RegisterCommit(g)
    BY <2>1 DEF RegisterCommit
  <2>2. CASE RegisterRevoke(g)
    BY <2>2 DEF RegisterRevoke, TakeActive
  <2>3. CASE RegisterRetire(g)
    BY <2>3 DEF RegisterRetire, RetireHeld, FailSession
  <2>4. CASE RegisterDropped(g)
    BY <2>4 DEF RegisterDropped
  <2>q. QED BY <1>1, <2>1, <2>2, <2>3, <2>4 DEF RegistrarNext
<1>2. ASSUME NEW s \in Sockets, SocketNext(s) PROVE ActiveInstalled'
  <2>1. CASE Upgrade(s)
    BY <2>1 DEF Upgrade
  <2>2. CASE HelloRejected(s)
    BY <2>2 DEF HelloRejected
  <2>3. CASE Install(s)
    BY <2>3 DEF Install
  <2>4. CASE RetirePrevious(s)
    BY <2>4 DEF RetirePrevious, RetireHeld, FailSession
  <2>5. CASE Recheck(s)
    BY <2>5 DEF Recheck
  <2>6. CASE RejectedRevoke(s)
    BY <2>6 DEF RejectedRevoke, TakeActive
  <2>7. CASE RejectedRetire(s)
    BY <2>7 DEF RejectedRetire, RetireHeld, FailSession
  <2>8. CASE HelloAck(s)
    BY <2>8 DEF HelloAck
  <2>9. CASE ConnectionLost(s)
    BY <2>9 DEF ConnectionLost
  <2>10. CASE CloseObserved(s)
    BY <2>10 DEF CloseObserved
  <2>11. CASE DisconnectRoute(s)
    BY <2>11 DEF DisconnectRoute
  <2>12. CASE DisconnectFail(s)
    BY <2>12 DEF DisconnectFail, FailSession
  <2>13. CASE SocketReturn(s)
    BY <2>13 DEF SocketReturn
  <2>14. ASSUME NEW r \in Requests, Forward(s, r) PROVE ActiveInstalled'
    BY <2>14 DEF Forward, QueueOf
  <2>15. ASSUME NEW r \in Requests, Receive(s, r) PROVE ActiveInstalled'
    BY <2>15 DEF Receive, QueueOf
  <2>16. CASE BeginSend(s)
    BY <2>16 DEF BeginSend
  <2>17. CASE SendDone(s)
    BY <2>17 DEF SendDone
  <2>q. QED BY <1>2, <2>1, <2>2, <2>3, <2>4, <2>5, <2>6, <2>7, <2>8, <2>9, <2>10, <2>11, <2>12, <2>13,
            <2>14, <2>15, <2>16, <2>17 DEF SocketNext
<1>3. ASSUME NEW r \in Requests, RequestNext(r) PROVE ActiveInstalled'
  <2>1. CASE ReadActive(r)
    BY <2>1 DEF ReadActive, Goto
  <2>2. CASE CheckCredential(r)
    BY <2>2 DEF CheckCredential, Goto
  <2>3. CASE RequestRevoke(r)
    BY <2>3 DEF RequestRevoke, TakeActive, Goto
  <2>4. CASE RequestRetire(r)
    BY <2>4 DEF RequestRetire, RetireHeld, FailSession, Goto
  <2>5. CASE InsertPending(r)
    BY <2>5 DEF InsertPending, Goto
  <2>6. CASE SendRequest(r)
    BY <2>6 DEF SendRequest, Goto
  <2>7. CASE SendFails(r)
    BY <2>7 DEF SendFails, Finish, Goto
  <2>8. CASE TakeReply(r)
    BY <2>8 DEF TakeReply, Finish, Goto
  <2>9. CASE ReplyTimeout(r)
    BY <2>9 DEF ReplyTimeout, Finish, Goto
  <2>10. CASE ClientGone(r)
    BY <2>10 DEF ClientGone, Finish, Goto
  <2>q. QED BY <1>3, <2>1, <2>2, <2>3, <2>4, <2>5, <2>6, <2>7, <2>8, <2>9, <2>10 DEF RequestNext
<1>4. CASE UNCHANGED vars
    BY <1>4 DEF vars
<1>q. QED BY <1>1, <1>2, <1>3, <1>4 DEF Next

\* A rotation during the handshake is caught by the recheck or the revoke.
LEMMA RotationStep ==
    TypeOK /\ ActiveInstalled /\ RotationCaught /\ [Next]_vars => RotationCaught'
<1> SUFFICES ASSUME TypeOK, ActiveInstalled, RotationCaught, [Next]_vars PROVE RotationCaught'
  OBVIOUS
<1> USE McpGatewayAssumption DEF TypeOK, ActiveInstalled, RotationCaught, SockState, RegState,
        sockVars, regVars
<1>1. ASSUME NEW g \in Registrars, RegistrarNext(g) PROVE RotationCaught'
  <2>1. CASE RegisterCommit(g)
    BY <2>1 DEF RegisterCommit
  <2>2. CASE RegisterRevoke(g)
    BY <2>2 DEF RegisterRevoke, TakeActive
  <2>3. CASE RegisterRetire(g)
    BY <2>3 DEF RegisterRetire, RetireHeld, FailSession
  <2>4. CASE RegisterDropped(g)
    BY <2>4 DEF RegisterDropped
  <2>q. QED BY <1>1, <2>1, <2>2, <2>3, <2>4 DEF RegistrarNext
<1>2. ASSUME NEW s \in Sockets, SocketNext(s) PROVE RotationCaught'
  <2>1. CASE Upgrade(s)
    BY <2>1 DEF Upgrade
  <2>2. CASE HelloRejected(s)
    BY <2>2 DEF HelloRejected
  <2>3. CASE Install(s)
    BY <2>3 DEF Install
  <2>4. CASE RetirePrevious(s)
    BY <2>4 DEF RetirePrevious, RetireHeld, FailSession
  <2>5. CASE Recheck(s)
    BY <2>5 DEF Recheck
  <2>6. CASE RejectedRevoke(s)
    BY <2>6 DEF RejectedRevoke, TakeActive
  <2>7. CASE RejectedRetire(s)
    BY <2>7 DEF RejectedRetire, RetireHeld, FailSession
  <2>8. CASE HelloAck(s)
    BY <2>8 DEF HelloAck
  <2>9. CASE ConnectionLost(s)
    BY <2>9 DEF ConnectionLost
  <2>10. CASE CloseObserved(s)
    BY <2>10 DEF CloseObserved
  <2>11. CASE DisconnectRoute(s)
    BY <2>11 DEF DisconnectRoute
  <2>12. CASE DisconnectFail(s)
    BY <2>12 DEF DisconnectFail, FailSession
  <2>13. CASE SocketReturn(s)
    BY <2>13 DEF SocketReturn
  <2>14. ASSUME NEW r \in Requests, Forward(s, r) PROVE RotationCaught'
    BY <2>14 DEF Forward, QueueOf
  <2>15. ASSUME NEW r \in Requests, Receive(s, r) PROVE RotationCaught'
    BY <2>15 DEF Receive, QueueOf
  <2>16. CASE BeginSend(s)
    BY <2>16 DEF BeginSend
  <2>17. CASE SendDone(s)
    BY <2>17 DEF SendDone
  <2>q. QED BY <1>2, <2>1, <2>2, <2>3, <2>4, <2>5, <2>6, <2>7, <2>8, <2>9, <2>10, <2>11, <2>12, <2>13,
            <2>14, <2>15, <2>16, <2>17 DEF SocketNext
<1>3. ASSUME NEW r \in Requests, RequestNext(r) PROVE RotationCaught'
  <2>1. CASE ReadActive(r)
    BY <2>1 DEF ReadActive, Goto
  <2>2. CASE CheckCredential(r)
    BY <2>2 DEF CheckCredential, Goto
  <2>3. CASE RequestRevoke(r)
    BY <2>3 DEF RequestRevoke, TakeActive, Goto
  <2>4. CASE RequestRetire(r)
    BY <2>4 DEF RequestRetire, RetireHeld, FailSession, Goto
  <2>5. CASE InsertPending(r)
    BY <2>5 DEF InsertPending, Goto
  <2>6. CASE SendRequest(r)
    BY <2>6 DEF SendRequest, Goto
  <2>7. CASE SendFails(r)
    BY <2>7 DEF SendFails, Finish, Goto
  <2>8. CASE TakeReply(r)
    BY <2>8 DEF TakeReply, Finish, Goto
  <2>9. CASE ReplyTimeout(r)
    BY <2>9 DEF ReplyTimeout, Finish, Goto
  <2>10. CASE ClientGone(r)
    BY <2>10 DEF ClientGone, Finish, Goto
  <2>q. QED BY <1>3, <2>1, <2>2, <2>3, <2>4, <2>5, <2>6, <2>7, <2>8, <2>9, <2>10 DEF RequestNext
<1>4. CASE UNCHANGED vars
    BY <1>4 DEF vars
<1>q. QED BY <1>1, <1>2, <1>3, <1>4 DEF Next

\* The pending map and the waiting requests stay in step.
LEMMA WaiterStep ==
    TypeOK /\ WaiterPending /\ [Next]_vars => WaiterPending'
<1> SUFFICES ASSUME TypeOK, WaiterPending, [Next]_vars PROVE WaiterPending'
  OBVIOUS
<1> USE McpGatewayAssumption DEF TypeOK, WaiterPending, ReqState, ReplyState, reqVars, dispatchVars
<1>1. ASSUME NEW g \in Registrars, RegistrarNext(g) PROVE WaiterPending'
  <2>1. CASE RegisterCommit(g)
    BY <2>1 DEF RegisterCommit
  <2>2. CASE RegisterRevoke(g)
    BY <2>2 DEF RegisterRevoke, TakeActive
  <2>3. CASE RegisterRetire(g)
    BY <2>3 DEF RegisterRetire, RetireHeld, FailSession
  <2>4. CASE RegisterDropped(g)
    BY <2>4 DEF RegisterDropped
  <2>q. QED BY <1>1, <2>1, <2>2, <2>3, <2>4 DEF RegistrarNext
<1>2. ASSUME NEW s \in Sockets, SocketNext(s) PROVE WaiterPending'
  <2>1. CASE Upgrade(s)
    BY <2>1 DEF Upgrade
  <2>2. CASE HelloRejected(s)
    BY <2>2 DEF HelloRejected
  <2>3. CASE Install(s)
    BY <2>3 DEF Install
  <2>4. CASE RetirePrevious(s)
    BY <2>4 DEF RetirePrevious, RetireHeld, FailSession
  <2>5. CASE Recheck(s)
    BY <2>5 DEF Recheck
  <2>6. CASE RejectedRevoke(s)
    BY <2>6 DEF RejectedRevoke, TakeActive
  <2>7. CASE RejectedRetire(s)
    BY <2>7 DEF RejectedRetire, RetireHeld, FailSession
  <2>8. CASE HelloAck(s)
    BY <2>8 DEF HelloAck
  <2>9. CASE ConnectionLost(s)
    BY <2>9 DEF ConnectionLost
  <2>10. CASE CloseObserved(s)
    BY <2>10 DEF CloseObserved
  <2>11. CASE DisconnectRoute(s)
    BY <2>11 DEF DisconnectRoute
  <2>12. CASE DisconnectFail(s)
    BY <2>12 DEF DisconnectFail, FailSession
  <2>13. CASE SocketReturn(s)
    BY <2>13 DEF SocketReturn
  <2>14. ASSUME NEW r \in Requests, Forward(s, r) PROVE WaiterPending'
    BY <2>14 DEF Forward, QueueOf
  <2>15. ASSUME NEW r \in Requests, Receive(s, r) PROVE WaiterPending'
    BY <2>15 DEF Receive, QueueOf
  <2>16. CASE BeginSend(s)
    BY <2>16 DEF BeginSend
  <2>17. CASE SendDone(s)
    BY <2>17 DEF SendDone
  <2>q. QED BY <1>2, <2>1, <2>2, <2>3, <2>4, <2>5, <2>6, <2>7, <2>8, <2>9, <2>10, <2>11, <2>12, <2>13,
            <2>14, <2>15, <2>16, <2>17 DEF SocketNext
<1>3. ASSUME NEW r \in Requests, RequestNext(r) PROVE WaiterPending'
  <2>1. CASE ReadActive(r)
    BY <2>1 DEF ReadActive, Goto
  <2>2. CASE CheckCredential(r)
    BY <2>2 DEF CheckCredential, Goto
  <2>3. CASE RequestRevoke(r)
    BY <2>3 DEF RequestRevoke, TakeActive, Goto
  <2>4. CASE RequestRetire(r)
    BY <2>4 DEF RequestRetire, RetireHeld, FailSession, Goto
  <2>5. CASE InsertPending(r)
    BY <2>5 DEF InsertPending, Goto
  <2>6. CASE SendRequest(r)
    BY <2>6 DEF SendRequest, Goto
  <2>7. CASE SendFails(r)
    BY <2>7 DEF SendFails, Finish, Goto
  <2>8. CASE TakeReply(r)
    BY <2>8 DEF TakeReply, Finish, Goto
  <2>9. CASE ReplyTimeout(r)
    BY <2>9 DEF ReplyTimeout, Finish, Goto
  <2>10. CASE ClientGone(r)
    BY <2>10 DEF ClientGone, Finish, Goto
  <2>q. QED BY <1>3, <2>1, <2>2, <2>3, <2>4, <2>5, <2>6, <2>7, <2>8, <2>9, <2>10 DEF RequestNext
<1>4. CASE UNCHANGED vars
    BY <1>4 DEF vars
<1>q. QED BY <1>1, <1>2, <1>3, <1>4 DEF Next

\* A request's route stays past its upgrade.
LEMMA RouteStep ==
    TypeOK /\ ActiveInstalled /\ RouteSettled /\ [Next]_vars => RouteSettled'
<1> SUFFICES ASSUME TypeOK, ActiveInstalled, RouteSettled, [Next]_vars PROVE RouteSettled'
  OBVIOUS
<1> USE McpGatewayAssumption DEF TypeOK, ActiveInstalled, RouteSettled, SockState, ReqState,
        sockVars, reqVars
<1>1. ASSUME NEW g \in Registrars, RegistrarNext(g) PROVE RouteSettled'
  <2>1. CASE RegisterCommit(g)
    BY <2>1 DEF RegisterCommit
  <2>2. CASE RegisterRevoke(g)
    BY <2>2 DEF RegisterRevoke, TakeActive
  <2>3. CASE RegisterRetire(g)
    BY <2>3 DEF RegisterRetire, RetireHeld, FailSession
  <2>4. CASE RegisterDropped(g)
    BY <2>4 DEF RegisterDropped
  <2>q. QED BY <1>1, <2>1, <2>2, <2>3, <2>4 DEF RegistrarNext
<1>2. ASSUME NEW s \in Sockets, SocketNext(s) PROVE RouteSettled'
  <2>1. CASE Upgrade(s)
    BY <2>1 DEF Upgrade
  <2>2. CASE HelloRejected(s)
    BY <2>2 DEF HelloRejected
  <2>3. CASE Install(s)
    BY <2>3 DEF Install
  <2>4. CASE RetirePrevious(s)
    BY <2>4 DEF RetirePrevious, RetireHeld, FailSession
  <2>5. CASE Recheck(s)
    BY <2>5 DEF Recheck
  <2>6. CASE RejectedRevoke(s)
    BY <2>6 DEF RejectedRevoke, TakeActive
  <2>7. CASE RejectedRetire(s)
    BY <2>7 DEF RejectedRetire, RetireHeld, FailSession
  <2>8. CASE HelloAck(s)
    BY <2>8 DEF HelloAck
  <2>9. CASE ConnectionLost(s)
    BY <2>9 DEF ConnectionLost
  <2>10. CASE CloseObserved(s)
    BY <2>10 DEF CloseObserved
  <2>11. CASE DisconnectRoute(s)
    BY <2>11 DEF DisconnectRoute
  <2>12. CASE DisconnectFail(s)
    BY <2>12 DEF DisconnectFail, FailSession
  <2>13. CASE SocketReturn(s)
    BY <2>13 DEF SocketReturn
  <2>14. ASSUME NEW r \in Requests, Forward(s, r) PROVE RouteSettled'
    BY <2>14 DEF Forward, QueueOf
  <2>15. ASSUME NEW r \in Requests, Receive(s, r) PROVE RouteSettled'
    BY <2>15 DEF Receive, QueueOf
  <2>16. CASE BeginSend(s)
    BY <2>16 DEF BeginSend
  <2>17. CASE SendDone(s)
    BY <2>17 DEF SendDone
  <2>q. QED BY <1>2, <2>1, <2>2, <2>3, <2>4, <2>5, <2>6, <2>7, <2>8, <2>9, <2>10, <2>11, <2>12, <2>13,
            <2>14, <2>15, <2>16, <2>17 DEF SocketNext
<1>3. ASSUME NEW r \in Requests, RequestNext(r) PROVE RouteSettled'
  <2>1. CASE ReadActive(r)
    BY <2>1 DEF ReadActive, Goto
  <2>2. CASE CheckCredential(r)
    BY <2>2 DEF CheckCredential, Goto
  <2>3. CASE RequestRevoke(r)
    BY <2>3 DEF RequestRevoke, TakeActive, Goto
  <2>4. CASE RequestRetire(r)
    BY <2>4 DEF RequestRetire, RetireHeld, FailSession, Goto
  <2>5. CASE InsertPending(r)
    BY <2>5 DEF InsertPending, Goto
  <2>6. CASE SendRequest(r)
    BY <2>6 DEF SendRequest, Goto
  <2>7. CASE SendFails(r)
    BY <2>7 DEF SendFails, Finish, Goto
  <2>8. CASE TakeReply(r)
    BY <2>8 DEF TakeReply, Finish, Goto
  <2>9. CASE ReplyTimeout(r)
    BY <2>9 DEF ReplyTimeout, Finish, Goto
  <2>10. CASE ClientGone(r)
    BY <2>10 DEF ClientGone, Finish, Goto
  <2>q. QED BY <1>3, <2>1, <2>2, <2>3, <2>4, <2>5, <2>6, <2>7, <2>8, <2>9, <2>10 DEF RequestNext
<1>4. CASE UNCHANGED vars
    BY <1>4 DEF vars
<1>q. QED BY <1>1, <1>2, <1>3, <1>4 DEF Next

\* No step dispatches a request over a session older than the request.
LEMMA DispatchStep ==
    TypeOK /\ RouteSettled /\ NoStaleDispatch /\ [Next]_vars => NoStaleDispatch'
<1> SUFFICES ASSUME TypeOK, RouteSettled, NoStaleDispatch, [Next]_vars PROVE NoStaleDispatch'
  OBVIOUS
<1> USE McpGatewayAssumption DEF TypeOK, RouteSettled, NoStaleDispatch, SockState, ReqState,
        sockVars, reqVars
<1>1. ASSUME NEW g \in Registrars, RegistrarNext(g) PROVE NoStaleDispatch'
  <2>1. CASE RegisterCommit(g)
    BY <2>1 DEF RegisterCommit
  <2>2. CASE RegisterRevoke(g)
    BY <2>2 DEF RegisterRevoke, TakeActive
  <2>3. CASE RegisterRetire(g)
    BY <2>3 DEF RegisterRetire, RetireHeld, FailSession
  <2>4. CASE RegisterDropped(g)
    BY <2>4 DEF RegisterDropped
  <2>q. QED BY <1>1, <2>1, <2>2, <2>3, <2>4 DEF RegistrarNext
<1>2. ASSUME NEW s \in Sockets, SocketNext(s) PROVE NoStaleDispatch'
  <2>1. CASE Upgrade(s)
    BY <2>1 DEF Upgrade
  <2>2. CASE HelloRejected(s)
    BY <2>2 DEF HelloRejected
  <2>3. CASE Install(s)
    BY <2>3 DEF Install
  <2>4. CASE RetirePrevious(s)
    BY <2>4 DEF RetirePrevious, RetireHeld, FailSession
  <2>5. CASE Recheck(s)
    BY <2>5 DEF Recheck
  <2>6. CASE RejectedRevoke(s)
    BY <2>6 DEF RejectedRevoke, TakeActive
  <2>7. CASE RejectedRetire(s)
    BY <2>7 DEF RejectedRetire, RetireHeld, FailSession
  <2>8. CASE HelloAck(s)
    BY <2>8 DEF HelloAck
  <2>9. CASE ConnectionLost(s)
    BY <2>9 DEF ConnectionLost
  <2>10. CASE CloseObserved(s)
    BY <2>10 DEF CloseObserved
  <2>11. CASE DisconnectRoute(s)
    BY <2>11 DEF DisconnectRoute
  <2>12. CASE DisconnectFail(s)
    BY <2>12 DEF DisconnectFail, FailSession
  <2>13. CASE SocketReturn(s)
    BY <2>13 DEF SocketReturn
  <2>14. ASSUME NEW r \in Requests, Forward(s, r) PROVE NoStaleDispatch'
    BY <2>14 DEF Forward, QueueOf
  <2>15. ASSUME NEW r \in Requests, Receive(s, r) PROVE NoStaleDispatch'
    BY <2>15 DEF Receive, QueueOf
  <2>16. CASE BeginSend(s)
    BY <2>16 DEF BeginSend
  <2>17. CASE SendDone(s)
    BY <2>17 DEF SendDone
  <2>q. QED BY <1>2, <2>1, <2>2, <2>3, <2>4, <2>5, <2>6, <2>7, <2>8, <2>9, <2>10, <2>11, <2>12, <2>13,
            <2>14, <2>15, <2>16, <2>17 DEF SocketNext
<1>3. ASSUME NEW r \in Requests, RequestNext(r) PROVE NoStaleDispatch'
  <2>1. CASE ReadActive(r)
    BY <2>1 DEF ReadActive, Goto
  <2>2. CASE CheckCredential(r)
    BY <2>2 DEF CheckCredential, Goto
  <2>3. CASE RequestRevoke(r)
    BY <2>3 DEF RequestRevoke, TakeActive, Goto
  <2>4. CASE RequestRetire(r)
    BY <2>4 DEF RequestRetire, RetireHeld, FailSession, Goto
  <2>5. CASE InsertPending(r)
    BY <2>5 DEF InsertPending, Goto
  <2>6. CASE SendRequest(r)
    BY <2>6 DEF SendRequest, Goto
  <2>7. CASE SendFails(r)
    BY <2>7 DEF SendFails, Finish, Goto
  <2>8. CASE TakeReply(r)
    BY <2>8 DEF TakeReply, Finish, Goto
  <2>9. CASE ReplyTimeout(r)
    BY <2>9 DEF ReplyTimeout, Finish, Goto
  <2>10. CASE ClientGone(r)
    BY <2>10 DEF ClientGone, Finish, Goto
  <2>q. QED BY <1>3, <2>1, <2>2, <2>3, <2>4, <2>5, <2>6, <2>7, <2>8, <2>9, <2>10 DEF RequestNext
<1>4. CASE UNCHANGED vars
    BY <1>4 DEF vars
<1>q. QED BY <1>1, <1>2, <1>3, <1>4 DEF Next

-----------------------------------------------------------------------------
\* The inductive invariant holds initially and in every reachable state.
THEOREM Invariance == Spec => []IndInv
<1>1. Init => IndInv
  BY McpGatewayAssumption
  DEF Init, IndInv, TypeOK, ActiveInstalled, RotationCaught, WaiterPending, RouteSettled,
      NoStaleDispatch, Actors, SockState, RegState, ReqState, ReplyState
<1>2. IndInv /\ [Next]_vars => IndInv'
  BY TypeStep, ActiveStep, RotationStep, WaiterStep, RouteStep, DispatchStep DEF IndInv
<1>q. QED
  BY <1>1, <1>2, PTL DEF Spec

\* Every variable keeps its type, for any number of actors.
THEOREM TypeCorrect == Spec => []TypeOK
BY Invariance, PTL DEF IndInv

\* socket_loop's comment is right for any number of websockets and
\* registrations: the recheck or the registrar's revoke catches a rotation.
THEOREM RotationIsCaught == Spec => []RotationCaught
BY Invariance, PTL DEF IndInv

\* No slot of the pending map leaks and no waiter is missing from it.
THEOREM PendingExact == Spec => []PendingTracksWaiters
<1>1. IndInv => PendingTracksWaiters
  BY DEF IndInv, WaiterPending, PendingTracksWaiters
<1>q. QED
  BY <1>1, Invariance, PTL

\* A request that began after a rotation is never dispatched over a session
\* that authenticated before it.
THEOREM DispatchIsFresh == Spec => []NoStaleDispatch
BY Invariance, PTL DEF IndInv
=============================================================================
