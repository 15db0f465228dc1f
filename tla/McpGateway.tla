------------------------------ MODULE McpGateway ------------------------------
(***************************************************************************)
(* The relay's public MCP gateway (relay-server/src/mcp_gateway.rs): the   *)
(* desktop websockets that compete for the single active route, the        *)
(* register_desktop handlers that rotate the desktop credential, and the   *)
(* public HTTP requests that are dispatched over the active websocket.     *)
(*                                                                         *)
(* Every step is what one task does between two points where another task  *)
(* can run: a lock is taken and released, or the task awaits.  A response  *)
(* is one message here; McpStream models its head, chunks and end.         *)
(***************************************************************************)
EXTENDS Integers, FiniteSets

CONSTANTS
    Sockets,        \* websocket upgrades of the configured desktop
    Registrars,     \* calls of register_desktop for that desktop
    Requests,       \* public HTTP requests
    None,
    MaxPending,     \* MAX_PENDING: requests admitted at once
    QueueCap        \* capacity of a websocket's outgoing queue

ASSUME McpGatewayAssumption ==
    /\ None \notin Sockets
    /\ Sockets \cap Registrars = {}
    /\ Sockets \cap Requests = {}
    /\ Registrars \cap Requests = {}
    /\ IsFiniteSet(Requests)
    /\ MaxPending \in Nat
    /\ QueueCap \in Nat \ {0}

VARIABLES
    token,          \* the desktop's credential in the registry, as a version
    active,         \* Gateway.active
    sock,           \* where each socket_loop is
    cred,           \* the credential each websocket authenticated with
    closed,         \* Active.close: the watch channel of each websocket
    held,           \* the Active a task took out of the route and must retire
    reg,            \* where each register_desktop is
    minted,         \* the credential each register_desktop committed, or 0
    req,            \* where each public_request is
    route,          \* the Active that a request cloned
    started,        \* history: the credential when the request began
    pending,        \* Gateway.pending: its keys
    reply,          \* the reply channel of each request
    queued          \* requests that wait in the outgoing queue of their route

vars == <<token, active, sock, cred, closed, held, reg, minted, req, route,
          started, pending, reply, queued>>
sockVars == <<sock, cred, closed>>
regVars == <<reg, minted>>
reqVars == <<req, route, started>>
dispatchVars == <<pending, reply, queued>>

Actors == Sockets \cup Registrars \cup Requests
SockState == {"new", "upgraded", "retire", "recheck", "rejected", "revoking",
              "acking", "online", "sending", "leaving", "failing", "dropping", "gone"}
RegState == {"ready", "revoke", "revoking", "dropped", "done"}
ReqState == {"new", "check", "revoke", "revoking", "insert", "send", "await",
             "served", "failed"}
ReplyState == {"none", "end", "error"}

\* The receiving half of the queue lives until socket_loop returns.
Receiving(s) == sock[s] # "gone"
QueueOf(s) == {r \in queued : route[r] = s}

-----------------------------------------------------------------------------
(* Gateway methods.                                                         *)

\* fail_session: every pending request of s gets Reply::Error.
FailSession(s) ==
    LET hit == {r \in pending : route[r] = s} IN
    /\ pending' = pending \ hit
    /\ reply' = [r \in Requests |-> IF r \in hit THEN "error" ELSE reply[r]]
    /\ UNCHANGED queued

\* revoke_desktop, first half: active.write().await.take().  Whatever is
\* active is taken, whichever credential it authenticated with.
TakeActive(a) ==
    /\ active' = None
    /\ held' = [held EXCEPT ![a] = active]

\* Bug: the close channel is not signalled.
RetireHeldSilently(a) ==
    /\ held' = [held EXCEPT ![a] = None]
    /\ FailSession(held[a])
    /\ UNCHANGED closed

\* Second half, also run by a socket that replaced another one: signal the
\* close channel and fail the requests of the session that was taken.
RetireHeld(a) ==
    /\ closed' = [closed EXCEPT ![held[a]] = TRUE]
    /\ held' = [held EXCEPT ![a] = None]
    /\ FailSession(held[a])

-----------------------------------------------------------------------------
(* register_desktop: rotate the credential, then revoke the active session. *)

\* Under the registry mutex; a failed save leaves the record untouched.
RegisterCommit(g) ==
    /\ reg[g] = "ready"
    /\ \/ /\ token' = token + 1
          /\ minted' = [minted EXCEPT ![g] = token + 1]
          /\ reg' = [reg EXCEPT ![g] = "revoke"]
       \/ /\ reg' = [reg EXCEPT ![g] = "done"]
          /\ UNCHANGED <<token, minted>>
    /\ UNCHANGED <<active, sockVars, held, reqVars, dispatchVars>>

RegisterRevoke(g) ==
    /\ reg[g] = "revoke"
    /\ TakeActive(g)
    /\ reg' = [reg EXCEPT ![g] = IF active = None THEN "done" ELSE "revoking"]
    /\ UNCHANGED <<token, minted, sockVars, reqVars, dispatchVars>>

RegisterRetire(g) ==
    /\ reg[g] = "revoking"
    /\ RetireHeld(g)
    /\ reg' = [reg EXCEPT ![g] = "done"]
    /\ UNCHANGED <<token, active, minted, sock, cred, reqVars>>

\* The client leaves while the handler awaits the route's write lock: the
\* future is dropped, the rotation stands and nobody revokes.
RegisterDropped(g) ==
    /\ reg[g] = "revoke"
    /\ reg' = [reg EXCEPT ![g] = "dropped"]
    /\ UNCHANGED <<token, active, minted, sockVars, held, reqVars, dispatchVars>>

-----------------------------------------------------------------------------
(* websocket() and socket_loop().                                           *)

\* websocket(): only the current credential is accepted, and the desktop
\* knows a new one once register_desktop has answered.
Upgrade(s) ==
    /\ sock[s] = "new"
    /\ \A g \in Registrars : minted[g] = token => reg[g] = "done"
    /\ sock' = [sock EXCEPT ![s] = "upgraded"]
    /\ cred' = [cred EXCEPT ![s] = token]
    /\ UNCHANGED <<token, active, closed, held, regVars, reqVars, dispatchVars>>

\* The hello is missing, late or malformed.
HelloRejected(s) ==
    /\ sock[s] = "upgraded"
    /\ sock' = [sock EXCEPT ![s] = "gone"]
    /\ UNCHANGED <<token, active, cred, closed, held, regVars, reqVars, dispatchVars>>

\* active.write().await.replace(..)
Install(s) ==
    /\ sock[s] = "upgraded"
    /\ active' = s
    /\ held' = [held EXCEPT ![s] = active]
    /\ sock' = [sock EXCEPT ![s] = IF active = None THEN "recheck" ELSE "retire"]
    /\ UNCHANGED <<token, cred, closed, regVars, reqVars, dispatchVars>>

RetirePrevious(s) ==
    /\ sock[s] = "retire"
    /\ RetireHeld(s)
    /\ sock' = [sock EXCEPT ![s] = "recheck"]
    /\ UNCHANGED <<token, active, cred, regVars, reqVars>>

\* Bug: the credential is trusted as it was at the upgrade.
RecheckSkipped(s) ==
    /\ sock[s] = "recheck"
    /\ sock' = [sock EXCEPT ![s] = "acking"]
    /\ UNCHANGED <<token, active, cred, closed, held, regVars, reqVars, dispatchVars>>

\* The registry is read again after the route was installed.
Recheck(s) ==
    /\ sock[s] = "recheck"
    /\ sock' = [sock EXCEPT ![s] = IF cred[s] = token THEN "acking" ELSE "rejected"]
    /\ UNCHANGED <<token, active, cred, closed, held, regVars, reqVars, dispatchVars>>

RejectedRevoke(s) ==
    /\ sock[s] = "rejected"
    /\ TakeActive(s)
    /\ sock' = [sock EXCEPT ![s] = IF active = None THEN "gone" ELSE "revoking"]
    /\ UNCHANGED <<token, cred, closed, regVars, reqVars, dispatchVars>>

RejectedRetire(s) ==
    /\ sock[s] = "revoking"
    /\ RetireHeld(s)
    /\ sock' = [sock EXCEPT ![s] = "gone"]
    /\ UNCHANGED <<token, active, cred, regVars, reqVars>>

HelloAck(s) ==
    /\ sock[s] = "acking"
    /\ sock' = [sock EXCEPT ![s] = "online"]
    /\ UNCHANGED <<token, active, cred, closed, held, regVars, reqVars, dispatchVars>>

\* A send awaits socket.send(..) inside its arm of the select: until the peer
\* reads or the connection breaks, the loop looks at nothing else.  This one
\* is the heartbeat's Ping or the answer to the desktop's own ping.
BeginSend(s) ==
    /\ sock[s] = "online"
    /\ sock' = [sock EXCEPT ![s] = "sending"]
    /\ UNCHANGED <<token, active, cred, closed, held, regVars, reqVars, dispatchVars>>

SendDone(s) ==
    /\ sock[s] = "sending"
    /\ sock' = [sock EXCEPT ![s] = "online"]
    /\ UNCHANGED <<token, active, cred, closed, held, regVars, reqVars, dispatchVars>>

\* A send fails, the peer closes, an error or the idle timeout.
ConnectionLost(s) ==
    /\ sock[s] \in {"acking", "online", "sending"}
    /\ sock' = [sock EXCEPT ![s] = "leaving"]
    /\ UNCHANGED <<token, active, cred, closed, held, regVars, reqVars, dispatchVars>>

\* closed.changed() breaks the loop.
CloseObserved(s) ==
    /\ sock[s] = "online"
    /\ closed[s]
    /\ sock' = [sock EXCEPT ![s] = "leaving"]
    /\ UNCHANGED <<token, active, cred, closed, held, regVars, reqVars, dispatchVars>>

\* disconnect(): clear the route if it is still this session's.
DisconnectRoute(s) ==
    /\ sock[s] = "leaving"
    /\ active' = IF active = s THEN None ELSE active
    /\ sock' = [sock EXCEPT ![s] = "failing"]
    /\ UNCHANGED <<token, cred, closed, held, regVars, reqVars, dispatchVars>>

DisconnectFail(s) ==
    /\ sock[s] = "failing"
    /\ FailSession(s)
    /\ sock' = [sock EXCEPT ![s] = "dropping"]
    /\ UNCHANGED <<token, active, cred, closed, held, regVars, reqVars>>

\* socket_loop returns and drops the receiving half of the queue.
SocketReturn(s) ==
    /\ sock[s] = "dropping"
    /\ sock' = [sock EXCEPT ![s] = "gone"]
    /\ UNCHANGED <<token, active, cred, closed, held, regVars, reqVars, dispatchVars>>

\* The loop takes a request off the queue and sends it; the desktop serves it
\* and the gateway receives its answer while the session is still the one
\* recorded in the pending entry.  The desktop may also never answer.
Forward(s, r) ==
    /\ sock[s] = "online"
    /\ r \in QueueOf(s)
    /\ queued' = queued \ {r}
    /\ sock' = [sock EXCEPT ![s] = "sending"]
    /\ UNCHANGED <<token, active, cred, closed, held, regVars, reqVars, pending, reply>>

Receive(s, r) ==
    /\ sock[s] = "online"
    /\ r \in pending \ queued
    /\ route[r] = s
    /\ req[r] = "await"
    /\ pending' = pending \ {r}
    /\ \E answer \in {"end", "error"} : reply' = [reply EXCEPT ![r] = answer]
    /\ UNCHANGED <<token, active, sockVars, held, regVars, reqVars, queued>>

-----------------------------------------------------------------------------
(* public_request().                                                        *)

Goto(r, state) == req' = [req EXCEPT ![r] = state]

ReadActive(r) ==
    /\ req[r] = "new"
    /\ started' = [started EXCEPT ![r] = token]
    /\ route' = [route EXCEPT ![r] = active]
    /\ Goto(r, IF active = None THEN "failed" ELSE "check")
    /\ UNCHANGED <<token, active, sockVars, held, regVars, dispatchVars>>

\* Bug: an open session is trusted without looking at the registry.
CheckCredentialSkipped(r) ==
    /\ req[r] = "check"
    /\ Goto(r, "insert")
    /\ UNCHANGED <<token, active, sockVars, held, regVars, route, started, dispatchVars>>

CheckCredential(r) ==
    /\ req[r] = "check"
    /\ Goto(r, IF cred[route[r]] = token THEN "insert" ELSE "revoke")
    /\ UNCHANGED <<token, active, sockVars, held, regVars, route, started, dispatchVars>>

RequestRevoke(r) ==
    /\ req[r] = "revoke"
    /\ TakeActive(r)
    /\ Goto(r, IF active = None THEN "failed" ELSE "revoking")
    /\ UNCHANGED <<token, sockVars, regVars, route, started, dispatchVars>>

RequestRetire(r) ==
    /\ req[r] = "revoking"
    /\ RetireHeld(r)
    /\ Goto(r, "failed")
    /\ UNCHANGED <<token, active, sock, cred, regVars, route, started>>

\* One lock for the capacity check and the insertion; 429 when full.
InsertPending(r) ==
    /\ req[r] = "insert"
    /\ IF Cardinality(pending) >= MaxPending
         THEN /\ Goto(r, "failed")
              /\ UNCHANGED pending
         ELSE /\ Goto(r, "send")
              /\ pending' = pending \cup {r}
    /\ UNCHANGED <<token, active, sockVars, held, regVars, route, started, reply, queued>>

\* active.tx.send(..) into a bounded queue.
SendRequest(r) ==
    /\ req[r] = "send"
    /\ Receiving(route[r])
    /\ Cardinality(QueueOf(route[r])) < QueueCap
    /\ queued' = queued \cup {r}
    /\ Goto(r, "await")
    /\ UNCHANGED <<token, active, sockVars, held, regVars, route, started, pending, reply>>

\* Bug: no PendingGuard, the entry stays when the request ends.
FinishUnguarded(r, state) ==
    /\ Goto(r, state)
    /\ UNCHANGED <<token, active, sockVars, held, regVars, route, started, dispatchVars>>

\* The request ends and PendingGuard::drop removes its entry.
Finish(r, state) ==
    /\ Goto(r, state)
    /\ pending' = pending \ {r}
    /\ UNCHANGED <<token, active, sockVars, held, regVars, route, started, reply, queued>>

\* The queue is closed, or stayed full for 15 seconds: also of upload frames
\* and cancellations, which share it with the requests.
SendFails(r) ==
    /\ req[r] = "send"
    /\ Finish(r, "failed")

TakeReply(r) ==
    /\ req[r] = "await"
    /\ reply[r] # "none"
    /\ Finish(r, IF reply[r] = "end" THEN "served" ELSE "failed")


\* PUBLIC_HEAD_TIMEOUT, PUBLIC_CHUNK_TIMEOUT
ReplyTimeout(r) ==
    /\ req[r] = "await"
    /\ reply[r] = "none"
    /\ Finish(r, "failed")

\* The HTTP client goes away: the future is dropped at an await.
ClientGone(r) ==
    /\ req[r] \in {"revoke", "insert", "send", "await"}
    /\ Finish(r, "failed")

-----------------------------------------------------------------------------
Init ==
    /\ token = 1
    /\ active = None
    /\ sock = [s \in Sockets |-> "new"]
    /\ cred = [s \in Sockets |-> 0]
    /\ closed = [s \in Sockets |-> FALSE]
    /\ held = [a \in Actors |-> None]
    /\ reg = [g \in Registrars |-> "ready"]
    /\ minted = [g \in Registrars |-> 0]
    /\ req = [r \in Requests |-> "new"]
    /\ route = [r \in Requests |-> None]
    /\ started = [r \in Requests |-> 0]
    /\ pending = {}
    /\ reply = [r \in Requests |-> "none"]
    /\ queued = {}

RegistrarNext(g) ==
    \/ RegisterCommit(g)
    \/ RegisterRevoke(g)
    \/ RegisterRetire(g)
    \/ RegisterDropped(g)

SocketNext(s) ==
    \/ Upgrade(s)
    \/ HelloRejected(s)
    \/ Install(s)
    \/ RetirePrevious(s)
    \/ Recheck(s)
    \/ RejectedRevoke(s)
    \/ RejectedRetire(s)
    \/ HelloAck(s)
    \/ BeginSend(s)
    \/ SendDone(s)
    \/ ConnectionLost(s)
    \/ CloseObserved(s)
    \/ DisconnectRoute(s)
    \/ DisconnectFail(s)
    \/ SocketReturn(s)
    \/ \E r \in Requests : Forward(s, r) \/ Receive(s, r)

RequestNext(r) ==
    \/ ReadActive(r)
    \/ CheckCredential(r)
    \/ RequestRevoke(r)
    \/ RequestRetire(r)
    \/ InsertPending(r)
    \/ SendRequest(r)
    \/ SendFails(r)
    \/ TakeReply(r)
    \/ ReplyTimeout(r)
    \/ ClientGone(r)

Next ==
    \/ \E g \in Registrars : RegistrarNext(g)
    \/ \E s \in Sockets : SocketNext(s)
    \/ \E r \in Requests : RequestNext(r)

Spec == Init /\ [][Next]_vars

\* The relay's own tasks are scheduled and its timers fire; nothing is
\* assumed of the desktop, the HTTP clients or the network.  In particular no
\* send is assumed to end: neither HelloAck nor SendDone is fair.
ServerStep(s) ==
    \/ RetirePrevious(s)
    \/ Recheck(s)
    \/ RejectedRevoke(s)
    \/ RejectedRetire(s)
    \/ DisconnectRoute(s)
    \/ DisconnectFail(s)
    \/ SocketReturn(s)

RequestStep(r) ==
    \/ CheckCredential(r)
    \/ RequestRevoke(r)
    \/ RequestRetire(r)
    \/ InsertPending(r)
    \/ SendRequest(r)
    \/ SendFails(r)
    \/ TakeReply(r)
    \/ ReplyTimeout(r)

\* select! begins with a branch chosen at random, so that a close that is
\* signalled is not passed over for ever by a loop that keeps turning.
Fairness ==
    /\ \A g \in Registrars : WF_vars(RegisterRevoke(g) \/ RegisterRetire(g))
    /\ \A s \in Sockets : WF_vars(ServerStep(s)) /\ SF_vars(CloseObserved(s))
    /\ \A r \in Requests : WF_vars(RequestStep(r))

FairSpec == Spec /\ Fairness

-----------------------------------------------------------------------------
(* Properties.                                                              *)

\* Every variable has its type.
TypeOK ==
    /\ token \in Nat
    /\ active \in Sockets \cup {None}
    /\ sock \in [Sockets -> SockState]
    /\ cred \in [Sockets -> Nat]
    /\ closed \in [Sockets -> BOOLEAN]
    /\ held \in [Actors -> Sockets \cup {None}]
    /\ reg \in [Registrars -> RegState]
    /\ minted \in [Registrars -> Nat]
    /\ req \in [Requests -> ReqState]
    /\ route \in [Requests -> Sockets \cup {None}]
    /\ started \in [Requests -> Nat]
    /\ pending \in SUBSET Requests
    /\ reply \in [Requests -> ReplyState]
    /\ queued \in SUBSET Requests

\* socket_loop's comment: "If a token rotates during the upgrade handshake,
\* either this check or the registrar's revoke catches it".  A route whose
\* credential was replaced is one that its own socket still has to recheck,
\* or that a register_desktop still has to revoke (or had to, when
\* its client left in that very moment).
RotationCaught ==
    active # None /\ cred[active] # token =>
        \/ sock[active] \in {"retire", "recheck", "rejected"}
        \/ \E g \in Registrars : reg[g] \in {"revoke", "dropped"}

\* public_request's comment: "An already-open WSS socket must not outlive a
\* replaced desktop token".  A request that began after a rotation is never
\* dispatched over a session that authenticated before it.
NoStaleDispatch ==
    \A r \in Requests :
        req[r] \in {"insert", "send", "await", "served"} =>
            cred[route[r]] >= started[r]

\* PendingGuard and fail_session between them: an entry of the pending map
\* always has a request behind it, and a request that waits for an answer is
\* in the map or has already been answered; neither a leaked slot nor a
\* waiter that a dying session cannot reach.
PendingTracksWaiters ==
    /\ \A r \in pending : req[r] \in {"send", "await"}
    /\ \A r \in Requests :
           req[r] = "await" /\ reply[r] = "none" => r \in pending

\* A session that authenticated with a replaced credential is cut off, whoever
\* took it out of the route: its close is signalled and no request is routed
\* to it, even while its loop hangs in a send to a desktop that does not read;
\* and a loop that does not hang in a send for ever observes the close and
\* returns.  The exception is a registrar that was dropped before it revoked.
StaleSessionRetired ==
    \A s \in Sockets :
        LET Stale == sock[s] \in {"acking", "online", "sending"} /\ cred[s] # token
            Missed == \E g \in Registrars : reg[g] = "dropped"
            Cut == active # s /\ (closed[s] \/ sock[s] = "gone") IN
        /\ Stale ~> Cut \/ Missed
        /\ []<>(sock[s] \notin {"acking", "sending"}) =>
               (Stale ~> sock[s] = "gone" \/ Missed)


=============================================================================
