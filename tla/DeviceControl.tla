--------------------------- MODULE DeviceControl ---------------------------
(***************************************************************************)
(* One control request of the paired phone ("refresh_snapshot" or          *)
(* "reconnect_tunnel") on its way to the desktop and back.  The phone      *)
(* makes ONE encrypted frame with a fresh id per execute() and offers it   *)
(* to its candidates one after the other: direct endpoints of the desktop  *)
(* and the relay.  Giving a candidate up does not take the frame back: the *)
(* thread or task that read it carries on, so several copies of the frame  *)
(* may reach the desktop's handle(), whose cache must run it once.         *)
(*                                                                         *)
(* The clock counts periods of 30 s, the unit of every bound handle() and  *)
(* the relay compare.  Shorter waits (CONTROL_TIMEOUT, the phone's 7 s,    *)
(* CONTROL_MIN_INTERVAL_MS) may end at any moment of a period.             *)
(***************************************************************************)
EXTENDS Integers, Sequences, FiniteSets

CONSTANTS Requests,     \* one per execute() of the phone
          Endpoints,    \* direct endpoints of the desktop
          Relay,        \* the relay candidate
          NoRequest,
          NotIssued,
          Lifetime,     \* expiresAt - issuedAt, 30 s
          FutureSkew,   \* how far ahead issuedAt may be, 30 s
          MaxAge,       \* how old a request may be, 60 s
          MaxPendingControls,  \* MAX_PENDING_CONTROLS
          Behind,       \* bound: periods the phone's clock may be late
          Ahead,        \* bound: periods the phone's clock may be early
          MaxTime,      \* bound: the last period
          MaxSessions   \* bound: relay sessions of the desktop

ASSUME ControlAssumption ==
    /\ Relay \notin Endpoints /\ NoRequest \notin Requests /\ NotIssued \notin Int
    /\ {Lifetime, FutureSkew, MaxAge, MaxPendingControls, MaxTime, MaxSessions} \subseteq Nat
    /\ Behind \subseteq Nat /\ Ahead \subseteq Nat

Candidates == Endpoints \cup {Relay}

VARIABLES
    now,       \* the desktop's and the relay's clock
    issued,    \* per request: issuedAt, from the phone's clock; NotIssued before execute()
    direct,    \* per request and endpoint: the connection thread's progress
    task,      \* per request: the relay's device_socket task
    via,       \* per request: the desktop session whose route the task holds, 0 for none
    controlConnections,  \* its keys: the requests the relay waits for
    session,   \* sessions of the desktop at the relay so far
    connected, \* the last of them is up
    controls,  \* DeviceControl messages to the desktop, in order
    held,      \* the request relay_session's handler has validated
    replies,   \* answers of the desktop to the relay, in order
    paired,    \* the desktop still has the phone's record
    cache,     \* requests with an entry in ControlCache
    runs       \* per request: unexpired executions answered by this process

relayVars == <<task, via, controlConnections>>
linkVars == <<session, connected, controls, replies>>
deskVars == <<direct, held, paired, cache, runs>>
controlVars == <<now, issued, relayVars, linkVars, deskVars>>

PhoneClock(t) == {t - k : k \in Behind} \cup {t + k : k \in Ahead}
Stages == {"idle", "arrived", "checked", "done"}
TaskStages == {"idle", "arrived", "routed", "refusing", "pended", "waiting", "expired", "done"}

ControlTypeOK ==
    /\ now \in 0..MaxTime
    /\ issued \in [Requests -> (UNION {PhoneClock(t) : t \in 0..MaxTime}) \cup {NotIssued}]
    /\ direct \in [Requests -> [Endpoints -> Stages]]
    /\ task \in [Requests -> TaskStages]
    /\ via \in [Requests -> 0..MaxSessions]
    /\ controlConnections \in SUBSET Requests
    /\ session \in 0..MaxSessions /\ connected \in BOOLEAN
    /\ controls \in Seq(Requests)
    /\ held \in Requests \cup {NoRequest}
    /\ replies \in Seq(Requests)
    /\ paired \in BOOLEAN
    /\ cache \in SUBSET Requests
    /\ runs \in [Requests -> Nat]

ControlInit ==
    /\ now = 0
    /\ issued = [r \in Requests |-> NotIssued]
    /\ direct = [r \in Requests |-> [e \in Endpoints |-> "idle"]]
    /\ task = [r \in Requests |-> "idle"]
    /\ via = [r \in Requests |-> 0]
    /\ controlConnections = {}
    /\ session = 0 /\ connected = FALSE /\ controls = <<>> /\ replies = <<>>
    /\ held = NoRequest /\ paired = TRUE /\ cache = {}
    /\ runs = [r \in Requests |-> 0]

Expires(r) == issued[r] + Lifetime

Tick == now < MaxTime /\ now' = now + 1 /\ UNCHANGED <<issued, relayVars, linkVars, deskVars>>

-----------------------------------------------------------------------------
(* The phone: MonitorControlClient.execute and executeCandidate.           *)

Execute(r) ==
    /\ issued[r] = NotIssued
    /\ \E at \in PhoneClock(now) : issued' = [issued EXCEPT ![r] = at]
    /\ UNCHANGED <<now, relayVars, linkVars, deskVars>>

\* The candidate before failed or was given up; the next one is sent the frame, which it may
\* read at any later moment or never.  execute() stops offering it when it has a result or
\* its deadline has passed.
TryCandidate(r, c) ==
    /\ issued[r] # NotIssued
    /\ \/ /\ c = Relay /\ task[r] = "idle"
          /\ task' = [task EXCEPT ![r] = "arrived"] /\ UNCHANGED direct
       \/ /\ c \in Endpoints /\ direct[r][c] = "idle"
          /\ direct' = [direct EXCEPT ![r][c] = "arrived"] /\ UNCHANGED task
    /\ UNCHANGED <<now, issued, via, controlConnections, linkVars, held, paired, cache, runs>>

-----------------------------------------------------------------------------
(* The desktop: handle(), reached by connection threads and by the relay   *)
(* client's loop.                                                          *)

\* has_monitor_device and validate_request, both before the cache is locked.
DesktopAccepts(r) ==
    /\ paired
    /\ issued[r] <= now + FutureSkew
    /\ now - issued[r] <= MaxAge
    /\ Expires(r) >= now
    /\ Lifetime <= MaxAge

\* cached_response first drops every entry that has expired.
\* Bug: an entry is dropped in the last instant its request is still valid.
PruneAtExpiry == {r \in cache : Expires(r) > now}
Kept == {r \in cache : Expires(r) >= now}

\* The part of handle() under the cache lock: answer from the cache, or run, answer and
\* remember; nothing is remembered when the answer cannot be encrypted.
Handle(r) ==
    \/ r \in Kept /\ cache' = Kept /\ UNCHANGED runs
    \/ /\ r \notin Kept
       /\ cache' = Kept \cup {r}
       /\ runs' = [runs EXCEPT ![r] = IF now <= Expires(r) THEN @ + 1 ELSE @]
    \/ r \notin Kept /\ cache' = Kept /\ UNCHANGED runs

\* handle_monitor_socket: authorized, hello exchanged, the control frame read and validated.
DirectCheck(r, e) ==
    /\ direct[r][e] = "arrived"
    /\ direct' = [direct EXCEPT ![r][e] = IF DesktopAccepts(r) THEN "checked" ELSE "done"]
    /\ UNCHANGED <<now, issued, relayVars, linkVars, held, paired, cache, runs>>

DirectHandle(r, e) ==
    /\ direct[r][e] = "checked"
    /\ Handle(r)
    /\ direct' = [direct EXCEPT ![r][e] = "done"]
    /\ UNCHANGED <<now, issued, relayVars, linkVars, held, paired>>

\* relay_session reads DeviceControl; its handler validates the request.
SessionCheck ==
    /\ connected /\ controls # <<>> /\ held = NoRequest
    /\ controls' = Tail(controls)
    /\ IF DesktopAccepts(Head(controls))
         THEN held' = Head(controls) /\ UNCHANGED replies
         ELSE replies' = Append(replies, Head(controls)) /\ UNCHANGED held
    /\ UNCHANGED <<now, issued, relayVars, session, connected, direct, paired, cache, runs>>

\* The handler runs to its end even when the session was lost meanwhile: the answer is then lost.
SessionHandle ==
    /\ held # NoRequest
    /\ Handle(held)
    /\ replies' = IF connected THEN Append(replies, held) ELSE replies
    /\ held' = NoRequest
    /\ UNCHANGED <<now, issued, relayVars, session, connected, controls, direct, paired>>

Unpair ==
    /\ paired /\ paired' = FALSE
    /\ UNCHANGED <<now, issued, relayVars, linkVars, direct, held, cache, runs>>

\* The desktop process ends: connection threads, the session and the cache with it.
Restart ==
    /\ direct' = [r \in Requests |-> [e \in Endpoints |->
                     IF direct[r][e] = "idle" THEN "idle" ELSE "done"]]
    /\ held' = NoRequest /\ cache' = {} /\ runs' = [r \in Requests |-> 0]
    /\ connected' = FALSE /\ controls' = <<>> /\ replies' = <<>>
    /\ UNCHANGED <<now, issued, relayVars, session, paired>>

Connect ==
    /\ ~connected /\ held = NoRequest /\ session < MaxSessions
    /\ session' = session + 1 /\ connected' = TRUE
    /\ UNCHANGED <<now, issued, relayVars, controls, replies, deskVars>>

Disconnect ==
    /\ connected /\ connected' = FALSE /\ controls' = <<>> /\ replies' = <<>>
    /\ UNCHANGED <<now, issued, relayVars, session, deskVars>>

\* The session's receiver lagged: the broadcast channel drops its oldest message.
Lag ==
    /\ controls # <<>> /\ controls' = Tail(controls)
    /\ UNCHANGED <<now, issued, relayVars, session, connected, replies, deskVars>>

-----------------------------------------------------------------------------
(* The relay: device_socket's Control message, one task per connection.    *)

RelayAccepts(r) ==
    /\ issued[r] <= now + FutureSkew
    /\ Expires(r) >= now
    /\ Lifetime <= MaxAge

\* No task has the write lock of control_connections across an await.
LockFree == \A q \in Requests : task[q] # "refusing"

SetTask(r, stage) == task' = [task EXCEPT ![r] = stage]

\* Expired or from the future; or within CONTROL_MIN_INTERVAL_MS of another request, an
\* interval far shorter than a period; or no desktop session (the sessions of this desktop
\* all announce the control capability).
RelayRefuse(r) ==
    /\ task[r] = "arrived"
    /\ ~RelayAccepts(r) \/ ~connected \/ \E q \in Requests \ {r} : task[q] # "idle"
    /\ SetTask(r, "done")
    /\ UNCHANGED <<now, issued, via, controlConnections, linkVars, deskVars>>

\* The route of the session that is up now is cloned.
RelayRoute(r) ==
    /\ task[r] = "arrived" /\ RelayAccepts(r) /\ connected
    /\ via' = [via EXCEPT ![r] = session]
    /\ SetTask(r, "routed")
    /\ UNCHANGED <<now, issued, controlConnections, linkVars, deskVars>>

\* The key is entered under the lock, or the request is refused: then the task keeps the lock
\* while it sends the refusal to its phone.
RelayPend(r) ==
    /\ task[r] = "routed" /\ LockFree
    /\ IF Cardinality(controlConnections) >= MaxPendingControls \/ r \in controlConnections
         THEN SetTask(r, "refusing") /\ UNCHANGED controlConnections
         ELSE SetTask(r, "pended") /\ controlConnections' = controlConnections \cup {r}
    /\ UNCHANGED <<now, issued, via, linkVars, deskVars>>

\* The refusal is sent, or its connection fails.
RelayRefused(r) ==
    /\ task[r] = "refusing"
    /\ SetTask(r, "done")
    /\ via' = [via EXCEPT ![r] = 0]
    /\ UNCHANGED <<now, issued, controlConnections, linkVars, deskVars>>

\* The clone may be of a session that has ended since: send() then finds no receiver.
RelaySend(r) ==
    /\ task[r] = "pended"
    /\ IF connected /\ via[r] = session
         THEN controls' = Append(controls, r) /\ SetTask(r, "waiting") /\ UNCHANGED controlConnections
         ELSE /\ LockFree
              /\ controlConnections' = controlConnections \ {r} /\ SetTask(r, "done") /\ UNCHANGED controls
    /\ via' = [via EXCEPT ![r] = 0]
    /\ UNCHANGED <<now, issued, session, connected, replies, deskVars>>

RelayTimeout(r) ==
    /\ task[r] = "waiting"
    /\ SetTask(r, "expired")
    /\ UNCHANGED <<now, issued, via, controlConnections, linkVars, deskVars>>

\* Bug: only an answered request gives its slot back.
RelayGiveUpKeepingSlot(r) ==
    /\ task[r] = "expired" /\ LockFree
    /\ SetTask(r, "done")
    /\ UNCHANGED <<now, issued, via, controlConnections, linkVars, deskVars>>
\* Bug: the slot is given back once the desktop is back online.
RelayGiveUpOnline(r) ==
    /\ task[r] = "expired" /\ LockFree /\ connected
    /\ controlConnections' = controlConnections \ {r}
    /\ SetTask(r, "done")
    /\ UNCHANGED <<now, issued, via, linkVars, deskVars>>
\* An answer may still come in between and is then dropped with the receiver.
RelayGiveUp(r) ==
    /\ task[r] = "expired" /\ LockFree
    /\ controlConnections' = controlConnections \ {r}
    /\ SetTask(r, "done")
    /\ UNCHANGED <<now, issued, via, linkVars, deskVars>>

\* The answer's key is looked up; nobody may be waiting any more.
CompleteControl(r) ==
    /\ controlConnections' = controlConnections \ {r}
    /\ task' = IF r \in controlConnections /\ task[r] = "waiting" THEN [task EXCEPT ![r] = "done"] ELSE task

Complete ==
    /\ replies # <<>> /\ LockFree
    /\ CompleteControl(Head(replies))
    /\ replies' = Tail(replies)
    /\ UNCHANGED <<now, issued, via, session, connected, controls, deskVars>>

-----------------------------------------------------------------------------
RelayStep(r) == RelayRefuse(r) \/ RelayRoute(r) \/ RelayPend(r) \/ RelayRefused(r)
                \/ RelaySend(r) \/ RelayTimeout(r) \/ RelayGiveUp(r)

PhoneStep(r) == Execute(r) \/ \E c \in Candidates : TryCandidate(r, c)

ControlNext ==
    \/ Tick \/ Unpair \/ Restart \/ Connect \/ Disconnect \/ Lag
    \/ SessionCheck \/ SessionHandle \/ Complete
    \/ \E r \in Requests :
          \/ PhoneStep(r) \/ RelayStep(r)
          \/ \E e \in Endpoints : DirectCheck(r, e) \/ DirectHandle(r, e)

\* A relay task that has inserted its key goes on: send() does not wait, and the wait for the
\* answer is bounded by CONTROL_TIMEOUT.  Nothing makes the send of a refusal end.
ControlFairness == \A r \in Requests : WF_controlVars(RelaySend(r) \/ RelayTimeout(r) \/ RelayGiveUp(r))

ControlSpec == ControlInit /\ [][ControlNext]_controlVars /\ ControlFairness

-----------------------------------------------------------------------------
\* However many copies of a frame reach handle() and in whatever order, one desktop process
\* answers at most one execution of it begun while the request is valid.
UnexpiredOnce == \A r \in Requests : runs[r] <= 1

\* control_connections holds no key without a device_socket task that will still remove it.
SlotsAreWaited ==
    \A r \in controlConnections : task[r] \in {"pended", "waiting", "expired"}

\* Every slot of control_connections is given back, whatever happens to the desktop's answer,
\* unless a phone whose request was refused never takes the refusal: its task then keeps the
\* lock, and with it the slots of all phones.
SlotReleased ==
    \/ \E q \in Requests : <>[](task[q] = "refusing")
    \/ \A r \in Requests : (r \in controlConnections) ~> (r \notin controlConnections)
=============================================================================
