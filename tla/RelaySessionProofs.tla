------------------------- MODULE RelaySessionProofs -------------------------
(***************************************************************************)
(* Proofs about three components that meet in the relay's desktop and      *)
(* device sessions and share no state in the model: the presence of a      *)
(* desktop, the control requests of a phone and the snapshot feed.  Every  *)
(* lemma and theorem is about one of them.                                 *)
(***************************************************************************)
EXTENDS DesktopPresence, DeviceControl, SnapshotFeed, TLAPS, SequenceTheorems

-----------------------------------------------------------------------------
(* Presence: the online map never outlives the sessions of a desktop.      *)

\* Every step keeps the types and the liveness of the entry.
LEMMA PresenceStep ==
    ASSUME PresenceTypeOK, OnlineIsLive, [PresenceNext]_presenceVars
    PROVE  PresenceTypeOK' /\ OnlineIsLive'
<1> USE DesktopPresenceAssumption
    DEF PresenceTypeOK, OnlineIsLive, SessionState, PhoneState, phoneVars, Goto, BroadcastPresence
<1>1. ASSUME NEW s \in Sessions, Hello(s) \/ EnterOnline(s) \/ EnterChannel(s)
      PROVE  PresenceTypeOK' /\ OnlineIsLive'
  BY <1>1 DEF Hello, EnterOnline, EnterChannel
<1>2. ASSUME NEW s \in Sessions, AnnounceOnline(s) \/ Ack(s)
      PROVE  PresenceTypeOK' /\ OnlineIsLive'
  <2>1. CASE AnnounceOnline(s)
    BY <2>1 DEF AnnounceOnline
  <2>2. CASE Ack(s)
    BY <2>2 DEF Ack
  <2>q. QED BY <1>2, <2>1, <2>2
<1>3. ASSUME NEW s \in Sessions, ConnectionLost(s) \/ SendStuck(s) \/ RouteClosed(s)
      PROVE  PresenceTypeOK' /\ OnlineIsLive'
  BY <1>3 DEF ConnectionLost, SendStuck, RouteClosed
<1>4. ASSUME NEW s \in Sessions, LeaveOnline(s)
      PROVE  PresenceTypeOK' /\ OnlineIsLive'
  BY <1>4 DEF LeaveOnline
<1>5. ASSUME NEW s \in Sessions, LeaveChannel(s) \/ AnnounceOffline(s)
      PROVE  PresenceTypeOK' /\ OnlineIsLive'
  BY <1>5 DEF LeaveChannel, AnnounceOffline
<1>6. ASSUME NEW p \in Phones, PhoneNext(p)
      PROVE  PresenceTypeOK' /\ OnlineIsLive'
  BY <1>6 DEF PhoneNext, PhoneLooks, PhoneSubscribes, PhoneLeaves
<1>7. ASSUME CallClones \/ \E s \in Sessions : CallReturns(s)
      PROVE  PresenceTypeOK' /\ OnlineIsLive'
  BY <1>7 DEF CallClones, CallReturns
<1>8. CASE UNCHANGED presenceVars
  BY <1>8 DEF presenceVars
<1>q. QED
  BY <1>1, <1>2, <1>3, <1>4, <1>5, <1>6, <1>7, <1>8 DEF PresenceNext, SessionNext

\* What health and the phone's HTTP route report is never a session that has
\* left: it is always one between its hello and the end of its loop.
THEOREM ReportedOnlineIsLive == PresenceSpec => [](PresenceTypeOK /\ OnlineIsLive)
<1>1. PresenceInit => PresenceTypeOK /\ OnlineIsLive
  BY DEF PresenceInit, PresenceTypeOK, OnlineIsLive, SessionState, PhoneState
<1>q. QED
  BY <1>1, PresenceStep, PTL DEF PresenceSpec

-----------------------------------------------------------------------------
(* Control: a request of the phone is run once and its slot given back.    *)

\* Nothing of a request exists before the phone has made it.
NothingBefore ==
    /\ \A r \in Requests : issued[r] = NotIssued =>
          /\ task[r] = "idle" /\ \A e \in Endpoints : direct[r][e] = "idle"
          /\ runs[r] = 0 /\ r \notin cache /\ held # r
    /\ \A i \in 1..Len(controls) : issued[controls[i]] # NotIssued

\* A request that was executed while valid is in the cache until it is valid no more.
RunsRemembered ==
    \A r \in Requests : runs[r] = 0 \/ (runs[r] = 1 /\ (r \in cache \/ Expires(r) < now))

\* The phone's clock shows an integer.
LEMMA IssuedAtIntegers ==
    ASSUME ControlTypeOK
    PROVE  /\ issued \in [Requests -> Int \cup {NotIssued}]
           /\ \A t \in 0..MaxTime : PhoneClock(t) \subseteq Int
<1>1. \A t \in 0..MaxTime : PhoneClock(t) \subseteq Int
  BY ControlAssumption DEF PhoneClock
<1>2. issued \in [Requests -> (UNION {PhoneClock(t) : t \in 0..MaxTime}) \cup {NotIssued}]
  BY DEF ControlTypeOK
<1>3. (UNION {PhoneClock(t) : t \in 0..MaxTime}) \subseteq Int
  BY <1>1
<1>q. QED
  BY <1>1, <1>2, <1>3

\* What a queue of requests holds after each operation on it.
LEMMA Queues ==
    /\ <<>> \in Seq(Requests)
    /\ \A q \in Seq(Requests) : \A r \in Requests : Append(q, r) \in Seq(Requests)
    /\ \A q \in Seq(Requests) : q # <<>> => Head(q) \in Requests /\ Tail(q) \in Seq(Requests)
  BY EmptySeq

\* Where the entries of a queue come from after each operation on it.
LEMMA QueueEntries ==
    /\ \A q \in Seq(Requests) : \A r \in Requests : \A i \in 1..Len(Append(q, r)) :
          Append(q, r)[i] = r \/ (i \in 1..Len(q) /\ Append(q, r)[i] = q[i])
    /\ \A q \in Seq(Requests) : q # <<>> =>
          /\ 1 \in 1..Len(q) /\ Head(q) = q[1]
          /\ \A i \in 1..Len(Tail(q)) : i + 1 \in 1..Len(q) /\ Tail(q)[i] = q[i + 1]
  OBVIOUS

\* handle() changes the cache and the counts, whichever way it answers.
LEMMA HandleTypes ==
    ASSUME cache \in SUBSET Requests, runs \in [Requests -> Nat], NEW r \in Requests, Handle(r)
    PROVE  cache' \in SUBSET Requests /\ runs' \in [Requests -> Nat]
<1>1. CASE runs' = runs
  BY <1>1 DEF Handle, Kept
<1>2. CASE runs' = [runs EXCEPT ![r] = IF now <= Expires(r) THEN @ + 1 ELSE @]
  BY <1>2 DEF Handle, Kept
<1>q. QED
  BY <1>1, <1>2 DEF Handle

\* Every step of the control path keeps the types.
LEMMA ControlTypeStep ==
    ASSUME ControlTypeOK, [ControlNext]_controlVars
    PROVE  ControlTypeOK'
<1> USE ControlAssumption, Queues DEF ControlTypeOK, Stages, TaskStages, Candidates,
        relayVars, linkVars, deskVars, SetTask
<1>1. ASSUME NEW r \in Requests, RelayStep(r) PROVE ControlTypeOK'
  <2>1. CASE RelayRefuse(r) BY <2>1 DEF RelayRefuse
  <2>2. CASE RelayRoute(r) BY <2>2 DEF RelayRoute
  <2>3. CASE RelayPend(r)
    <3>1. task' \in [Requests -> TaskStages] /\ controlConnections' \in SUBSET Requests
      BY <2>3 DEF RelayPend
    <3>2. UNCHANGED <<now, issued, via, linkVars, deskVars>>
      BY <2>3, Zenon DEF RelayPend
    <3>q. QED BY <3>1, <3>2
  <2>4. CASE RelaySend(r)
    <3>1. task' \in [Requests -> TaskStages] /\ controlConnections' \in SUBSET Requests
      BY <2>4 DEF RelaySend
    <3>2. via' \in [Requests -> 0..MaxSessions]
      BY <2>4 DEF RelaySend
    <3>3. controls' = Append(controls, r) \/ controls' = controls
      BY <2>4, Zenon DEF RelaySend
    <3>4. UNCHANGED <<now, issued, session, connected, replies, deskVars>>
      BY <2>4, Zenon DEF RelaySend
    <3>5. controls' \in Seq(Requests)
      <4>1. CASE controls' = Append(controls, r) BY <4>1
      <4>2. CASE controls' = controls BY <4>2
      <4>q. QED BY <3>3, <4>1, <4>2
    <3>q. QED
      BY <3>1, <3>2, <3>4, <3>5
  <2>5. CASE RelayTimeout(r) BY <2>5 DEF RelayTimeout
  <2>6. CASE RelayGiveUp(r) BY <2>6 DEF RelayGiveUp
  <2>7. CASE RelayRefused(r) BY <2>7 DEF RelayRefused
  <2>q. QED BY <1>1, <2>1, <2>2, <2>3, <2>4, <2>5, <2>6, <2>7 DEF RelayStep
<1>2. ASSUME NEW r \in Requests, Execute(r) PROVE ControlTypeOK'
  <2>1. PICK at \in PhoneClock(now) : issued' = [issued EXCEPT ![r] = at]
    BY <1>2 DEF Execute
  <2>2. issued' \in [Requests -> (UNION {PhoneClock(t) : t \in 0..MaxTime}) \cup {NotIssued}]
    <3>1. at \in UNION {PhoneClock(t) : t \in 0..MaxTime}
      BY <2>1, Zenon
    <3>q. QED BY <2>1, <3>1, Zenon
  <2>3. UNCHANGED <<now, relayVars, linkVars, deskVars>>
    BY <1>2, Zenon DEF Execute
  <2>q. QED BY <2>2, <2>3
<1>3. ASSUME NEW r \in Requests, NEW c \in Candidates, TryCandidate(r, c) PROVE ControlTypeOK'
  <2>1. task' \in [Requests -> TaskStages]
    BY <1>3 DEF TryCandidate
  <2>2. (direct' = [direct EXCEPT ![r][c] = "arrived"] /\ c \in Endpoints) \/ direct' = direct
    BY <1>3, Zenon DEF TryCandidate
  <2>3. UNCHANGED <<now, issued, via, controlConnections, linkVars, held, paired, cache, runs>>
    BY <1>3, Zenon DEF TryCandidate
  <2>4. direct' \in [Requests -> [Endpoints -> Stages]]
    <3>1. CASE direct' = [direct EXCEPT ![r][c] = "arrived"] /\ c \in Endpoints BY <3>1
    <3>2. CASE direct' = direct BY <3>2
    <3>q. QED BY <2>2, <3>1, <3>2
  <2>q. QED
    BY <2>1, <2>3, <2>4
<1>4. ASSUME NEW r \in Requests, NEW e \in Endpoints, DirectCheck(r, e) PROVE ControlTypeOK'
  BY <1>4 DEF DirectCheck
<1>5. ASSUME NEW r \in Requests, NEW e \in Endpoints, DirectHandle(r, e) PROVE ControlTypeOK'
  <2>1. cache' \in SUBSET Requests /\ runs' \in [Requests -> Nat]
    BY <1>5, HandleTypes DEF DirectHandle
  <2>q. QED BY <1>5, <2>1 DEF DirectHandle
<1>6. CASE SessionCheck
  <2>1. controls' \in Seq(Requests) /\ Head(controls) \in Requests
    BY <1>6 DEF SessionCheck
  <2>2. \/ held' = Head(controls) /\ replies' = replies
        \/ held' = held /\ replies' = Append(replies, Head(controls))
    BY <1>6, Zenon DEF SessionCheck
  <2>3. UNCHANGED <<now, issued, relayVars, session, connected, direct, paired, cache, runs>>
    BY <1>6, Zenon DEF SessionCheck
  <2>4. held' \in Requests \cup {NoRequest} /\ replies' \in Seq(Requests)
    <3>1. CASE held' = Head(controls) /\ replies' = replies BY <2>1, <3>1
    <3>2. CASE held' = held /\ replies' = Append(replies, Head(controls)) BY <2>1, <3>2
    <3>q. QED BY <2>2, <3>1, <3>2
  <2>q. QED
    BY <2>1, <2>3, <2>4
<1>7. CASE SessionHandle
  <2>1. held \in Requests
    BY <1>7 DEF SessionHandle
  <2>2. cache' \in SUBSET Requests /\ runs' \in [Requests -> Nat]
    BY <1>7, <2>1, HandleTypes DEF SessionHandle
  <2>3. replies' \in Seq(Requests)
    BY <1>7, <2>1 DEF SessionHandle
  <2>q. QED
    BY <1>7, <2>2, <2>3 DEF SessionHandle
<1>8. CASE Complete
  BY <1>8 DEF Complete, CompleteControl
<1>9. CASE Tick
  BY <1>9 DEF Tick
<1>14. CASE Unpair
  BY <1>14 DEF Unpair
<1>15. CASE Connect
  BY <1>15 DEF Connect
<1>12. CASE Disconnect
  BY <1>12 DEF Disconnect
<1>13. CASE Lag
  BY <1>13 DEF Lag
<1>10. CASE Restart
  BY <1>10 DEF Restart
<1>11. CASE UNCHANGED controlVars
  BY <1>11 DEF controlVars
<1>q. QED
  BY <1>1, <1>2, <1>3, <1>4, <1>5, <1>6, <1>7, <1>8, <1>9, <1>10, <1>11, <1>12, <1>13, <1>14, <1>15
  DEF ControlNext, PhoneStep

\* Every step keeps the three parts of the inductive invariant: one step per action, and for
\* the two that run handle() what the cache does to the counts.
LEMMA ControlStep ==
    ASSUME ControlTypeOK, NothingBefore, RunsRemembered, SlotsAreWaited,
           [ControlNext]_controlVars
    PROVE  NothingBefore' /\ RunsRemembered' /\ SlotsAreWaited'
<1> DEFINE Goal == NothingBefore /\ RunsRemembered /\ SlotsAreWaited
<1> now \in Int /\ MaxTime \in Nat /\ Lifetime \in Nat
  BY ControlAssumption DEF ControlTypeOK
<1> issued \in [Requests -> Int \cup {NotIssued}] /\ NotIssued \notin Int
  BY IssuedAtIntegers, ControlAssumption
<1> /\ direct \in [Requests -> [Endpoints -> Stages]] /\ task \in [Requests -> TaskStages]
    /\ controlConnections \in SUBSET Requests /\ cache \in SUBSET Requests /\ controls \in Seq(Requests)
    /\ replies \in Seq(Requests) /\ held \in Requests \cup {NoRequest} /\ runs \in [Requests -> Nat]
  BY DEF ControlTypeOK
<1> NoRequest \notin Requests
  BY ControlAssumption
<1> USE DEF NothingBefore, RunsRemembered, SlotsAreWaited, Expires, 
        relayVars, linkVars, deskVars, SetTask, Candidates
<1>1. ASSUME NEW r \in Requests, RelayStep(r) PROVE Goal'
  <2>1. CASE RelayRefuse(r) BY <2>1 DEF RelayRefuse
  <2>2. CASE RelayRoute(r) BY <2>2 DEF RelayRoute
  <2>3. CASE RelayPend(r)
    <3>1. \/ task' = [task EXCEPT ![r] = "refusing"] /\ controlConnections' = controlConnections
          \/ task' = [task EXCEPT ![r] = "pended"] /\ controlConnections' = controlConnections \cup {r}
      BY <2>3, Zenon DEF RelayPend
    <3>2. task[r] = "routed" /\ UNCHANGED <<now, issued, linkVars, deskVars>>
      BY <2>3, Zenon DEF RelayPend
    <3>3. CASE task' = [task EXCEPT ![r] = "refusing"] /\ controlConnections' = controlConnections
      BY <3>2, <3>3
    <3>4. CASE task' = [task EXCEPT ![r] = "pended"] /\ controlConnections' = controlConnections \cup {r}
      BY <3>2, <3>4
    <3>q. QED BY <3>1, <3>3, <3>4
  <2>4. CASE RelaySend(r)
    <3>1. \/ /\ controls' = Append(controls, r) /\ task' = [task EXCEPT ![r] = "waiting"]
             /\ controlConnections' = controlConnections
          \/ /\ controls' = controls /\ task' = [task EXCEPT ![r] = "done"]
             /\ controlConnections' = controlConnections \ {r}
      BY <2>4, Zenon DEF RelaySend
    <3>2. task[r] = "pended" /\ UNCHANGED <<now, issued, session, connected, replies, deskVars>>
      BY <2>4, Zenon DEF RelaySend
    <3>3. CASE /\ controls' = Append(controls, r) /\ task' = [task EXCEPT ![r] = "waiting"]
               /\ controlConnections' = controlConnections
      <4>1. issued[r] # NotIssued
        BY <3>2
      <4>2. \A i \in 1..Len(controls') : issued[controls'[i]] # NotIssued
        BY <3>3, <4>1, QueueEntries
      <4>q. QED BY <3>2, <3>3, <4>1, <4>2
    <3>4. CASE /\ controls' = controls /\ task' = [task EXCEPT ![r] = "done"]
               /\ controlConnections' = controlConnections \ {r}
      BY <3>2, <3>4
    <3>q. QED BY <3>1, <3>3, <3>4
  <2>5. CASE RelayTimeout(r) BY <2>5 DEF RelayTimeout
  <2>6. CASE RelayGiveUp(r) BY <2>6 DEF RelayGiveUp
  <2>7. CASE RelayRefused(r) BY <2>7 DEF RelayRefused
  <2>q. QED BY <1>1, <2>1, <2>2, <2>3, <2>4, <2>5, <2>6, <2>7 DEF RelayStep
<1>2. ASSUME NEW r \in Requests, Execute(r) PROVE Goal'
  BY <1>2 DEF Execute
<1>3. ASSUME NEW r \in Requests, NEW c \in Candidates, TryCandidate(r, c) PROVE Goal'
  <2>1. \/ task' = [task EXCEPT ![r] = "arrived"] /\ direct' = direct /\ task[r] = "idle"
        \/ task' = task /\ direct' = [direct EXCEPT ![r][c] = "arrived"] /\ c \in Endpoints
    BY <1>3, Zenon DEF TryCandidate
  <2>2. /\ issued[r] # NotIssued
        /\ UNCHANGED <<now, issued, via, controlConnections, linkVars, held, paired, cache, runs>>
    BY <1>3, Zenon DEF TryCandidate
  <2>3. CASE task' = [task EXCEPT ![r] = "arrived"] /\ direct' = direct /\ task[r] = "idle"
    BY <2>2, <2>3
  <2>4. CASE task' = task /\ direct' = [direct EXCEPT ![r][c] = "arrived"] /\ c \in Endpoints
    BY <2>2, <2>4
  <2>q. QED BY <2>1, <2>3, <2>4
<1>4. ASSUME NEW r \in Requests, NEW e \in Endpoints, DirectCheck(r, e) PROVE Goal'
  BY <1>4 DEF DirectCheck
<1>5. ASSUME NEW r \in Requests, issued[r] # NotIssued, Handle(r), now' = now, issued' = issued
      PROVE  RunsRemembered' /\ \A q \in Requests : issued[q] = NotIssued => runs'[q] = 0 /\ q \notin cache'
  <2>1. CASE r \in Kept /\ cache' = Kept /\ UNCHANGED runs
    <3>1. cache' = Kept /\ runs' = runs BY <2>1
    <3>q. QED BY <1>5, <3>1 DEF Kept
  <2>2. CASE /\ r \notin Kept /\ cache' = Kept \cup {r}
             /\ runs' = [runs EXCEPT ![r] = IF now <= Expires(r) THEN @ + 1 ELSE @]
    BY <1>5, <2>2 DEF Kept
  <2>3. CASE r \notin Kept /\ cache' = Kept /\ UNCHANGED runs
    BY <1>5, <2>3 DEF Kept
  <2>q. QED BY <1>5, <2>1, <2>2, <2>3 DEF Handle
<1>6. ASSUME NEW r \in Requests, NEW e \in Endpoints, DirectHandle(r, e) PROVE Goal'
  <2>1. issued[r] # NotIssued
    BY <1>6 DEF DirectHandle
  <2>2. RunsRemembered' /\ \A q \in Requests : issued[q] = NotIssued => runs'[q] = 0 /\ q \notin cache'
    BY <1>5, <1>6, <2>1 DEF DirectHandle
  <2>q. QED BY <1>6, <2>1, <2>2 DEF DirectHandle
<1>7. CASE SessionHandle
  <2>1. held \in Requests /\ issued[held] # NotIssued
    BY <1>7 DEF SessionHandle
  <2>2. RunsRemembered' /\ \A q \in Requests : issued[q] = NotIssued => runs'[q] = 0 /\ q \notin cache'
    BY <1>5, <1>7, <2>1 DEF SessionHandle
  <2>3. held' = NoRequest /\ UNCHANGED <<now, issued, relayVars, controls, direct>>
    BY <1>7, Zenon DEF SessionHandle
  <2>4. NothingBefore'
    BY <2>2, <2>3
  <2>5. SlotsAreWaited'
    BY <2>3
  <2>q. QED BY <2>2, <2>4, <2>5, Zenon
<1>8. CASE SessionCheck
  <2>1. Head(controls) = controls[1] /\ 1 \in 1..Len(controls) /\ controls' = Tail(controls)
    BY <1>8 DEF SessionCheck
  <2>2. held' = Head(controls) \/ held' = held
    BY <1>8, Zenon DEF SessionCheck
  <2>3. UNCHANGED <<now, issued, relayVars, session, connected, direct, paired, cache, runs>>
    BY <1>8, Zenon DEF SessionCheck
  <2>4. controls # <<>>
    BY <1>8, Zenon DEF SessionCheck
  <2>5. \A i \in 1..Len(controls') : issued[controls'[i]] # NotIssued
    <3>1. \A i \in 1..Len(Tail(controls)) : i + 1 \in 1..Len(controls) /\ Tail(controls)[i] = controls[i + 1]
      BY <2>4, QueueEntries, Zenon
    <3>2. \A i \in 1..Len(Tail(controls)) : issued[Tail(controls)[i]] # NotIssued
      BY <3>1
    <3>q. QED BY <2>1, <3>2, Zenon
  <2>6. \A r \in Requests : held' = r => held = r \/ issued[r] # NotIssued
    BY <2>1, <2>2
  <2>q. QED BY <2>3, <2>5, <2>6
<1>9. CASE Complete
  BY <1>9 DEF Complete, CompleteControl
<1>10. CASE Tick
  BY <1>10 DEF Tick
<1>11. CASE Unpair \/ Connect
  BY <1>11 DEF Unpair, Connect
<1>12. CASE Disconnect
  BY <1>12 DEF Disconnect
<1>13. CASE Lag
  BY <1>13 DEF Lag
<1>14. CASE Restart
  BY <1>14 DEF Restart
<1>15. CASE UNCHANGED controlVars
  BY <1>15 DEF controlVars
<1>q. QED
  BY <1>1, <1>2, <1>3, <1>4, <1>6, <1>7, <1>8, <1>9, <1>10, <1>11, <1>12, <1>13, <1>14, <1>15
  DEF ControlNext, PhoneStep

\* The types and the inductive invariant, from the first state on.
LEMMA ControlInvariant ==
    ControlSpec => [](ControlTypeOK /\ NothingBefore /\ RunsRemembered /\ SlotsAreWaited)
<1>1. ControlInit => ControlTypeOK /\ NothingBefore /\ RunsRemembered /\ SlotsAreWaited
  <2> SUFFICES ASSUME ControlInit
               PROVE  ControlTypeOK /\ NothingBefore /\ RunsRemembered /\ SlotsAreWaited
    OBVIOUS
  <2>0. controls \in Seq(Requests) /\ replies \in Seq(Requests)
    BY EmptySeq, Zenon DEF ControlInit
  <2>4. issued \in [Requests -> (UNION {PhoneClock(t) : t \in 0..MaxTime}) \cup {NotIssued}]
    BY DEF ControlInit
  <2>5. direct \in [Requests -> [Endpoints -> Stages]] /\ task \in [Requests -> TaskStages]
    BY DEF ControlInit, Stages, TaskStages
  <2>6. /\ now \in 0..MaxTime /\ via \in [Requests -> 0..MaxSessions] /\ session \in 0..MaxSessions
        /\ runs \in [Requests -> Nat]
    BY ControlAssumption DEF ControlInit
  <2>1. ControlTypeOK
    BY <2>0, <2>4, <2>5, <2>6 DEF ControlInit, ControlTypeOK
  <2>2. NothingBefore /\ RunsRemembered /\ SlotsAreWaited
    BY ControlAssumption DEF ControlInit, NothingBefore, RunsRemembered, SlotsAreWaited
  <2>q. QED BY <2>1, <2>2
<1>2. ControlTypeOK /\ NothingBefore /\ RunsRemembered /\ SlotsAreWaited /\ [ControlNext]_controlVars
        => (ControlTypeOK /\ NothingBefore /\ RunsRemembered /\ SlotsAreWaited)'
  BY ControlTypeStep, ControlStep
<1>q. QED
  BY <1>1, <1>2, PTL DEF ControlSpec

\* However many copies of a control frame reach the desktop, over however many endpoints and
\* sessions, and whatever the phone's clock says, handle() runs it at most once while valid.
THEOREM ControlRunsOnce ==
    ControlSpec => [](ControlTypeOK /\ UnexpiredOnce)
<1>1. RunsRemembered => UnexpiredOnce
  BY DEF RunsRemembered, UnexpiredOnce
<1>q. QED
  BY <1>1, ControlInvariant, PTL

\* Every key of control_connections belongs to a device_socket task that will still remove it,
\* for any number of requests and any limit.
THEOREM ControlSlotsAreWaited ==
    ControlSpec => []SlotsAreWaited
  BY ControlInvariant, PTL

-----------------------------------------------------------------------------
(* Feed: no socket misses a snapshot, and every slot has an owner.         *)

\* An upload that was accepted names the uploader's session; its number and the one of the
\* cached snapshot count the writes.
PostsFilled ==
    /\ \A p \in Posts : post[p].at = "checked" => post[p].session \in 1..MaxUploaders
    /\ \A p \in Posts : post[p].at = "cached" => post[p].number \in 1..writes
    /\ latest # NoSnapshot => latest.number = writes

\* Until a revocation drops the entry of device_channels, a websocket that has subscribed is
\* still reached by a broadcast.
StillSubscribed ==
    EntryKept => \A s \in Sockets : sock[s] \in {"subscribed", "top", "select"} => s \in listening

\* The last snapshot has been forwarded, is queued, or the receiver knows that it lost some.
Reaches(s) ==
    \/ sent[s] = writes
    \/ s \in lagged
    \/ \E i \in 1..Len(queue[s]) : queue[s][i] = writes

\* Every websocket in its loop on the present entry is reached by a snapshot that was cached and
\* sent to the channel.
NothingLost ==
    latest # NoSnapshot /\ announced =>
        \A s \in listening : sock[s] \in {"top", "select"} => Reaches(s)

FeedInv == FeedTypeOK /\ PostsFilled /\ StillSubscribed /\ NothingLost

\* What a websocket has queued or forwarded stays well typed when a snapshot is numbered.
LEMMA MessagesGrow ==
    ASSUME NEW w \in Nat, NEW q \in Seq(1..w \cup {Revoked})
    PROVE  q \in Seq(1..(w + 1) \cup {Revoked})
<1>1. \A x \in 1..w \cup {Revoked} : x \in 1..(w + 1) \cup {Revoked}
  OBVIOUS
<1>q. QED
  BY <1>1

\* What a message does to every receiver: the listening ones have it at the end of their
\* queue, and the ones that lost their oldest message for it are marked.
LEMMA BroadcastReaches ==
    ASSUME NEW M, queue \in [Sockets -> Seq(M)], lagged \in SUBSET Sockets,
           listening \in SUBSET Sockets, NEW m \in M, Broadcast(m)
    PROVE  /\ queue' \in [Sockets -> Seq(M)] /\ lagged' \in SUBSET Sockets /\ lagged \subseteq lagged'
           /\ \A s \in Sockets : s \notin listening => queue'[s] = queue[s]
           /\ \A s \in listening :
                 \/ s \in lagged'
                 \/ /\ Len(queue'[s]) = Len(queue[s]) + 1 /\ queue'[s][Len(queue[s]) + 1] = m
                    /\ \A i \in 1..Len(queue[s]) : queue'[s][i] = queue[s][i]
<1> DEFINE full(s) == Len(queue[s]) = Capacity
           new(s) == IF s \notin listening THEN queue[s]
                     ELSE Append(IF full(s) THEN Tail(queue[s]) ELSE queue[s], m)
<1>1. queue' = [s \in Sockets |-> new(s)] /\ lagged' = lagged \cup {s \in listening : full(s)}
  BY Zenon DEF Broadcast
<1>2. ASSUME NEW s \in Sockets
      PROVE  /\ new(s) \in Seq(M)
             /\ s \in listening /\ ~full(s) =>
                   /\ Len(new(s)) = Len(queue[s]) + 1 /\ new(s)[Len(queue[s]) + 1] = m
                   /\ \A i \in 1..Len(queue[s]) : new(s)[i] = queue[s][i]
  <2>1. queue[s] \in Seq(M) /\ Capacity \in Nat \ {0}
    BY SnapshotFeedAssumption
  <2>2. CASE s \notin listening
    BY <2>1, <2>2
  <2>3. CASE s \in listening /\ full(s)
    <3>1. queue[s] # <<>> /\ Tail(queue[s]) \in Seq(M)
      BY <2>1, <2>3
    <3>2. new(s) = Append(Tail(queue[s]), m)
      BY <2>3, Zenon
    <3>q. QED BY <2>3, <3>1, <3>2
  <2>4. CASE s \in listening /\ ~full(s)
    <3>1. new(s) = Append(queue[s], m)
      BY <2>4, Zenon
    <3>q. QED BY <2>1, <2>4, <3>1
  <2>q. QED BY <2>2, <2>3, <2>4
<1>3. \A s \in Sockets : queue'[s] = new(s)
  BY <1>1, Zenon
<1> HIDE DEF new
<1>q. QED
  <2>1. queue' \in [Sockets -> Seq(M)]
    BY <1>1, <1>2
  <2>2. \A s \in Sockets : s \notin listening => queue'[s] = queue[s]
    BY <1>3 DEF new
  <2>q. QED BY <1>1, <1>2, <1>3, <2>1, <2>2

\* What the uploads leave alone.
LEMMA RecordUntouched ==
    ASSUME StillSubscribed, UNCHANGED <<sock, listening, askVars, del>>
    PROVE  StillSubscribed'
  BY DEF StillSubscribed, EntryKept, askVars

\* Every step of an upload keeps the invariant.
LEMMA UploadKeeps ==
    ASSUME FeedInv, NEW p \in Posts, PostStep(p)
    PROVE  FeedInv'
<1> DEFINE Post == [at : {"idle", "checked", "cached", "done"},
                    session : 0..MaxUploaders, seq : Nat, number : Nat]
<1>t. /\ writes \in Nat /\ MaxUploaders \in Nat \ {0} /\ post \in [Posts -> Post]
      /\ uploader \in [session : 1..MaxUploaders, seq : Nat]
      /\ latest \in Snapshot \cup {NoSnapshot} /\ announced \in BOOLEAN
      /\ queue \in [Sockets -> Seq(1..writes \cup {Revoked})] /\ lagged \in SUBSET Sockets
      /\ listening \in SUBSET Sockets /\ sent \in [Sockets -> 0..writes]
  BY SnapshotFeedAssumption DEF FeedInv, FeedTypeOK
<1>f. ASSUME UNCHANGED <<device, sockVars, listening, askVars, del>>
      PROVE  /\ writes' = writes => (NothingLost' \/ (announced' /\ ~announced) \/ latest' # latest)
             /\ StillSubscribed'
  BY <1>f, RecordUntouched DEF FeedInv, NothingLost, Reaches, sockVars
<1>1. ASSUME Finish(p)
      PROVE  post' \in [Posts -> Post] /\ (UNCHANGED <<writes, latest>> => PostsFilled')
  BY <1>t, <1>1 DEF Finish, FeedInv, PostsFilled
<1>2. CASE Upload(p)
  <2>1. UNCHANGED <<device, latest, writes, announced, sockVars, listening, askVars, del>>
    BY <1>2, Zenon DEF Upload
  <2>2. uploader' = [uploader EXCEPT !.seq = @ + 1]
    BY <1>2, Zenon DEF Upload
  <2>3. \/ post' = [post EXCEPT ![p] = [at |-> "checked", session |-> uploader.session,
                                        seq |-> uploader.seq + 1, number |-> 0]]
        \/ Finish(p)
    BY <1>2, Zenon DEF Upload
  <2>4. ASSUME post' = [post EXCEPT ![p] = [at |-> "checked", session |-> uploader.session,
                                            seq |-> uploader.seq + 1, number |-> 0]]
        PROVE  post' \in [Posts -> Post] /\ PostsFilled'
    <3>1. [at |-> "checked", session |-> uploader.session, seq |-> uploader.seq + 1, number |-> 0] \in Post
      BY <1>t
    <3>2. post' \in [Posts -> Post]
      BY <1>t, <2>4, <3>1
    <3>q. QED BY <1>t, <2>1, <2>4, <3>2 DEF FeedInv, PostsFilled
  <2>5. post' \in [Posts -> Post] /\ PostsFilled'
    BY <1>1, <2>1, <2>3, <2>4
  <2>6. uploader' \in [session : 1..MaxUploaders, seq : Nat]
    <3>1. uploader \in [session : 1..MaxUploaders, seq : Nat]
      BY <1>t
    <3>q. QED BY <2>2, <3>1
  <2>7. StillSubscribed' /\ NothingLost'
    BY <1>f, <2>1
  <2>8. FeedTypeOK'
    BY <2>1, <2>5, <2>6 DEF FeedInv, FeedTypeOK, sockVars, askVars, waitVars
  <2>q. QED BY <2>5, <2>7, <2>8 DEF FeedInv
<1>3. CASE CacheSnapshot(p)
  <2>1. UNCHANGED <<device, uploader, sockVars, listening, askVars, del>> /\ post[p].at = "checked"
    BY <1>3, Zenon DEF CacheSnapshot
  <2>2. \/ /\ writes' = writes + 1 /\ announced' = FALSE
           /\ latest' = [session |-> post[p].session, seq |-> post[p].seq, number |-> writes + 1]
           /\ post' = [post EXCEPT ![p].at = "cached", ![p].number = writes + 1]
        \/ Finish(p) /\ UNCHANGED <<writes, latest, announced>>
    BY <1>3, Zenon DEF CacheSnapshot
  <2>3. CASE /\ writes' = writes + 1 /\ announced' = FALSE
             /\ latest' = [session |-> post[p].session, seq |-> post[p].seq, number |-> writes + 1]
             /\ post' = [post EXCEPT ![p].at = "cached", ![p].number = writes + 1]
    <3>1. post' \in [Posts -> Post]
      <4>1. post[p] \in Post /\ writes + 1 \in Nat
        BY <1>t
      <4>2. [post[p] EXCEPT !.at = "cached", !.number = writes + 1] \in Post
        BY <4>1
      <4>3. post' = [post EXCEPT ![p] = [post[p] EXCEPT !.at = "cached", !.number = writes + 1]]
        BY <1>t, <2>3
      <4>q. QED BY <1>t, <4>2, <4>3
    <3>2. PostsFilled'
      <4>1. post'[p].at = "cached" /\ post'[p].number = writes + 1
        BY <1>t, <2>3
      <4>2. \A o \in Posts \ {p} : post'[o] = post[o]
        BY <1>t, <2>3
      <4>3. writes \in Nat /\ latest'.number = writes' /\ writes' = writes + 1
        BY <1>t, <2>3
      <4>4. \A o \in Posts : post'[o].at = "checked" => post'[o].session \in 1..MaxUploaders
        BY <4>1, <4>2 DEF FeedInv, PostsFilled
      <4>5. \A o \in Posts : post'[o].at = "cached" => post'[o].number \in 1..(writes + 1)
        BY <4>1, <4>2, <4>3 DEF FeedInv, PostsFilled
      <4>q. QED BY <4>3, <4>4, <4>5 DEF PostsFilled
    <3>3. latest' \in Snapshot
      BY <1>t, <2>1, <2>3 DEF FeedInv, PostsFilled, Snapshot
    <3>4. queue \in [Sockets -> Seq(1..(writes + 1) \cup {Revoked})] /\ sent \in [Sockets -> 0..(writes + 1)]
      BY <1>t, MessagesGrow
    <3>5. FeedTypeOK'
      BY <1>t, <2>1, <2>3, <3>1, <3>3, <3>4 DEF FeedInv, FeedTypeOK, sockVars, askVars, waitVars
    <3>q. QED BY <1>f, <2>1, <2>3, <3>2, <3>5 DEF FeedInv, NothingLost
  <2>4. CASE Finish(p) /\ UNCHANGED <<writes, latest, announced>>
    <3>1. FeedTypeOK'
      BY <1>1, <2>1, <2>4 DEF FeedInv, FeedTypeOK, sockVars, askVars, waitVars
    <3>q. QED BY <1>1, <1>f, <2>1, <2>4, <3>1 DEF FeedInv
  <2>q. QED BY <2>2, <2>3, <2>4
<1>4. CASE RouteSnapshot(p)
  <2>1. /\ UNCHANGED <<device, latest, writes, uploader, sock, sent, listening, askVars, del>>
        /\ post[p].at = "cached" /\ Broadcast(post[p].number) /\ Finish(p)
        /\ announced' = (announced \/ (latest # NoSnapshot /\ latest.number = post[p].number))
    BY <1>4, Zenon DEF RouteSnapshot
  <2>2. post[p].number \in 1..writes
    BY <2>1 DEF FeedInv, PostsFilled
  <2>3. /\ queue' \in [Sockets -> Seq(1..writes \cup {Revoked})] /\ lagged' \in SUBSET Sockets
        /\ lagged \subseteq lagged'
        /\ \A s \in Sockets : s \notin listening => queue'[s] = queue[s]
        /\ \A s \in listening :
              \/ s \in lagged'
              \/ /\ Len(queue'[s]) = Len(queue[s]) + 1 /\ queue'[s][Len(queue[s]) + 1] = post[p].number
                 /\ \A i \in 1..Len(queue[s]) : queue'[s][i] = queue[s][i]
    <3>1. PICK M : M = 1..writes \cup {Revoked}
      OBVIOUS
    <3>2. PICK m : m = post[p].number
      OBVIOUS
    <3>3. m \in M
      BY <2>2, <3>1, <3>2
    <3>4. Broadcast(m)
      BY <2>1, <3>2, Zenon DEF Broadcast
    <3>5. queue \in [Sockets -> Seq(M)] /\ lagged \in SUBSET Sockets /\ listening \in SUBSET Sockets
      BY <1>t, <3>1
    <3>6. /\ queue' \in [Sockets -> Seq(M)] /\ lagged' \in SUBSET Sockets
          /\ lagged \subseteq lagged'
          /\ \A s \in Sockets : s \notin listening => queue'[s] = queue[s]
          /\ \A s \in listening :
                \/ s \in lagged'
                \/ /\ Len(queue'[s]) = Len(queue[s]) + 1 /\ queue'[s][Len(queue[s]) + 1] = m
                   /\ \A i \in 1..Len(queue[s]) : queue'[s][i] = queue[s][i]
      BY <3>3, <3>4, <3>5, BroadcastReaches, Zenon
    <3>q. QED BY <3>1, <3>2, <3>6, Zenon
  <2>4. announced' \in BOOLEAN
    BY <1>t, <2>1
  <2>5. FeedTypeOK'
    BY <1>1, <2>1, <2>3, <2>4 DEF FeedInv, FeedTypeOK, askVars, waitVars
  <2>6. NothingLost'
    <3> SUFFICES ASSUME latest # NoSnapshot, announced',
                        NEW s \in listening, sock[s] \in {"top", "select"}
                 PROVE  Reaches(s)'
      BY <2>1 DEF NothingLost
    <3>1. s \in listening /\ queue[s] \in Seq(1..writes \cup {Revoked})
      BY <1>t
    <3>2. CASE announced
      <4>1. Reaches(s)
        BY <3>2 DEF FeedInv, NothingLost
      <4>2. \A i \in 1..Len(queue[s]) : s \in lagged'
                 \/ (i \in 1..Len(queue'[s]) /\ queue'[s][i] = queue[s][i])
        BY <2>3, <3>1
      <4>q. QED BY <2>1, <2>3, <4>1, <4>2 DEF Reaches
    <3>3. CASE ~announced
      <4>1. post[p].number = writes
        BY <2>1, <3>3 DEF FeedInv, PostsFilled
      <4>2. s \in lagged'
                 \/ (Len(queue[s]) + 1 \in 1..Len(queue'[s]) /\ queue'[s][Len(queue[s]) + 1] = writes)
        BY <2>3, <3>1, <4>1
      <4>q. QED BY <2>1, <4>2 DEF Reaches
    <3>q. QED BY <3>2, <3>3
  <2>q. QED BY <1>1, <2>1, <2>5, <2>6, RecordUntouched DEF FeedInv
<1>5. CASE PostDropped(p)
  <2>1. /\ UNCHANGED <<device, latest, writes, announced, uploader, sockVars, listening, askVars, del>>
        /\ Finish(p)
    BY <1>5, Zenon DEF PostDropped
  <2>2. FeedTypeOK'
    BY <1>1, <2>1 DEF FeedInv, FeedTypeOK, sockVars, askVars, waitVars
  <2>q. QED BY <1>1, <1>f, <2>1, <2>2 DEF FeedInv
<1>q. QED
  BY <1>2, <1>3, <1>4, <1>5 DEF PostStep

\* Every step of a websocket keeps the invariant.
LEMMA SocketKeeps ==
    ASSUME FeedInv, NEW s \in Sockets, Authorize(s) \/ SocketTask(s) \/ SocketStuck(s) \/ SocketLost(s)
    PROVE  FeedInv'
<1> DEFINE Places == {"idle", "authorized", "subscribed", "top", "select", "stuck", "ended"}
           Messages == 1..writes \cup {Revoked}
           Types == /\ sock \in [Sockets -> Places] /\ listening \in SUBSET Sockets
                    /\ queue \in [Sockets -> Seq(Messages)] /\ lagged \in SUBSET Sockets
                    /\ sent \in [Sockets -> 0..writes]
           Frame == UNCHANGED <<device, uploadVars, askVars, del>>
<1>t. /\ writes \in Nat /\ Types /\ device \in BOOLEAN
      /\ latest # NoSnapshot => latest.number = writes /\ latest.number \in 0..writes
  BY DEF FeedInv, FeedTypeOK, PostsFilled
<1>k. ASSUME Frame, Types'
      PROVE  FeedTypeOK' /\ PostsFilled'
  BY <1>k DEF FeedInv, FeedTypeOK, PostsFilled, uploadVars, askVars, waitVars
<1>s. ASSUME Frame,
             \A x \in Sockets : EntryKept /\ sock'[x] \in {"subscribed", "top", "select"} => x \in listening'
      PROVE  StillSubscribed'
  BY <1>s DEF FeedInv, StillSubscribed, EntryKept, askVars
<1>n. ASSUME Frame,
             \A x \in listening' : latest # NoSnapshot /\ announced /\ sock'[x] \in {"top", "select"}
                                  => Reaches(x)'
      PROVE  NothingLost'
  BY <1>n DEF NothingLost, uploadVars
<1>o. /\ EntryKept => \A x \in Sockets : sock[x] \in {"subscribed", "top", "select"} => x \in listening
      /\ latest # NoSnapshot /\ announced =>
            \A x \in listening : sock[x] \in {"top", "select"} => Reaches(x)
  BY DEF FeedInv, StillSubscribed, NothingLost
<1>1. ASSUME Frame, End(s) PROVE FeedInv'
  <2>1. Types'
    BY <1>t, <1>1, EmptySeq DEF End, Move, uploadVars
  <2>2. \A x \in Sockets : EntryKept /\ sock'[x] \in {"subscribed", "top", "select"} => x \in listening'
    BY <1>t, <1>o, <1>1 DEF End, Move
  <2>3. \A x \in listening' : latest # NoSnapshot /\ announced /\ sock'[x] \in {"top", "select"}
                             => Reaches(x)'
    BY <1>t, <1>o, <1>1 DEF End, Move, Reaches, uploadVars
  <2>q. QED BY <1>1, <1>k, <1>s, <1>n, <2>1, <2>2, <2>3 DEF FeedInv
<1>2. ASSUME NEW place \in Places, Move(s, place), UNCHANGED <<queue, lagged, sent, listening>>, Frame,
             place \in {"subscribed", "top", "select"} => sock[s] \in {"subscribed", "top", "select"},
             place \in {"top", "select"} => sock[s] \in {"top", "select"}
      PROVE  FeedInv'
  <2>1. Types'
    BY <1>t, <1>2 DEF Move, uploadVars
  <2>2. \A x \in Sockets : EntryKept /\ sock'[x] \in {"subscribed", "top", "select"} => x \in listening'
    BY <1>t, <1>o, <1>2 DEF Move
  <2>3. \A x \in listening' : latest # NoSnapshot /\ announced /\ sock'[x] \in {"top", "select"}
                             => Reaches(x)'
    BY <1>t, <1>o, <1>2 DEF Move, Reaches, uploadVars
  <2>q. QED BY <1>2, <1>k, <1>s, <1>n, <2>1, <2>2, <2>3 DEF FeedInv
<1>3. ASSUME ForwardCached(s), UNCHANGED writes
      PROVE  /\ sent' \in [Sockets -> 0..writes] /\ (latest # NoSnapshot => sent'[s] = writes)
             /\ \A x \in Sockets \ {s} : sent'[x] = sent[x]
  <2>1. CASE latest = NoSnapshot /\ sent' = sent
    BY <1>t, <2>1
  <2>2. CASE latest # NoSnapshot /\ sent' = [sent EXCEPT ![s] = IF latest.number > @
             THEN latest.number ELSE @]
    BY <1>t, <2>2
  <2>q. QED BY <1>3, <2>1, <2>2, Zenon DEF ForwardCached, Forward
<1>4. ASSUME Move(s, "top"), ForwardCached(s), sock[s] \in {"subscribed", "select"}, Frame,
             UNCHANGED <<queue, listening>>, lagged' \subseteq lagged, lagged \ {s} \subseteq lagged'
      PROVE  FeedInv'
  <2>1. UNCHANGED <<writes, latest, announced, device>>
    BY <1>4 DEF uploadVars
  <2>0. /\ sent' \in [Sockets -> 0..writes] /\ (latest # NoSnapshot => sent'[s] = writes)
        /\ \A x \in Sockets \ {s} : sent'[x] = sent[x]
    BY <1>3, <1>4, <2>1
  <2>2. Types'
    BY <1>t, <1>4, <2>0, <2>1 DEF Move
  <2>3. \A x \in Sockets : EntryKept /\ sock'[x] \in {"subscribed", "top", "select"} => x \in listening'
    BY <1>t, <1>o, <1>4 DEF Move
  <2>4. \A x \in listening' : latest # NoSnapshot /\ announced /\ sock'[x] \in {"top", "select"}
                             => Reaches(x)'
    BY <1>t, <1>o, <1>4, <2>0, <2>1 DEF Move, Reaches
  <2>q. QED BY <1>4, <1>k, <1>s, <1>n, <2>2, <2>3, <2>4 DEF FeedInv
<1>5. CASE Authorize(s)
  BY <1>2, <1>5 DEF Authorize
<1>6. CASE Subscribe(s)
  <2>1. /\ Frame /\ Move(s, "subscribed") /\ listening' = listening \cup {s}
        /\ UNCHANGED <<queue, lagged, sent, writes>>
    BY <1>6 DEF Subscribe, uploadVars
  <2>2. Types'
    BY <1>t, <2>1 DEF Move
  <2>3. \A x \in Sockets : EntryKept /\ sock'[x] \in {"subscribed", "top", "select"} => x \in listening'
    BY <1>t, <1>o, <2>1 DEF Move
  <2>4. \A x \in listening' : latest # NoSnapshot /\ announced /\ sock'[x] \in {"top", "select"}
                             => Reaches(x)'
    BY <1>t, <1>o, <2>1 DEF Move, Reaches
  <2>q. QED BY <2>1, <1>k, <1>s, <1>n, <2>2, <2>3, <2>4 DEF FeedInv
<1>7. CASE SendLatest(s)
  BY <1>4, <1>7 DEF SendLatest
<1>8. CASE LoopTop(s)
  BY <1>1, <1>2, <1>8 DEF LoopTop
<1>9. CASE Receive(s)
  <2>1. CASE End(s)
    BY <1>1, <1>9, <2>1 DEF Receive
  <2>2. CASE ~End(s)
    <3>1. /\ Move(s, "top") /\ Forward(s, Head(queue[s])) /\ queue' = [queue EXCEPT ![s] = Tail(@)]
          /\ UNCHANGED <<lagged, listening>> /\ Frame /\ queue[s] # <<>> /\ Head(queue[s]) # Revoked
          /\ sock[s] = "select" /\ s \notin lagged
      BY <1>9, <2>2, Zenon DEF Receive
    <3>2. queue[s] \in Seq(Messages)
      BY <1>t
    <3>3. /\ Tail(queue[s]) \in Seq(Messages) /\ Head(queue[s]) \in 1..writes /\ Head(queue[s]) = queue[s][1]
          /\ \A i \in 1..Len(queue[s]) : i = 1 \/
                (i - 1 \in 1..Len(Tail(queue[s])) /\ Tail(queue[s])[i - 1] = queue[s][i])
      BY <1>t, <3>1, <3>2
    <3>4. UNCHANGED <<writes, latest, announced, device>>
      BY <3>1 DEF uploadVars
    <3>5. sent' = [sent EXCEPT ![s] = IF Head(queue[s]) > @ THEN Head(queue[s]) ELSE @]
      BY <3>1 DEF Forward
    <3>6. Types'
      BY <1>t, <3>1, <3>3, <3>4, <3>5 DEF Move
    <3>7. \A x \in Sockets : EntryKept /\ sock'[x] \in {"subscribed", "top", "select"} => x \in listening'
      BY <1>t, <1>o, <3>1 DEF Move
    <3>8. \A x \in listening' \ {s} : latest # NoSnapshot /\ announced
                                    /\ sock'[x] \in {"top", "select"}
                                     => Reaches(x)'
      BY <1>t, <1>o, <3>1, <3>4, <3>5 DEF Move, Reaches
    <3>9. ASSUME s \in listening /\ latest # NoSnapshot /\ announced PROVE Reaches(s)'
      <4>1. sent[s] = writes \/ \E i \in 1..Len(queue[s]) : queue[s][i] = writes
        BY <1>o, <3>1, <3>9 DEF Reaches
      <4>2. CASE sent[s] = writes
        BY <1>t, <3>3, <3>4, <3>5, <4>2 DEF Reaches
      <4>3. CASE queue[s][1] = writes
        BY <1>t, <3>3, <3>4, <3>5, <4>3 DEF Reaches
      <4>4. ASSUME NEW i \in 1..Len(queue[s]), queue[s][i] = writes, i # 1 PROVE Reaches(s)'
        BY <1>t, <3>1, <3>3, <3>4, <4>4 DEF Reaches
      <4>q. QED BY <4>1, <4>2, <4>3, <4>4
    <3>q. QED BY <3>1, <1>k, <1>s, <1>n, <3>6, <3>7, <3>8, <3>9 DEF FeedInv
  <2>q. QED BY <2>1, <2>2
<1>10. CASE ReceiveLagged(s)
  BY <1>4, <1>10 DEF ReceiveLagged
<1>11. CASE Heartbeat(s)
  BY <1>2, <1>11 DEF Heartbeat
<1>12. CASE SocketLost(s)
  BY <1>1, <1>12 DEF SocketLost
<1>13. CASE SocketStuck(s)
  BY <1>2, <1>13 DEF SocketStuck
<1>q. QED
  BY <1>5, <1>6, <1>7, <1>8, <1>9, <1>10, <1>11, <1>12, <1>13 DEF SocketTask

\* A snapshot that is dropped from the cache owes nothing to anybody.
LEMMA DroppedKeeps ==
    ASSUME FeedInv, latest' = NoSnapshot,
           UNCHANGED <<writes, announced, uploader, post, sockVars, listening, waitVars, device>>,
           ask' \in [Callers -> {"idle", "pended", "waiting", "expired", "agreed", "unsnapped",
                                 "unrecorded", "told", "done", "failed", "gone"}],
           del' \in [Deletes -> {"idle", "unrecorded", "unsnapped", "done", "undone"}],
           EntryKept' => EntryKept
    PROVE  FeedInv'
<1>1. FeedTypeOK'
  BY DEF FeedInv, FeedTypeOK, sockVars, waitVars
<1>2. PostsFilled' /\ NothingLost'
  BY DEF FeedInv, PostsFilled, NothingLost
<1>3. StillSubscribed'
  BY DEF FeedInv, StillSubscribed, sockVars
<1>q. QED BY <1>1, <1>2, <1>3 DEF FeedInv

\* Every step of a revocation, by the phone or by the desktop, keeps the invariant.
LEMMA RevocationKeeps ==
    ASSUME FeedInv,
           \/ DesktopLeaves
           \/ \E c \in Callers : RevokeSelf(c) \/ DesktopAnswers(c) \/ HangUp(c) \/ RevokeTask(c)
           \/ \E d \in Deletes : DeleteTask(d)
    PROVE  FeedInv'
<1> DEFINE Asks == {"idle", "pended", "waiting", "expired", "agreed", "unsnapped",
                    "unrecorded", "told", "done", "failed", "gone"}
           Dels == {"idle", "unrecorded", "unsnapped", "done", "undone"}
           Types == /\ device \in BOOLEAN /\ desktopOnline \in BOOLEAN /\ asked \in SUBSET Callers
                    /\ ask \in [Callers -> Asks] /\ stale \in SUBSET Callers
                    /\ revokeConnections \in SUBSET Callers /\ del \in [Deletes -> Dels]
<1>t. Types /\ listening \in SUBSET Sockets
  BY DEF FeedInv, FeedTypeOK
<1>k. ASSUME UNCHANGED <<uploadVars, sockVars>>, Types',
             \/ listening' = listening /\ (EntryKept' => EntryKept)
             \/ listening' = {} /\ ~EntryKept'
      PROVE  FeedInv'
  <2>1. FeedTypeOK'
    BY <1>k, <1>t DEF FeedInv, FeedTypeOK, uploadVars, sockVars
  <2>2. PostsFilled' /\ NothingLost'
    BY <1>k DEF FeedInv, PostsFilled, NothingLost, Reaches, uploadVars, sockVars
  <2>3. StillSubscribed'
    BY <1>k DEF FeedInv, StillSubscribed, sockVars
  <2>q. QED BY <2>1, <2>2, <2>3 DEF FeedInv
<1>e. ASSUME NEW c \in Callers, NEW place, ask[c] # "done", ask' = [ask EXCEPT ![c] = place], del' = del
      PROVE  EntryKept' => EntryKept
  BY <1>t, <1>e DEF EntryKept
<1>d. ASSUME NEW d \in Deletes, NEW place, del[d] \notin {"done", "undone"},
             del' = [del EXCEPT ![d] = place], ask' = ask
      PROVE  EntryKept' => EntryKept
  BY <1>t, <1>d DEF EntryKept
<1>1. CASE DesktopLeaves
  <2>1. Types' /\ UNCHANGED <<uploadVars, sockVars, listening, ask, del>>
    BY <1>t, <1>1 DEF DesktopLeaves
  <2>2. EntryKept' => EntryKept
    BY <2>1 DEF EntryKept
  <2>q. QED BY <1>k, <2>1, <2>2
<1>2. ASSUME NEW c \in Callers, RevokeSelf(c) PROVE FeedInv'
  <2>1. /\ UNCHANGED <<device, uploadVars, sockVars, listening, desktopOnline, asked, stale, del>>
        /\ ask[c] = "idle"
        /\ \/ revokeConnections' = revokeConnections \cup {c} /\ ask' = [ask EXCEPT ![c] = "pended"]
           \/ revokeConnections' = revokeConnections /\ ask' = [ask EXCEPT ![c] = "failed"]
    BY <1>2, Zenon DEF RevokeSelf, Step
  <2>2. CASE ask' = [ask EXCEPT ![c] = "pended"]
    BY <1>t, <1>k, <1>e, <2>1, <2>2
  <2>3. CASE ask' = [ask EXCEPT ![c] = "failed"]
    BY <1>t, <1>k, <1>e, <2>1, <2>3
  <2>q. QED BY <2>1, <2>2, <2>3
<1>3. ASSUME NEW c \in Callers, DesktopAnswers(c) PROVE FeedInv'
  <2>1. /\ UNCHANGED <<device, uploadVars, sockVars, listening, desktopOnline, stale, del>>
        /\ asked' = asked \ {c} /\ revokeConnections' = revokeConnections \ {c}
        /\ \/ ask' = [ask EXCEPT ![c] = "agreed"] /\ ask[c] = "waiting"
           \/ ask' = [ask EXCEPT ![c] = "failed"] /\ ask[c] = "waiting"
           \/ ask' = ask
    BY <1>3, Zenon DEF DesktopAnswers, Step
  <2>2. CASE ask' = [ask EXCEPT ![c] = "agreed"] /\ ask[c] = "waiting"
    BY <1>t, <1>k, <1>e, <2>1, <2>2
  <2>3. CASE ask' = [ask EXCEPT ![c] = "failed"] /\ ask[c] = "waiting"
    BY <1>t, <1>k, <1>e, <2>1, <2>3
  <2>4. CASE ask' = ask
    <3>1. EntryKept' => EntryKept
      BY <2>1, <2>4 DEF EntryKept
    <3>q. QED BY <1>t, <1>k, <2>1, <2>4, <3>1
  <2>q. QED BY <2>1, <2>2, <2>3, <2>4
<1>4. ASSUME NEW c \in Callers, HangUp(c) \/ RevokeTimeout(c) PROVE FeedInv'
  <2>1. /\ UNCHANGED <<device, uploadVars, sockVars, listening, waitVars, del>>
        /\ \/ ask' = [ask EXCEPT ![c] = "gone"] /\ ask[c] \notin {"idle", "done", "failed", "gone"}
           \/ ask' = [ask EXCEPT ![c] = "expired"] /\ ask[c] = "waiting"
    BY <1>4, Zenon DEF HangUp, RevokeTimeout, Step, waitVars
  <2>2. CASE ask' = [ask EXCEPT ![c] = "gone"] /\ ask[c] \notin {"idle", "done", "failed", "gone"}
    BY <1>t, <1>k, <1>e, <2>1, <2>2 DEF waitVars
  <2>3. CASE ask' = [ask EXCEPT ![c] = "expired"] /\ ask[c] = "waiting"
    BY <1>t, <1>k, <1>e, <2>1, <2>3 DEF waitVars
  <2>q. QED BY <2>1, <2>2, <2>3
<1>5. ASSUME NEW c \in Callers, RevokeSend(c) PROVE FeedInv'
  <2>1. /\ UNCHANGED <<device, uploadVars, sockVars, listening, desktopOnline, del>> /\ ask[c] = "pended"
        /\ asked' \in SUBSET Callers /\ revokeConnections' \in SUBSET Callers /\ stale' \in SUBSET Callers
    BY <1>t, <1>5 DEF RevokeSend
  <2>2. ask' = [ask EXCEPT ![c] = "failed"] \/ ask' = [ask EXCEPT ![c] = "waiting"]
    BY <1>5, Zenon DEF RevokeSend, Step
  <2>3. CASE ask' = [ask EXCEPT ![c] = "failed"]
    BY <1>t, <1>k, <1>e, <2>1, <2>3
  <2>4. CASE ask' = [ask EXCEPT ![c] = "waiting"]
    BY <1>t, <1>k, <1>e, <2>1, <2>4
  <2>q. QED BY <2>2, <2>3, <2>4
<1>6. ASSUME NEW c \in Callers, RevokeGiveUp(c) PROVE FeedInv'
  BY <1>t, <1>k, <1>e, <1>6 DEF RevokeGiveUp, Step
<1>7. ASSUME NEW c \in Callers, FinalizeSnapshot(c) PROVE FeedInv'
  <2>1. /\ latest' = NoSnapshot /\ ask' = [ask EXCEPT ![c] = "unsnapped"] /\ del' = del /\ ask[c] = "agreed"
        /\ UNCHANGED <<writes, announced, uploader, post, sockVars, listening, waitVars, device>>
    BY <1>7 DEF FinalizeSnapshot, Step
  <2>2. ask' \in [Callers -> Asks] /\ del' \in [Deletes -> Dels] /\ (EntryKept' => EntryKept)
    BY <1>t, <1>e, <2>1
  <2>q. QED BY <2>1, <2>2, DroppedKeeps
<1>8. ASSUME NEW c \in Callers, FinalizeRecord(c) PROVE FeedInv'
  <2>1. /\ UNCHANGED <<uploadVars, sockVars, listening, desktopOnline, asked, stale, revokeConnections, del>>
        /\ ask[c] = "unsnapped"
    BY <1>8, Zenon DEF FinalizeRecord, waitVars
  <2>2. \/ device' = FALSE /\ ask' = [ask EXCEPT ![c] = "unrecorded"]
        \/ device' = device /\ ask' = [ask EXCEPT ![c] = "failed"]
    BY <1>8, Zenon DEF FinalizeRecord, Step
  <2>3. CASE device' = FALSE /\ ask' = [ask EXCEPT ![c] = "unrecorded"]
    BY <1>t, <1>k, <1>e, <2>1, <2>3
  <2>4. CASE device' = device /\ ask' = [ask EXCEPT ![c] = "failed"]
    BY <1>t, <1>k, <1>e, <2>1, <2>4
  <2>q. QED BY <2>2, <2>3, <2>4
<1>9. ASSUME NEW c \in Callers, FinalizeTell(c) PROVE FeedInv'
  <2>1. /\ UNCHANGED <<device, uploadVars, sock, sent, listening, waitVars, del>>
        /\ Broadcast(Revoked) /\ ask' = [ask EXCEPT ![c] = "told"] /\ ask[c] = "unrecorded"
    BY <1>9 DEF FinalizeTell, Step, waitVars
  <2>2. /\ queue' \in [Sockets -> Seq(1..writes \cup {Revoked})] /\ lagged' \in SUBSET Sockets
        /\ lagged \subseteq lagged'
        /\ \A s \in listening :
              \/ s \in lagged'
              \/ /\ Len(queue'[s]) = Len(queue[s]) + 1
                 /\ \A i \in 1..Len(queue[s]) : queue'[s][i] = queue[s][i]
    <3>1. PICK M : M = 1..writes \cup {Revoked}
      OBVIOUS
    <3>2. PICK m : m = Revoked
      OBVIOUS
    <3>3. /\ m \in M /\ queue \in [Sockets -> Seq(M)] /\ lagged \in SUBSET Sockets
          /\ listening \in SUBSET Sockets
      BY <3>1, <3>2 DEF FeedInv, FeedTypeOK
    <3>4. Broadcast(m)
      BY <2>1, <3>2, Zenon DEF Broadcast
    <3>5. /\ queue' \in [Sockets -> Seq(M)] /\ lagged' \in SUBSET Sockets
          /\ lagged \subseteq lagged'
          /\ \A s \in listening :
                \/ s \in lagged'
                \/ /\ Len(queue'[s]) = Len(queue[s]) + 1
                   /\ \A i \in 1..Len(queue[s]) : queue'[s][i] = queue[s][i]
      BY <3>3, <3>4, BroadcastReaches, Zenon
    <3>q. QED BY <3>1, <3>5, Zenon
  <2>3. Types' /\ (EntryKept' => EntryKept)
    BY <1>t, <1>e, <2>1 DEF waitVars
  <2>4. FeedTypeOK'
    BY <1>t, <2>1, <2>2, <2>3 DEF FeedInv, FeedTypeOK, uploadVars
  <2>5. NothingLost'
    <3> SUFFICES ASSUME latest # NoSnapshot, announced, NEW s \in listening, sock[s] \in {"top", "select"}
                 PROVE  Reaches(s)'
      BY <2>1 DEF NothingLost, uploadVars
    <3>1. Reaches(s) /\ queue[s] \in Seq(1..writes \cup {Revoked})
      BY <1>t DEF FeedInv, FeedTypeOK, NothingLost
    <3>2. \A i \in 1..Len(queue[s]) : s \in lagged' \/ (i \in 1..Len(queue'[s]) /\ queue'[s][i] = queue[s][i])
      BY <2>2, <3>1
    <3>q. QED BY <2>1, <2>2, <3>1, <3>2 DEF Reaches, uploadVars
  <2>q. QED BY <2>1, <2>3, <2>4, <2>5 DEF FeedInv, PostsFilled, StillSubscribed, uploadVars
<1>10. ASSUME NEW c \in Callers, FinalizeChannel(c) PROVE FeedInv'
  <2>1. /\ UNCHANGED <<device, uploadVars, sockVars, desktopOnline, asked, stale, revokeConnections, del>>
        /\ listening' = {} /\ ask' = [ask EXCEPT ![c] = "done"]
    BY <1>10 DEF FinalizeChannel, Step, waitVars
  <2>2. Types' /\ ~EntryKept'
    BY <1>t, <2>1 DEF EntryKept
  <2>q. QED BY <1>k, <2>1, <2>2
<1>11. ASSUME NEW d \in Deletes, DeleteRecord(d) PROVE FeedInv'
  <2>1. /\ UNCHANGED <<uploadVars, sockVars, listening, ask, desktopOnline, asked, stale, revokeConnections>>
        /\ device' = FALSE /\ del' = [del EXCEPT ![d] = "unrecorded"] /\ del[d] = "idle"
    BY <1>11 DEF DeleteRecord, askVars, waitVars
  <2>q. QED BY <1>t, <1>k, <1>d, <2>1
<1>12. ASSUME NEW d \in Deletes, DeleteSnapshot(d) PROVE FeedInv'
  <2>1. /\ latest' = NoSnapshot /\ del' = [del EXCEPT ![d] = "unsnapped"] /\ ask' = ask
             /\ del[d] = "unrecorded"
        /\ UNCHANGED <<writes, announced, uploader, post, sockVars, listening, waitVars, device>>
    BY <1>12 DEF DeleteSnapshot, askVars
  <2>2. ask' \in [Callers -> Asks] /\ del' \in [Deletes -> Dels] /\ (EntryKept' => EntryKept)
    BY <1>t, <1>d, <2>1
  <2>q. QED BY <2>1, <2>2, DroppedKeeps
<1>13. ASSUME NEW d \in Deletes, DeleteChannel(d) PROVE FeedInv'
  <2>1. /\ UNCHANGED <<device, uploadVars, sockVars, ask, desktopOnline, asked, stale, revokeConnections>>
        /\ listening' = {} /\ del' = [del EXCEPT ![d] = "done"]
    BY <1>13 DEF DeleteChannel, askVars, waitVars
  <2>2. Types' /\ ~EntryKept'
    BY <1>t, <2>1 DEF EntryKept
  <2>q. QED BY <1>k, <2>1, <2>2
<1>14. ASSUME NEW d \in Deletes, Reauthorize(d) PROVE FeedInv'
  <2>1. /\ UNCHANGED <<uploadVars, sockVars, listening, ask, desktopOnline, asked, stale, revokeConnections>>
        /\ device' = TRUE /\ del' = [del EXCEPT ![d] = "undone"]
    BY <1>14 DEF Reauthorize, askVars, waitVars
  <2>2. Types' /\ ~EntryKept'
    BY <1>t, <2>1 DEF EntryKept
  <2>q. QED BY <1>k, <2>1, <2>2
<1>q. QED
  BY <1>1, <1>2, <1>3, <1>4, <1>5, <1>6, <1>7, <1>8, <1>9, <1>10, <1>11, <1>12, <1>13, <1>14
  DEF RevokeTask, DeleteTask

\* The invariant of the feed, from the first state on.
LEMMA FeedInvariant == FeedSpec => []FeedInv
<1>1. FeedInit => FeedInv
  <2> SUFFICES ASSUME FeedInit PROVE FeedInv
    OBVIOUS
  <2>1. post \in [Posts -> [at : {"idle", "checked", "cached", "done"},
                            session : 0..MaxUploaders, seq : Nat, number : Nat]]
    BY SnapshotFeedAssumption DEF FeedInit
  <2>2. queue \in [Sockets -> Seq(1..writes \cup {Revoked})] /\ sent \in [Sockets -> 0..writes]
    BY EmptySeq DEF FeedInit
  <2>3. uploader \in [session : 1..MaxUploaders, seq : Nat]
    BY SnapshotFeedAssumption DEF FeedInit
  <2>4. FeedTypeOK
    BY <2>1, <2>2, <2>3 DEF FeedInit, FeedTypeOK
  <2>q. QED BY <2>4 DEF FeedInit, FeedInv, PostsFilled, StillSubscribed, NothingLost
<1>2. FeedInv /\ [FeedNext]_feedVars => FeedInv'
  <2> SUFFICES ASSUME FeedInv, [FeedNext]_feedVars PROVE FeedInv'
    OBVIOUS
  <2>1. CASE Expire
    <3>1. /\ ask' \in [Callers -> {"idle", "pended", "waiting", "expired", "agreed", "unsnapped",
                                   "unrecorded", "told", "done", "failed", "gone"}]
          /\ del' \in [Deletes -> {"idle", "unrecorded", "unsnapped", "done", "undone"}]
          /\ ask' = ask /\ del' = del
      BY <2>1 DEF Expire, FeedInv, FeedTypeOK, askVars
    <3>2. EntryKept' => EntryKept
      BY <3>1 DEF EntryKept
    <3>q. QED BY <2>1, <3>1, <3>2, DroppedKeeps DEF Expire, askVars
  <2>2. CASE RestartUploader
    <3>1. uploader' \in [session : 1..MaxUploaders, seq : Nat]
      BY <2>2, SnapshotFeedAssumption DEF RestartUploader, FeedInv, FeedTypeOK
    <3>2. UNCHANGED <<device, latest, writes, announced, post, sockVars, listening, askVars, del>>
      BY <2>2 DEF RestartUploader
    <3>3. FeedTypeOK'
      BY <3>1, <3>2 DEF FeedInv, FeedTypeOK, sockVars, askVars, waitVars
    <3>q. QED BY <3>2, <3>3 DEF FeedInv, PostsFilled, StillSubscribed, EntryKept, NothingLost, Reaches,
              sockVars,
       askVars
  <2>3. CASE UNCHANGED feedVars
    <3>1. UNCHANGED <<device, latest, writes, announced, uploader, post, sockVars, listening, askVars, del>>
      BY <2>3 DEF feedVars, uploadVars
    <3>2. FeedTypeOK'
      BY <3>1 DEF FeedInv, FeedTypeOK, sockVars, askVars, waitVars
    <3>q. QED BY <3>1, <3>2 DEF FeedInv, PostsFilled, StillSubscribed, EntryKept, NothingLost, Reaches,
              sockVars,
       askVars
  <2>q. QED
    BY <2>1, <2>2, <2>3, UploadKeeps, SocketKeeps, RevocationKeeps DEF FeedNext
<1>q. QED
  BY <1>1, <1>2, PTL DEF FeedSpec

\* For any number of uploads, uploader sessions, websockets and revocations and any capacity of
\* the channel: a websocket of the present channel that waits with nothing queued has
\* forwarded the cached snapshot once cache_and_route_snapshot has sent it, and every websocket is
\* of the present channel until a revocation drops its entry.
THEOREM SnapshotsArrive == FeedSpec => [](FeedTypeOK /\ NoSnapshotMissed)
<1>1. FeedInv => FeedTypeOK /\ NoSnapshotMissed
  <2> SUFFICES ASSUME FeedInv, NEW s \in Sockets, sock[s] = "select", queue[s] = <<>>,
                      s \notin lagged, s \in listening \/ EntryKept, latest # NoSnapshot, announced
               PROVE  sent[s] = latest.number
    BY DEF FeedInv, NoSnapshotMissed
  <2>0. s \in listening
    BY DEF FeedInv, StillSubscribed
  <2>1. Reaches(s) /\ latest.number = writes
    BY <2>0 DEF FeedInv, NothingLost, PostsFilled
  <2>2. Len(queue[s]) = 0
    OBVIOUS
  <2>q. QED BY <2>1, <2>2 DEF Reaches
<1>q. QED
  BY <1>1, FeedInvariant, PTL

\* revoke_connections holds no key but of a caller that will still remove it or that hung up,
\* for any number of callers and any limit.
THEOREM RevokeSlotsOwned == FeedSpec => []RevokeSlotHasOwner
<1>1. FeedInit => RevokeSlotHasOwner
  BY DEF FeedInit, RevokeSlotHasOwner
<1>2. ASSUME FeedTypeOK, RevokeSlotHasOwner, [FeedNext]_feedVars
      PROVE  RevokeSlotHasOwner'
  <2>t. ask \in [Callers -> {"idle", "pended", "waiting", "expired", "agreed",
                             "unsnapped", "unrecorded", "told", "done", "failed", "gone"}]
        /\ revokeConnections \in SUBSET Callers
    BY <1>2 DEF FeedTypeOK
  <2>u. ASSUME UNCHANGED <<ask, revokeConnections>> PROVE RevokeSlotHasOwner'
    BY <1>2, <2>u DEF RevokeSlotHasOwner
  <2>m. ASSUME NEW c \in Callers, NEW place, ask' = [ask EXCEPT ![c] = place],
               revokeConnections' \subseteq revokeConnections \cup {c},
               c \in revokeConnections' => place \in {"pended", "waiting", "expired", "gone"}
        PROVE  RevokeSlotHasOwner'
    BY <1>2, <2>t, <2>m DEF RevokeSlotHasOwner
  <2>1. ASSUME NEW c \in Callers, RevokeSelf(c) PROVE RevokeSlotHasOwner'
    <3>1. \/ revokeConnections' = revokeConnections \cup {c} /\ ask' = [ask EXCEPT ![c] = "pended"]
          \/ revokeConnections' = revokeConnections /\ ask' = [ask EXCEPT ![c] = "failed"]
      BY <2>1, Zenon DEF RevokeSelf, Step
    <3>2. c \notin revokeConnections
      BY <1>2, <2>1 DEF RevokeSelf, RevokeSlotHasOwner
    <3>q. QED BY <2>m, <3>1, <3>2
  <2>2. ASSUME NEW c \in Callers, DesktopAnswers(c) PROVE RevokeSlotHasOwner'
    <3>1. /\ revokeConnections' = revokeConnections \ {c}
          /\ \/ ask' = [ask EXCEPT ![c] = "agreed"]
             \/ ask' = [ask EXCEPT ![c] = "failed"]
             \/ ask' = ask
      BY <2>2, Zenon DEF DesktopAnswers, Step
    <3>2. CASE ask' = ask
      BY <1>2, <3>1, <3>2 DEF RevokeSlotHasOwner
    <3>q. QED BY <2>m, <3>1, <3>2
  <2>3. ASSUME NEW c \in Callers, HangUp(c) \/ RevokeTimeout(c) \/ RevokeGiveUp(c) PROVE RevokeSlotHasOwner'
    BY <2>3, <2>m DEF HangUp, RevokeTimeout, RevokeGiveUp, Step, waitVars
  <2>4. ASSUME NEW c \in Callers, RevokeSend(c) PROVE RevokeSlotHasOwner'
    BY <2>4, <2>m DEF RevokeSend, Step
  <2>5. ASSUME NEW c \in Callers,
               FinalizeSnapshot(c) \/ FinalizeRecord(c) \/ FinalizeTell(c) \/ FinalizeChannel(c)
        PROVE  RevokeSlotHasOwner'
    <3>1. ask[c] \in {"agreed", "unsnapped", "unrecorded", "told"} /\ revokeConnections' = revokeConnections
      BY <2>5, Zenon DEF FinalizeSnapshot, FinalizeRecord, FinalizeTell, FinalizeChannel, waitVars
    <3>2. c \notin revokeConnections
      BY <1>2, <3>1 DEF RevokeSlotHasOwner
    <3>3. \E place : ask' = [ask EXCEPT ![c] = place]
      BY <2>5, Zenon DEF FinalizeSnapshot, FinalizeRecord, FinalizeTell, FinalizeChannel, Step
    <3>q. QED BY <2>m, <3>1, <3>2, <3>3
  <2>6. CASE Expire \/ RestartUploader \/ DesktopLeaves
    BY <2>6, <2>u DEF Expire, RestartUploader, DesktopLeaves, askVars, waitVars
  <2>7. ASSUME NEW p \in Posts, PostStep(p) PROVE RevokeSlotHasOwner'
    BY <2>7, <2>u, Zenon DEF PostStep, Upload, CacheSnapshot, RouteSnapshot, PostDropped, askVars, waitVars
  <2>8. ASSUME NEW s \in Sockets, Authorize(s) \/ SocketTask(s) \/ SocketStuck(s) \/ SocketLost(s)
        PROVE  RevokeSlotHasOwner'
    BY <2>8, <2>u, Zenon DEF SocketTask, Authorize, Subscribe, SendLatest, LoopTop, Receive, ReceiveLagged,
       Heartbeat, SocketStuck, SocketLost, askVars, waitVars
  <2>9. ASSUME NEW d \in Deletes, DeleteTask(d) PROVE RevokeSlotHasOwner'
    BY <2>9, <2>u, Zenon DEF DeleteTask, DeleteRecord, DeleteSnapshot, DeleteChannel, Reauthorize, askVars,
       waitVars
  <2>10. CASE UNCHANGED feedVars
    BY <2>10, <2>u DEF feedVars, askVars, waitVars
  <2>q. QED
    BY <1>2, <2>1, <2>2, <2>3, <2>4, <2>5, <2>6, <2>7, <2>8, <2>9, <2>10 DEF FeedNext, RevokeTask
<1>q. QED
  BY <1>1, <1>2, SnapshotsArrive, PTL DEF FeedSpec
=============================================================================
