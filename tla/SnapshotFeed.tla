---------------------------- MODULE SnapshotFeed ----------------------------
(***************************************************************************)
(* The relay's side of one paired phone: the cached snapshot, the phone's  *)
(* broadcast channel, its websockets and the two ways its record goes      *)
(* (the desktop's DELETE and the phone's revoke-self).  main.rs and        *)
(* device_session.rs of relay-server run all of these as tasks that meet   *)
(* only in short critical sections, so every section between two awaits is *)
(* an action here.                                                         *)
(*                                                                         *)
(* The future of an HTTPS handler is dropped at an await when its client   *)
(* hangs up; a websocket task is not.  The desktop takes a DELETE back     *)
(* when it cannot save its own list, so a device id may come back.         *)
(***************************************************************************)
EXTENDS Integers, Sequences, FiniteSets

CONSTANTS
    Posts,          \* snapshot uploads, numbered in the order they are sent
    Sockets,        \* device websockets of the phone
    Callers,        \* revoke-self requests of the phone over HTTPS
    Deletes,        \* DELETE requests of the desktop
    Capacity,       \* DEVICE_CHANNEL_CAPACITY
    MaxPendingRevokes,  \* MAX_PENDING_REVOKES
    MaxUploaders,   \* bound: starts of the desktop's relay client
    Revoked,        \* the Revoked message
    NoSnapshot

ASSUME SnapshotFeedAssumption ==
    /\ Posts \subseteq Nat
    /\ Capacity \in Nat \ {0} /\ MaxPendingRevokes \in Nat /\ MaxUploaders \in Nat \ {0}

VARIABLES
    device,     \* the registry still has the phone's record
    latest,     \* the entry of snapshots, or NoSnapshot
    writes,     \* snapshots cached so far; the last one's number is in latest
    announced,  \* the cached snapshot has been sent to the channel
    uploader,   \* session of snapshot_http_loop and the sequence it reached
    post,       \* per upload: where its handler is, and its snapshot
    listening,  \* websockets subscribed to the phone's present entry of device_channels
    sock,       \* per websocket: where its task is
    queue,      \* per websocket: messages received and not yet forwarded
    lagged,     \* websockets whose receiver has lost messages
    sent,       \* per websocket: the newest snapshot forwarded to the phone
    desktopOnline,  \* the desktop has a relay session
    asked,      \* callers whose DeviceRevoke is with the desktop
    ask,        \* per caller: where its revocation is
    stale,      \* callers whose cloned desktop route is of an ended session
    revokeConnections,  \* keys of revoke_connections
    del         \* per DELETE: where it is

uploadVars == <<latest, writes, announced, uploader, post>>
sockVars == <<sock, queue, lagged, sent>>
waitVars == <<desktopOnline, asked, stale, revokeConnections>>
askVars == <<ask, waitVars>>
feedVars == <<device, uploadVars, sockVars, listening, askVars, del>>

Snapshot == [session : 1..MaxUploaders, seq : Nat, number : Nat]

FeedTypeOK ==
    /\ device \in BOOLEAN
    /\ latest \in Snapshot \cup {NoSnapshot}
    /\ writes \in Nat /\ announced \in BOOLEAN
    /\ uploader \in [session : 1..MaxUploaders, seq : Nat]
    /\ post \in [Posts -> [at : {"idle", "checked", "cached", "done"},
                           session : 0..MaxUploaders, seq : Nat, number : Nat]]
    /\ sock \in [Sockets -> {"idle", "authorized", "subscribed", "top", "select", "stuck", "ended"}]
    /\ listening \in SUBSET Sockets
    /\ queue \in [Sockets -> Seq(1..writes \cup {Revoked})]
    /\ lagged \in SUBSET Sockets
    /\ sent \in [Sockets -> 0..writes]
    /\ desktopOnline \in BOOLEAN /\ asked \in SUBSET Callers
    /\ ask \in [Callers -> {"idle", "pended", "waiting", "expired", "agreed",
                            "unsnapped", "unrecorded", "told", "done", "failed", "gone"}]
    /\ stale \in SUBSET Callers /\ revokeConnections \in SUBSET Callers
    /\ del \in [Deletes -> {"idle", "unrecorded", "unsnapped", "done", "undone"}]

FeedInit ==
    /\ device = TRUE
    /\ latest = NoSnapshot /\ writes = 0 /\ announced = FALSE
    /\ uploader = [session |-> 1, seq |-> 0]
    /\ post = [p \in Posts |-> [at |-> "idle", session |-> 0, seq |-> 0, number |-> 0]]
    /\ sock = [s \in Sockets |-> "idle"] /\ listening = {}
    /\ queue = [s \in Sockets |-> <<>>] /\ lagged = {} /\ sent = [s \in Sockets |-> 0]
    /\ desktopOnline = TRUE /\ asked = {} /\ ask = [c \in Callers |-> "idle"]
    /\ stale = {} /\ revokeConnections = {}
    /\ del = [d \in Deletes |-> "idle"]

-----------------------------------------------------------------------------
(* Shared helpers                                                          *)

\* send on the phone's channel: a full receiver loses its oldest message and will be told.
\* route_sender makes a missing entry, which nobody listens to yet.
Broadcast(message) ==
    LET full(s) == Len(queue[s]) = Capacity
    IN  /\ queue' = [s \in Sockets |->
              IF s \notin listening THEN queue[s]
              ELSE Append(IF full(s) THEN Tail(queue[s]) ELSE queue[s], message)]
        /\ lagged' = lagged \cup {s \in listening : full(s)}

\* A look at the cache, latest_snapshot, drops a record past SNAPSHOT_TTL_MS.
Expire ==
    /\ latest # NoSnapshot /\ latest' = NoSnapshot
    /\ UNCHANGED <<device, writes, announced, uploader, post, sockVars, listening, askVars, del>>

-----------------------------------------------------------------------------
(* Uploads: snapshot_http_loop, desktop_snapshot_http and                  *)
(* cache_and_route_snapshot.                                               *)

Finish(p) == post' = [post EXCEPT ![p] = [at |-> "done", session |-> 0, seq |-> 0, number |-> 0]]

\* The loop waits for an upload's answer at most 10 s, so an earlier one may be under way.
\* The handler checks the device, then waits for the cache.
Upload(p) ==
    /\ post[p].at = "idle" /\ \A q \in Posts : q < p => post[q].at # "idle"
    /\ uploader' = [uploader EXCEPT !.seq = @ + 1]
    /\ IF device
         THEN post' = [post EXCEPT ![p] = [at |-> "checked", session |-> uploader.session,
                                           seq |-> uploader.seq + 1, number |-> 0]]
         ELSE Finish(p)
    /\ UNCHANGED <<device, latest, writes, announced, sockVars, listening, askVars, del>>

\* The relay client is started again: a new session id, sequences from one.
RestartUploader ==
    /\ uploader.session < MaxUploaders
    /\ uploader' = [session |-> uploader.session + 1, seq |-> 0]
    /\ UNCHANGED <<device, latest, writes, announced, post, sockVars, listening, askVars, del>>

\* Sequences rise within a session; a snapshot of another session always replaces.
Accept(p) == latest = NoSnapshot \/ latest.session # post[p].session \/ post[p].seq > latest.seq

CacheSnapshot(p) ==
    /\ post[p].at = "checked"
    /\ IF Accept(p)
         THEN /\ writes' = writes + 1
              /\ latest' = [session |-> post[p].session, seq |-> post[p].seq,
                           number |-> writes + 1]
              /\ post' = [post EXCEPT ![p].at = "cached", ![p].number = writes + 1]
              /\ announced' = FALSE
         ELSE Finish(p) /\ UNCHANGED <<writes, latest, announced>>
    /\ UNCHANGED <<device, uploader, sockVars, listening, askVars, del>>

RouteSnapshot(p) ==
    /\ post[p].at = "cached"
    /\ Broadcast(post[p].number)
    /\ announced' = (announced \/ (latest # NoSnapshot /\ latest.number = post[p].number))
    /\ Finish(p)
    /\ UNCHANGED <<device, latest, writes, uploader, sock, sent, listening, askVars, del>>

\* The uploader timed out or was stopped: the handler ends at its next await.
PostDropped(p) ==
    /\ post[p].at \in {"checked", "cached"}
    /\ Finish(p)
    /\ UNCHANGED <<device, latest, writes, announced, uploader, sockVars, listening, askVars, del>>

-----------------------------------------------------------------------------
(* The phone's websocket: device_ws and device_socket.                     *)

Move(s, place) == sock' = [sock EXCEPT ![s] = place]
\* The task returns and its receiver goes.
End(s) ==
    /\ Move(s, "ended")
    /\ queue' = [queue EXCEPT ![s] = <<>>]
    /\ lagged' = lagged \ {s} /\ listening' = listening \ {s}
    /\ sent' = [sent EXCEPT ![s] = 0]

Authorize(s) ==
    /\ sock[s] = "idle" /\ device
    /\ Move(s, "authorized")
    /\ UNCHANGED <<device, uploadVars, queue, lagged, sent, listening, askVars, del>>

\* After the hello: the channel is made if need be and subscribed to.
Subscribe(s) ==
    /\ sock[s] = "authorized"
    /\ listening' = listening \cup {s}
    /\ Move(s, "subscribed")
    /\ UNCHANGED <<device, uploadVars, queue, lagged, sent, askVars, del>>

Forward(s, number) == sent' = [sent EXCEPT ![s] = IF number > @ THEN number ELSE @]
ForwardCached(s) == IF latest = NoSnapshot THEN UNCHANGED sent ELSE Forward(s, latest.number)

\* Bug: the snapshot to start with is left to the next upload.
SkipLatest(s) ==
    /\ sock[s] = "subscribed"
    /\ Move(s, "top")
    /\ UNCHANGED <<device, uploadVars, queue, lagged, sent, listening, askVars, del>>
SendLatest(s) ==
    /\ sock[s] = "subscribed"
    /\ ForwardCached(s)
    /\ Move(s, "top")
    /\ UNCHANGED <<device, uploadVars, queue, lagged, listening, askVars, del>>

\* Bug: the record is looked up once, before the loop.
LoopTopUnchecked(s) ==
    /\ sock[s] = "top"
    /\ Move(s, "select")
    /\ UNCHANGED <<device, uploadVars, queue, lagged, sent, listening, askVars, del>>
\* Every turn of the loop starts with device_exists.
LoopTop(s) ==
    /\ sock[s] = "top"
    /\ IF device THEN Move(s, "select") /\ UNCHANGED <<queue, lagged, sent, listening>> ELSE End(s)
    /\ UNCHANGED <<device, uploadVars, askVars, del>>

Receive(s) ==
    /\ sock[s] = "select" /\ s \notin lagged /\ queue[s] # <<>>
    /\ IF Head(queue[s]) = Revoked
         THEN End(s)
         ELSE /\ Move(s, "top") /\ Forward(s, Head(queue[s]))
              /\ queue' = [queue EXCEPT ![s] = Tail(@)]
              /\ UNCHANGED <<lagged, listening>>
    /\ UNCHANGED <<device, uploadVars, askVars, del>>

ReceiveLagged(s) ==
    /\ sock[s] = "select" /\ s \in lagged
    /\ lagged' = lagged \ {s}
    /\ ForwardCached(s)
    /\ Move(s, "top")
    /\ UNCHANGED <<device, uploadVars, queue, listening, askVars, del>>

\* The heartbeat, or a frame of the phone that asks for nothing of this module.
Heartbeat(s) ==
    /\ sock[s] = "select"
    /\ Move(s, "top")
    /\ UNCHANGED <<device, uploadVars, queue, lagged, sent, listening, askVars, del>>

\* No send of device_socket has a timeout: the HelloAck, a snapshot, a Ping, a routed message or
\* the Revoked of the loop's top waits for as long as the phone does not read and stays connected.
\* A send that ends is part of the step that makes it.
SocketStuck(s) ==
    /\ sock[s] \in {"subscribed", "top", "select"}
    /\ Move(s, "stuck")
    /\ UNCHANGED <<device, uploadVars, queue, lagged, sent, listening, askVars, del>>

\* The phone went away, sent a bad hello or was idle for WS_IDLE_TIMEOUT.
SocketLost(s) ==
    /\ sock[s] \in {"authorized", "subscribed", "select", "stuck"}
    /\ End(s)
    /\ UNCHANGED <<device, uploadVars, askVars, del>>

-----------------------------------------------------------------------------
(* Revocation by the phone: request_desktop_revoke, complete_revoke and    *)
(* finalize_device_revoke.                                                 *)

Step(c, place) == ask' = [ask EXCEPT ![c] = place]

\* The phone asks; the desktop's route is cloned and a slot is taken, or the call fails.
RevokeSelf(c) ==
    /\ ask[c] = "idle" /\ device
    /\ IF desktopOnline /\ Cardinality(revokeConnections) < MaxPendingRevokes
         THEN revokeConnections' = revokeConnections \cup {c} /\ Step(c, "pended")
         ELSE Step(c, "failed") /\ UNCHANGED revokeConnections
    /\ UNCHANGED <<device, uploadVars, sockVars, listening, desktopOnline, asked, stale, del>>

RevokeSend(c) ==
    /\ ask[c] = "pended"
    /\ IF c \in stale
         THEN revokeConnections' = revokeConnections \ {c} /\ Step(c, "failed") /\ UNCHANGED asked
         ELSE asked' = asked \cup {c} /\ Step(c, "waiting") /\ UNCHANGED revokeConnections
    /\ stale' = stale \ {c}
    /\ UNCHANGED <<device, uploadVars, sockVars, listening, desktopOnline, del>>

\* RevokeResult or RevokeError of the desktop: complete_revoke.
DesktopAnswers(c) ==
    /\ c \in asked /\ asked' = asked \ {c}
    /\ revokeConnections' = revokeConnections \ {c}
    /\ IF c \in revokeConnections /\ ask[c] = "waiting"
         THEN Step(c, "agreed") \/ Step(c, "failed")
         ELSE UNCHANGED ask
    /\ UNCHANGED <<device, uploadVars, sockVars, listening, desktopOnline, stale, del>>

RevokeTimeout(c) ==
    /\ ask[c] = "waiting" /\ Step(c, "expired")
    /\ UNCHANGED <<device, uploadVars, sockVars, listening, waitVars, del>>

\* Bug: the slot is left for the desktop's late answer.
RevokeGiveUpKeepingSlot(c) ==
    /\ ask[c] = "expired"
    /\ Step(c, "failed")
    /\ UNCHANGED <<device, uploadVars, sockVars, listening, waitVars, del>>
RevokeGiveUp(c) ==
    /\ ask[c] = "expired"
    /\ revokeConnections' = revokeConnections \ {c}
    /\ Step(c, "failed")
    /\ UNCHANGED <<device, uploadVars, sockVars, listening, desktopOnline, asked, stale, del>>

\* The phone hangs up: the HTTPS handler's future is dropped wherever it waits.
HangUp(c) ==
    /\ ask[c] \notin {"idle", "done", "failed", "gone"}
    /\ Step(c, "gone")
    /\ UNCHANGED <<device, uploadVars, sockVars, listening, waitVars, del>>

FinalizeSnapshot(c) ==
    /\ ask[c] = "agreed"
    /\ latest' = NoSnapshot
    /\ Step(c, "unsnapped")
    /\ UNCHANGED <<device, writes, announced, uploader, post, sockVars, listening, waitVars, del>>

\* revoke_device_record: removed and saved, or put back when the save fails.
FinalizeRecord(c) ==
    /\ ask[c] = "unsnapped"
    /\ \/ device' = FALSE /\ Step(c, "unrecorded")
       \/ device /\ Step(c, "failed") /\ UNCHANGED device
    /\ UNCHANGED <<uploadVars, sockVars, listening, waitVars, del>>

FinalizeTell(c) ==
    /\ ask[c] = "unrecorded"
    /\ Broadcast(Revoked)
    /\ Step(c, "told")
    /\ UNCHANGED <<device, uploadVars, sock, sent, listening, waitVars, del>>

FinalizeChannel(c) ==
    /\ ask[c] = "told"
    /\ listening' = {}
    /\ Step(c, "done")
    /\ UNCHANGED <<device, uploadVars, sockVars, waitVars, del>>

\* The desktop's session ends: its unanswered messages are lost and clones of its route stale.
DesktopLeaves ==
    /\ desktopOnline /\ desktopOnline' = FALSE /\ asked' = {}
    /\ stale' = stale \cup {c \in Callers : ask[c] = "pended"}
    /\ UNCHANGED <<device, uploadVars, sockVars, listening, ask, revokeConnections, del>>

-----------------------------------------------------------------------------
(* Revocation by the desktop: revoke_device.  Nobody is told; the sockets  *)
(* hold a sender of their own, so dropping the entry does not close them.  *)

DeleteRecord(d) ==
    /\ del[d] = "idle" /\ device' = FALSE
    /\ del' = [del EXCEPT ![d] = "unrecorded"]
    /\ UNCHANGED <<uploadVars, sockVars, listening, askVars>>

DeleteSnapshot(d) ==
    /\ del[d] = "unrecorded" /\ latest' = NoSnapshot
    /\ del' = [del EXCEPT ![d] = "unsnapped"]
    /\ UNCHANGED <<device, writes, announced, uploader, post, sockVars, listening, askVars>>

DeleteChannel(d) ==
    /\ del[d] = "unsnapped" /\ listening' = {}
    /\ del' = [del EXCEPT ![d] = "done"]
    /\ UNCHANGED <<device, uploadVars, sockVars, askVars>>

\* The desktop could not save its own list after the DELETE and authorizes the same id again.
Reauthorize(d) ==
    /\ del[d] = "done" /\ device' = TRUE
    /\ del' = [del EXCEPT ![d] = "undone"]
    /\ UNCHANGED <<uploadVars, sockVars, listening, askVars>>

-----------------------------------------------------------------------------
PostStep(p) == Upload(p) \/ CacheSnapshot(p) \/ RouteSnapshot(p) \/ PostDropped(p)

SocketTask(s) == Subscribe(s) \/ SendLatest(s) \/ LoopTop(s) \/ Receive(s) \/ ReceiveLagged(s) \/ Heartbeat(s)

RevokeTask(c) == RevokeSend(c) \/ RevokeTimeout(c) \/ RevokeGiveUp(c)
                 \/ FinalizeSnapshot(c) \/ FinalizeRecord(c) \/ FinalizeTell(c) \/ FinalizeChannel(c)

DeleteTask(d) == DeleteRecord(d) \/ DeleteSnapshot(d) \/ DeleteChannel(d) \/ Reauthorize(d)

FeedNext ==
    \/ Expire \/ RestartUploader \/ DesktopLeaves
    \/ \E p \in Posts : PostStep(p)
    \/ \E s \in Sockets : Authorize(s) \/ SocketTask(s) \/ SocketStuck(s) \/ SocketLost(s)
    \/ \E c \in Callers : RevokeSelf(c) \/ DesktopAnswers(c) \/ HangUp(c) \/ RevokeTask(c)
    \/ \E d \in Deletes : DeleteTask(d)

\* A websocket's task runs on, for the heartbeat ticks every 15 s, until a send gets stuck.
FeedFairness == \A s \in Sockets : WF_feedVars(SocketTask(s))

FeedSpec == FeedInit /\ [][FeedNext]_feedVars /\ FeedFairness

-----------------------------------------------------------------------------
\* No revocation has dropped the phone's entry of device_channels so far.
EntryKept ==
    /\ \A c \in Callers : ask[c] # "done"
    /\ \A d \in Deletes : del[d] \notin {"done", "undone"}

\* A snapshot that was cached and sent to the phone's channel is not missed by a socket: one
\* that waits with nothing queued has forwarded the cached snapshot, whether it connected
\* before, during or after the upload or lost messages in between.  The one exception is a
\* socket whose entry was dropped by a revocation: should the desktop take that back before the
\* socket notices, it stays on a channel that no upload reaches any more.
NoSnapshotMissed ==
    \A s \in Sockets :
        /\ sock[s] = "select" /\ queue[s] = <<>> /\ s \notin lagged
        /\ s \in listening \/ EntryKept
        /\ latest # NoSnapshot /\ announced
        => sent[s] = latest.number

\* revoke_connections holds no key but of a caller that will still remove it, or of an HTTPS
\* phone that hung up while it waited.
RevokeSlotHasOwner ==
    \A c \in revokeConnections :
        ask[c] \in {"pended", "waiting", "expired"} \/ ask[c] = "gone"

\* Once the phone's record is gone every websocket of the phone ends, whichever way it was
\* revoked and wherever the websocket was then, unless the desktop authorizes the phone again or
\* the phone stays connected and never takes a message that is being sent.
RevokedSocketEnds ==
    \A s \in Sockets : ~device ~> device \/ sock[s] \in {"idle", "ended", "stuck"}
=============================================================================
