------------------------------ MODULE McpStream ------------------------------
(***************************************************************************)
(* One proxied MCP call over the protocol-v2 websocket, from the public    *)
(* HTTP client to the local bridge and back: the gateway's upload task,    *)
(* receive loop and response body (relay-server/src/mcp_gateway.rs) and    *)
(* the desktop's session loop and local_request job                        *)
(* (src-tauri/src/https_mcp_wss.rs).                                       *)
(*                                                                         *)
(* All queues are bounded.  Body bytes are counted in chunks.  The call    *)
(* starts when its request frame is in the outgoing queue (McpGateway      *)
(* models how it gets there).                                              *)
(***************************************************************************)
EXTENDS Integers, Sequences

CONSTANTS
    UploadSize,     \* chunks of the request body
    MaxResponse,    \* MAX_RESPONSE_BYTES, in chunks
    ReplyCap,       \* capacity of the request's Reply channel
    UpCap,          \* websocket queue and wire towards the desktop
    DownCap,        \* websocket queue and wire towards the gateway
    BodyCap         \* capacity of the desktop's upload channel

ASSUME McpStreamAssumption ==
    /\ UploadSize \in Nat
    /\ MaxResponse \in Nat
    /\ ReplyCap \in Nat \ {0}
    /\ UpCap \in Nat \ {0}
    /\ DownCap \in Nat \ {0}
    /\ BodyCap \in Nat \ {0}

VARIABLES
    reader,     \* public_request: waits for the head, streams the body, is over
    delivered,  \* response chunks the HTTP client was given
    polled,     \* hyper polls the response body: the client takes what it is sent
    replies,    \* the Reply channel
    entry,      \* the request is in Gateway.pending
    errored,    \* Pending.errored
    inHand,     \* the Reply that receive() decoded and has not yet sent
    received,   \* Pending.bytes
    upload,     \* stream_upload
    sent,       \* request chunks put on the websocket
    cancel,     \* what became of the guard's request_cancel
    session,    \* the gateway's socket_loop
    up, down,   \* frames under way in either direction
    desk,       \* the desktop's session() is running
    link,       \* whether the two session loops can get back to their select
    slot,       \* the request is in the desktop's uploads map
    body,       \* request chunks in the desktop's upload channel
    job,        \* local_request
    listening,  \* the local HTTP connection still holds the upload receiver
    consumed,   \* request chunks the local bridge read
    eof,        \* the local bridge saw the end of the request body
    produced,   \* response chunks the job put on the websocket
    whole,      \* the job sent its end frame
    apology     \* the spawned retry of the desktop's error frame

vars == <<reader, delivered, polled, replies, entry, errored, inHand, received,
          upload, sent, cancel, session, up, down, desk, link, slot, body, job,
          listening, consumed, eof, produced, whole, apology>>

readerVars == <<reader, delivered, polled>>
entryVars == <<entry, errored, inHand, received>>
uploadVars == <<upload, sent, cancel>>
bodyVars == <<slot, body, listening, consumed, eof>>
jobVars == <<job, produced, whole, apology>>
deskVars == <<desk, link, bodyVars, jobVars>>
gatewayVars == <<readerVars, replies, entryVars, uploadVars, session>>

Nothing == "nothing"
Frame == {"head", "chunk", "end", "error"}
UpFrame == {"request", "body", "request_end", "request_cancel"}
Reading == reader \in {"head", "body"}
Running == job \in {"open", "streaming", "failing"}
HasRoom(q, cap) == Len(q) < cap

-----------------------------------------------------------------------------
(* The gateway's upload task.                                               *)

UploadChunk ==
    /\ upload = "streaming"
    /\ sent < UploadSize
    /\ session # "closed"
    /\ HasRoom(up, UpCap)
    /\ up' = Append(up, "body")
    /\ sent' = sent + 1
    /\ UNCHANGED <<readerVars, replies, entryVars, upload, cancel, session, down, deskVars>>

UploadEnd ==
    /\ upload = "streaming"
    /\ sent = UploadSize
    /\ session # "closed"
    /\ HasRoom(up, UpCap)
    /\ up' = Append(up, "request_end")
    /\ upload' = "done"
    /\ UNCHANGED <<readerVars, replies, entryVars, sent, cancel, session, down, deskVars>>

\* The client's body fails or exceeds the limit: no request_end is sent.
UploadInterrupted ==
    /\ upload = "streaming"
    /\ upload' = "reporting"
    /\ UNCHANGED <<readerVars, replies, entryVars, sent, cancel, session, up, down, deskVars>>

UploadReport ==
    /\ upload = "reporting"
    /\ HasRoom(replies, ReplyCap)
    /\ replies' = Append(replies, "upload_failed")
    /\ upload' = "done"
    /\ UNCHANGED <<readerVars, entryVars, sent, cancel, session, up, down, deskVars>>

\* The websocket queue is closed under the task.
UploadStops ==
    /\ upload = "streaming"
    /\ session = "closed"
    /\ upload' = "done"
    /\ UNCHANGED <<readerVars, replies, entryVars, sent, cancel, session, up, down, deskVars>>

-----------------------------------------------------------------------------
(* Gateway::receive and fail_session.                                       *)

\* The section under the pending lock.
ReceiveFrame ==
    /\ session = "open" /\ link = "moving"
    /\ inHand = Nothing
    /\ down # <<>>
    /\ down' = Tail(down)
    /\ LET frame == Head(down)
           over == frame = "chunk" /\ received >= MaxResponse
           answer == IF over THEN "error" ELSE frame
       IN IF entry
            THEN /\ inHand' = answer
                 /\ received' = IF answer = "chunk" THEN received + 1 ELSE received
                 /\ errored' = (errored \/ answer = "error")
                 /\ entry' = (answer \notin {"end", "error"})
            ELSE UNCHANGED entryVars
    /\ UNCHANGED <<readerVars, replies, uploadVars, session, up, deskVars>>

\* Bug: a full queue loses the reply and nobody hears of it.
DeliverQuietly ==
    /\ inHand # Nothing
    /\ inHand' = Nothing
    /\ IF Reading /\ HasRoom(replies, ReplyCap)
         THEN /\ replies' = Append(replies, inHand)
              /\ UNCHANGED entry
         ELSE /\ entry' = FALSE
              /\ UNCHANGED replies
    /\ UNCHANGED <<readerVars, errored, received, uploadVars, session, up, down, deskVars>>

\* tx.try_send(reply), after the lock is released.
Deliver ==
    /\ inHand # Nothing
    /\ inHand' = Nothing
    /\ IF Reading /\ HasRoom(replies, ReplyCap)
         THEN /\ replies' = Append(replies, inHand)
              /\ UNCHANGED <<entry, errored>>
         ELSE /\ errored' = TRUE
              /\ entry' = FALSE
              /\ UNCHANGED replies
    /\ UNCHANGED <<readerVars, received, uploadVars, session, up, down, deskVars>>

\* fail_session: the entry is removed, and Reply::Error sent if it fits.
FailEntry ==
    /\ entry' = FALSE
    /\ errored' = (errored \/ entry)
    /\ replies' = IF entry /\ HasRoom(replies, ReplyCap)
                    THEN Append(replies, "error") ELSE replies
    /\ UNCHANGED <<inHand, received>>

\* Another task replaced or revoked the session.
Retire ==
    /\ session = "open"
    /\ entry
    /\ FailEntry
    /\ UNCHANGED <<readerVars, uploadVars, session, up, down, deskVars>>

\* socket_loop breaks; a receive() in progress has no await before its send.
SessionLost ==
    /\ session = "open"
    /\ inHand = Nothing
    /\ session' = "leaving"
    /\ UNCHANGED <<readerVars, replies, entryVars, uploadVars, up, down, deskVars>>

\* disconnect(), and the queue goes away with the loop.
Disconnect ==
    /\ session = "leaving"
    /\ FailEntry
    /\ session' = "closed"
    /\ UNCHANGED <<readerVars, uploadVars, up, down, deskVars>>

-----------------------------------------------------------------------------
(* public_request after the dispatch, and its response body.                *)

\* The response is over: PendingGuard::drop aborts the upload, removes the
\* entry and, unless End was read, tells the desktop to stop.
\* (The upload task may put one more frame on the queue before its abort takes
\* effect, behind the cancellation, where the desktop ignores it.)
DropGuard(state, finished) ==
    /\ reader' = state
    /\ entry' = FALSE
    /\ upload' = "done"
    /\ IF finished \/ session = "closed"
         THEN UNCHANGED <<up, cancel>>
         ELSE IF HasRoom(up, UpCap)
         THEN up' = Append(up, "request_cancel") /\ cancel' = "sent"
         ELSE cancel' = "retrying" /\ UNCHANGED up
    /\ UNCHANGED <<errored, inHand, received, sent, session, down, deskVars>>

ReadHead ==
    /\ reader = "head"
    /\ replies # <<>>
    /\ replies' = Tail(replies)
    /\ IF Head(replies) = "head"
         THEN /\ reader' = "body"
              /\ UNCHANGED <<entryVars, uploadVars, session, up, down, deskVars>>
         ELSE DropGuard("failed", FALSE)
    /\ UNCHANGED <<delivered, polled>>

ReadBody ==
    /\ reader = "body" /\ polled
    /\ replies # <<>>
    /\ replies' = Tail(replies)
    /\ CASE Head(replies) = "chunk" ->
                /\ delivered' = delivered + 1
                /\ UNCHANGED <<reader, entryVars, uploadVars, session, up, down, deskVars>>
         [] Head(replies) = "end" ->
                /\ DropGuard("complete", TRUE)
                /\ UNCHANGED delivered
         [] OTHER ->
                /\ DropGuard("failed", FALSE)
                /\ UNCHANGED delivered
    /\ UNCHANGED polled

\* rx.recv() gives None once every sender is gone and the queue is empty.
ReadClosed ==
    /\ Reading /\ polled
    /\ replies = <<>>
    /\ ~entry /\ inHand = Nothing /\ upload = "done"
    /\ DropGuard(IF reader = "body" /\ ~errored THEN "complete" ELSE "failed", FALSE)
    /\ UNCHANGED <<delivered, polled, replies>>

\* PUBLIC_HEAD_TIMEOUT, and PUBLIC_CHUNK_TIMEOUT, which is inside the body's
\* stream and runs only while that is polled.
ReadTimeout ==
    /\ Reading /\ polled
    /\ replies = <<>>
    /\ DropGuard("failed", FALSE)
    /\ UNCHANGED <<delivered, polled, replies>>

\* The client goes away and hyper drops the response.
ClientLeaves ==
    /\ Reading
    /\ DropGuard("failed", FALSE)
    /\ UNCHANGED <<delivered, polled, replies>>

\* The client stays and never again takes what it is sent (one that only
\* pauses is a slow one).
ClientStalls ==
    /\ reader = "body" /\ polled
    /\ polled' = FALSE
    /\ UNCHANGED <<reader, delivered, replies, entryVars, uploadVars, session, up, down, deskVars>>

\* Retried for five seconds when the queue was full.
CancelRetry ==
    /\ cancel = "retrying"
    /\ \/ /\ session # "closed"
          /\ HasRoom(up, UpCap)
          /\ up' = Append(up, "request_cancel")
          /\ cancel' = "sent"
       \/ /\ cancel' = "lost"
          /\ UNCHANGED up
    /\ UNCHANGED <<readerVars, replies, entryVars, upload, sent, session, down, deskVars>>

-----------------------------------------------------------------------------
(* The desktop's session loop.                                              *)

TakeUp(frame) ==
    /\ desk /\ link = "moving"
    /\ up # <<>>
    /\ Head(up) = frame
    /\ up' = Tail(up)

\* task.abort(): the job is not polled again.  The local HTTP connection is a
\* task of hyper's own, which notices later (BridgeStopsReading).
AbortJob ==
    /\ job' = IF Running THEN "aborted" ELSE job
    /\ UNCHANGED listening

DeskRequest ==
    /\ TakeUp("request")
    /\ job' = "open"
    /\ slot' = TRUE
    /\ listening' = TRUE
    /\ UNCHANGED <<gatewayVars, down, desk, link, body, consumed, eof, produced, whole, apology>>

\* No permit is left: the request is refused.  The loop awaits a place in the
\* channel that only the loop itself empties: when the other calls have filled
\* it, the loop waits for itself, for ever.
DeskRefuse ==
    /\ TakeUp("request")
    /\ \/ /\ HasRoom(down, DownCap)
          /\ down' = Append(down, "error")
          /\ UNCHANGED link
       \/ /\ link' = "refusing"
          /\ UNCHANGED down
    /\ UNCHANGED <<gatewayVars, desk, bodyVars, jobVars>>

\* Bug: a chunk that does not fit is dropped and the upload goes on.
DeskBodyLossy ==
    /\ TakeUp("body")
    /\ body' = IF slot /\ listening /\ body < BodyCap THEN body + 1 ELSE body
    /\ UNCHANGED <<gatewayVars, down, desk, link, slot, listening, consumed, eof, jobVars>>

\* enqueue_upload
DeskBody ==
    /\ TakeUp("body")
    /\ IF ~slot THEN UNCHANGED <<bodyVars, jobVars, down>>
       ELSE IF ~listening
         THEN /\ slot' = FALSE
              /\ UNCHANGED <<body, listening, consumed, eof, jobVars, down>>
       ELSE IF body < BodyCap
         THEN /\ body' = body + 1
              /\ UNCHANGED <<slot, listening, consumed, eof, jobVars, down>>
       ELSE /\ slot' = FALSE
            /\ AbortJob
            /\ IF HasRoom(down, DownCap)
                 THEN down' = Append(down, "error") /\ UNCHANGED apology
                 ELSE apology' = "retrying" /\ UNCHANGED down
            /\ UNCHANGED <<body, consumed, eof, produced, whole>>
    /\ UNCHANGED <<gatewayVars, desk, link>>

DeskEnd ==
    /\ TakeUp("request_end")
    /\ slot' = FALSE
    /\ UNCHANGED <<gatewayVars, down, desk, link, body, listening, consumed, eof, jobVars>>

\* Bug: the upload is closed and the job is left running.
DeskCancelUploadOnly ==
    /\ TakeUp("request_cancel")
    /\ slot' = FALSE
    /\ UNCHANGED <<gatewayVars, down, desk, link, body, listening, consumed, eof, jobVars>>

DeskCancel ==
    /\ TakeUp("request_cancel")
    /\ slot' = FALSE
    /\ AbortJob
    /\ UNCHANGED <<gatewayVars, down, desk, link, body, consumed, eof, produced, whole, apology>>

ApologyRetry ==
    /\ apology = "retrying"
    /\ apology' = Nothing
    /\ \/ desk /\ HasRoom(down, DownCap) /\ down' = Append(down, "error")
       \/ UNCHANGED down
    /\ UNCHANGED <<gatewayVars, up, desk, link, bodyVars, job, produced, whole>>

\* Each loop awaits a send inside an arm of its select, with no timeout, and
\* reads nothing meanwhile.  A send that only takes long is a slow loop; when
\* both connections' buffers are full and both loops send, none of them ends.
Jam ==
    /\ desk /\ session = "open" /\ link = "moving"
    /\ inHand = Nothing
    /\ link' = "jammed"
    /\ UNCHANGED <<gatewayVars, up, down, desk, bodyVars, jobVars>>

\* session() returns: Jobs aborts what runs, and only the frames that were
\* already on the wire can still arrive.
DeskGone ==
    /\ desk /\ link # "refusing"
    /\ desk' = FALSE
    /\ slot' = FALSE
    /\ AbortJob
    /\ \E n \in 0..Len(down) : down' = SubSeq(down, 1, n)
    /\ UNCHANGED <<gatewayVars, up, link, body, consumed, eof, produced, whole, apology>>

-----------------------------------------------------------------------------
(* local_request and the local bridge.                                      *)

Tell(frame) ==
    /\ desk
    /\ HasRoom(down, DownCap)
    /\ down' = Append(down, frame)

BridgeReads ==
    /\ listening
    /\ body > 0
    /\ body' = body - 1
    /\ consumed' = consumed + 1
    /\ UNCHANGED <<gatewayVars, up, down, desk, link, slot, listening, eof, jobVars>>

\* The channel is empty and its sender is gone: hyper ends the chunked body,
\* whether request_end or a cancellation removed the sender.
BridgeSeesEnd ==
    /\ listening
    /\ body = 0 /\ ~slot
    /\ eof' = TRUE
    /\ listening' = FALSE
    /\ UNCHANGED <<gatewayVars, up, down, desk, link, slot, body, consumed, jobVars>>

\* The bridge answers without reading the rest of the body, or hyper notices
\* that the job is gone and closes the connection in the middle of the body.
BridgeStopsReading ==
    /\ listening
    /\ listening' = FALSE
    /\ UNCHANGED <<gatewayVars, up, down, desk, link, slot, body, consumed, eof, jobVars>>

JobHead ==
    /\ job = "open"
    /\ Tell("head")
    /\ job' = "streaming"
    /\ UNCHANGED <<gatewayVars, up, desk, link, bodyVars, produced, whole, apology>>

JobChunk ==
    /\ job = "streaming"
    /\ produced < MaxResponse
    /\ Tell("chunk")
    /\ produced' = produced + 1
    /\ UNCHANGED <<gatewayVars, up, desk, link, bodyVars, job, whole, apology>>

JobEnd ==
    /\ job = "streaming"
    /\ Tell("end")
    /\ job' = "done"
    /\ whole' = TRUE
    /\ UNCHANGED <<gatewayVars, up, desk, link, bodyVars, produced, apology>>


\* The bridge is unreachable, breaks off, exceeds the limit or times out.
JobFails ==
    /\ job \in {"open", "streaming"}
    /\ job' = "failing"
    /\ UNCHANGED <<gatewayVars, up, down, desk, link, bodyVars, produced, whole, apology>>

JobError ==
    /\ job = "failing"
    /\ Tell("error")
    /\ job' = "done"
    /\ UNCHANGED <<gatewayVars, up, desk, link, bodyVars, produced, whole, apology>>

-----------------------------------------------------------------------------
Init ==
    /\ reader = "head" /\ delivered = 0 /\ polled = TRUE
    /\ replies = <<>>
    /\ entry = TRUE /\ errored = FALSE /\ inHand = Nothing /\ received = 0
    /\ upload = "streaming" /\ sent = 0 /\ cancel = Nothing
    /\ session = "open"
    /\ up = <<"request">> /\ down = <<>>
    /\ desk = TRUE /\ link = "moving"
    /\ slot = FALSE /\ body = 0 /\ listening = FALSE /\ consumed = 0 /\ eof = FALSE
    /\ job = "none" /\ produced = 0 /\ whole = FALSE /\ apology = Nothing

UploadNext == UploadChunk \/ UploadEnd \/ UploadInterrupted \/ UploadReport \/ UploadStops
SessionNext == ReceiveFrame \/ Deliver \/ Retire \/ SessionLost \/ Disconnect
ReaderNext ==
    \/ ReadHead \/ ReadBody \/ ReadClosed \/ ReadTimeout
    \/ ClientLeaves \/ ClientStalls \/ CancelRetry
DeskNext ==
    \/ DeskRequest \/ DeskRefuse \/ DeskBody \/ DeskEnd \/ DeskCancel
    \/ ApologyRetry \/ Jam \/ DeskGone
BridgeNext == BridgeReads \/ BridgeSeesEnd \/ BridgeStopsReading
JobNext == JobHead \/ JobChunk \/ JobEnd \/ JobFails \/ JobError

Next ==
    \/ UploadNext \/ SessionNext \/ ReaderNext
    \/ DeskNext \/ BridgeNext \/ JobNext

Spec == Init /\ [][Next]_vars

\* Tasks are scheduled and timers fire: the reader's and the job's timeouts,
\* and the heartbeats by which each end notices that the other is gone.
\* Nothing is assumed of the client, the bridge or the network.
Fairness ==
    /\ WF_vars(ReceiveFrame \/ Deliver)
    /\ WF_vars(~desk /\ SessionLost)
    /\ WF_vars(Disconnect)
    /\ WF_vars(ReadHead \/ ReadBody \/ ReadClosed \/ ReadTimeout)
    /\ WF_vars(CancelRetry)
    /\ WF_vars(DeskRequest \/ DeskRefuse \/ DeskBody \/ DeskEnd \/ DeskCancel)
    /\ WF_vars(session # "open" /\ DeskGone)
    /\ WF_vars(JobFails)
    /\ WF_vars(JobError)

FairSpec == Spec /\ Fairness

-----------------------------------------------------------------------------
(* Properties.                                                              *)

\* Every variable has its type and every queue its bound.
TypeOK ==
    /\ reader \in {"head", "body", "complete", "failed"}
    /\ replies \in Seq(Frame \cup {"upload_failed"}) /\ Len(replies) <= ReplyCap
    /\ up \in Seq(UpFrame) /\ Len(up) <= UpCap
    /\ down \in Seq(Frame) /\ Len(down) <= DownCap
    /\ inHand \in Frame \cup {Nothing}
    /\ upload \in {"streaming", "reporting", "done"}
    /\ session \in {"open", "leaving", "closed"}
    /\ link \in {"moving", "jammed", "refusing"}
    /\ job \in {"none", "open", "streaming", "failing", "done", "aborted"}
    /\ {entry, errored, polled, desk, slot, listening, eof, whole} \subseteq BOOLEAN
    /\ cancel \in {Nothing, "sent", "retrying", "lost"}
    /\ apology \in {Nothing, "retrying"}
    /\ delivered \in Nat /\ received \in 0..MaxResponse /\ produced \in 0..MaxResponse
    /\ sent \in 0..UploadSize /\ consumed \in 0..UploadSize /\ body \in 0..BodyCap

\* receive()'s comments: "A slow HTTP consumer must never result in silent
\* truncated 200 responses".  A response that ends without an error is the
\* whole response of the bridge, whichever queue was full and whichever
\* session was retired meanwhile.
NoSilentTruncation ==
    reader = "complete" => whole /\ delivered = produced

\* A request body that was interrupted, cancelled or did not fit can look whole
\* to the bridge, because its channel is closed before the local connection
\* is; but then its job is over, and nothing the bridge says to such a body is
\* ever relayed.
CutUploadUnanswered ==
    eof /\ consumed < UploadSize => ~Running

\* A job that still runs after its request is over has been told to stop, or
\* is being told: the cancellation is on its way, or was given up because
\* the queue stayed full for five seconds.
CancelReachesJob ==
    reader = "failed" /\ Running /\ desk /\ session = "open" =>
        \/ \E i \in 1..Len(up) : up[i] = "request_cancel"
        \/ cancel \in {"retrying", "lost"}

=============================================================================
