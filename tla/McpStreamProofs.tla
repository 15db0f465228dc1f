--------------------------- MODULE McpStreamProofs ---------------------------
(***************************************************************************)
(* One proxied MCP call, for bodies of any length and queues of any        *)
(* capacity: a response that looks whole is whole, no running job answers  *)
(* an upload that only looks whole, and a job that nobody waits for has    *)
(* been told to stop.                                                      *)
(***************************************************************************)
EXTENDS McpStream, SequenceTheorems, TLAPS

\* The types of the state.  How much of the body the bridge can have read is left to Uploaded.
StreamTypes ==
    /\ reader \in {"head", "body", "complete", "failed"}
    /\ replies \in Seq(Frame \cup {"upload_failed"}) /\ Len(replies) <= ReplyCap
    /\ up \in Seq(UpFrame) /\ Len(up) <= UpCap
    /\ down \in Seq(Frame) /\ Len(down) <= DownCap
    /\ inHand \in Frame \cup {Nothing}
    /\ upload \in {"streaming", "reporting", "done"}
    /\ session \in {"open", "leaving", "closed"} /\ link \in {"moving", "jammed", "refusing"}
    /\ job \in {"none", "open", "streaming", "failing", "done", "aborted"}
    /\ polled \in BOOLEAN /\ entry \in BOOLEAN /\ errored \in BOOLEAN /\ desk \in BOOLEAN /\ slot \in BOOLEAN
    /\ listening \in BOOLEAN /\ eof \in BOOLEAN /\ whole \in BOOLEAN
    /\ cancel \in {Nothing, "sent", "retrying", "lost"}
    /\ apology \in {Nothing, "retrying"}
    /\ delivered \in Nat /\ received \in 0..MaxResponse /\ produced \in 0..MaxResponse
    /\ sent \in 0..UploadSize /\ consumed \in Nat /\ body \in 0..BodyCap

\* The request frame comes first, and nothing has happened on the desktop before it.
RequestFirst ==
    \A i \in 1..Len(up) : up[i] = "request" =>
        i = 1 /\ job = "none" /\ ~slot /\ ~listening /\ ~eof /\ body = 0 /\ consumed = 0

-----------------------------------------------------------------------------
\* The request frame has not been taken yet.
Waiting == Len(up) > 0 /\ up[1] = "request"

\* The chunks in the first n frames that are under way to the desktop.
Chunks(n) == IF Waiting THEN n - 1 ELSE n

\* The desktop takes the chunks of the upload, or has not seen its request yet.
Taking == (slot /\ listening) \/ Waiting

OnlyChunks(n) == \A j \in 1..n : up[j] \in {"request", "body"}

\* The job will never be polled again, or has nothing more to say.
Over == job \in {"aborted", "done"}

\* What the bridge read, what waits for it and what is under way add up to what was sent; at
\* the frame that ends the upload they add up to all of it.  An upload that ends with less was
\* cut, and its job is over.
Uploaded ==
    /\ consumed + body <= sent
    /\ cancel # Nothing => upload = "done"
    /\ upload = "streaming" => OnlyChunks(Len(up))
    /\ Taking => \A i \in 1..Len(up) : OnlyChunks(i) => consumed + body + Chunks(i) <= sent
    /\ Taking /\ upload = "streaming" => consumed + body + Chunks(Len(up)) = sent
    /\ \A i \in 1..Len(up) : up[i] = "request_end" =>
          /\ OnlyChunks(i - 1)
          /\ Taking => consumed + body + Chunks(i - 1) = UploadSize
    /\ listening => job # "none"
    /\ listening /\ ~slot => consumed + body = UploadSize \/ Over
    /\ eof => ~listening /\ (consumed = UploadSize \/ Over)

\* After a failure the job is being told to stop, or there is none and none will be.
Told ==
    reader = "failed" /\ session = "open" =>
        \/ cancel \in {"retrying", "lost"}
        \/ \E i \in 1..Len(up) : up[i] = "request_cancel"
        \/ ~Running /\ \A i \in 1..Len(up) : up[i] # "request"

-----------------------------------------------------------------------------
Plain(q, n) == \A j \in 1..n : q[j] \in {"head", "chunk"}

\* The frames of the response that the reader took, that receive() holds and that the job made.
Taken == IF reader = "head" THEN 0 ELSE delivered + 1
Held == IF inHand = Nothing THEN 0 ELSE 1
Made == IF job = "streaming" THEN produced + 1 ELSE 0

\* The reader waits, and all that is before the frames of down is frames of the response.
Flowing ==
    Reading /\ entry /\ Plain(replies, Len(replies)) /\ inHand \in {Nothing, "head", "chunk"}

\* The response is in the two queues, in receive() and with the reader, with nothing lost in
\* between; its end is behind all of it.
Responded ==
    /\ whole => job = "done"
    /\ job \in {"none", "open"} => produced = 0
    /\ reader = "head" => delivered = 0
    /\ inHand \in {"end", "error"} => ~entry
    /\ Flowing /\ desk /\ Plain(down, Len(down)) /\ job \in {"none", "open", "streaming"} =>
          Taken + Len(replies) + Held + Len(down) = Made
    /\ Flowing => \A i \in 1..Len(down) : down[i] = "end" /\ Plain(down, i - 1) =>
          whole /\ Taken + Len(replies) + Held + i = produced + 2
    /\ Reading /\ Plain(replies, Len(replies)) /\ inHand = "end" =>
          whole /\ Taken + Len(replies) = produced + 1
    /\ Reading => \A i \in 1..Len(replies) : replies[i] = "end" /\ Plain(replies, i - 1) =>
          whole /\ Taken + i = produced + 2
    /\ Reading /\ ~entry /\ ~errored => inHand = "end" \/ \E i \in 1..Len(replies) : replies[i] = "end"
    /\ reader = "complete" => whole /\ delivered = produced

StreamInv == StreamTypes /\ RequestFirst /\ Uploaded /\ Told /\ Responded

-----------------------------------------------------------------------------
(* Queues                                                                  *)

\* r is q with x behind it, and r is q without its first element.
Extended(q, x, r) == Len(r) = Len(q) + 1 /\ r[Len(r)] = x /\ \A i \in 1..Len(q) : r[i] = q[i]
Shortened(q, r) == Len(r) = Len(q) - 1 /\ \A i \in 1..Len(r) : r[i] = q[i + 1]

\* What it is to send a frame to a queue.
LEMMA SendExtends ==
    ASSUME NEW S, NEW q \in Seq(S), NEW x \in S
    PROVE  Append(q, x) \in Seq(S) /\ Extended(q, x, Append(q, x)) /\ Len(q) \in Nat
  BY AppendProperties, LenProperties DEF Extended

\* What it is to take a frame from a queue.
LEMMA TakeShortens ==
    ASSUME NEW S, NEW q \in Seq(S), q # <<>>
    PROVE  /\ Tail(q) \in Seq(S) /\ Shortened(q, Tail(q)) /\ Head(q) = q[1] /\ q[1] \in S
           /\ Len(q) \in Nat /\ Len(q) >= 1
<1>1. Len(q) \in Nat /\ Len(q) >= 1
  BY EmptySeq, LenProperties
<1>2. Tail(q) \in Seq(S) /\ Len(Tail(q)) = Len(q) - 1 /\ \A i \in 1..Len(Tail(q)) : Tail(q)[i] = q[i + 1]
  BY HeadTailProperties
<1>3. Head(q) = q[1] /\ q[1] \in S
  BY <1>1, ElementOfSeq
<1>q. QED BY <1>1, <1>2, <1>3 DEF Shortened

\* Frames that were on the wire when a session ended are the first ones of the queue.
LEMMA CutKeeps ==
    ASSUME NEW S, NEW q \in Seq(S), NEW n \in 0..Len(q)
    PROVE  SubSeq(q, 1, n) \in Seq(S) /\ Len(SubSeq(q, 1, n)) = n /\ \A i \in 1..n : SubSeq(q, 1, n)[i] = q[i]
<1>1. Len(q) \in Nat
  BY LenProperties
<1>2. \A i \in 1..n : q[i] \in S
  BY <1>1, ElementOfSeq
<1>q. QED BY <1>1, <1>2, SubSeqProperties

-----------------------------------------------------------------------------
(* Types                                                                   *)

\* PendingGuard::drop, whatever the outcome it is told of.
LEMMA GuardTypes ==
    ASSUME StreamTypes, NEW state \in {"complete", "failed"}, NEW finished \in BOOLEAN,
        DropGuard(state, finished),
           replies' \in Seq(Frame \cup {"upload_failed"}), Len(replies') <= ReplyCap,
           UNCHANGED <<delivered, polled>>
    PROVE  StreamTypes'
<1> USE McpStreamAssumption DEF StreamTypes
<1>1. /\ reader' = state /\ entry' = FALSE /\ upload' = "done"
      /\ UNCHANGED <<errored, inHand, received, sent, session, down, deskVars>>
  BY DEF DropGuard
<1>2. \/ UNCHANGED <<up, cancel>>
      \/ HasRoom(up, UpCap) /\ up' = Append(up, "request_cancel") /\ cancel' = "sent"
      \/ cancel' = "retrying" /\ UNCHANGED up
  BY Zenon DEF DropGuard
<1>3. up' \in Seq(UpFrame) /\ Len(up') <= UpCap /\ cancel' \in {Nothing, "sent", "retrying", "lost"}
  <2>1. CASE HasRoom(up, UpCap) /\ up' = Append(up, "request_cancel") /\ cancel' = "sent"
    BY <2>1, SendExtends DEF HasRoom, UpFrame, Extended
  <2>q. QED BY <1>2, <2>1
<1>4. UNCHANGED <<errored, inHand, received, sent, session, down, desk, link, slot, body, job, listening,
                  consumed, eof, produced, whole, apology>>
  BY <1>1 DEF deskVars, bodyVars, jobVars
<1>5. entry' \in BOOLEAN
  BY <1>1, Zenon
<1>q. QED BY <1>1, <1>3, <1>4, <1>5

\* The steps of the gateway keep the types.
LEMMA GatewayTypes ==
    ASSUME StreamTypes, UploadNext \/ SessionNext \/ ReaderNext
    PROVE  StreamTypes'
<1> USE McpStreamAssumption DEF StreamTypes, HasRoom, Extended, Shortened
<1> DEFINE Reply == Frame \cup {"upload_failed"}
<1>v. /\ \A x \in UpFrame : Append(up, x) \in Seq(UpFrame) /\ Len(Append(up, x)) = Len(up) + 1
      /\ \A x \in Reply : Append(replies, x) \in Seq(Reply) /\ Len(Append(replies, x)) = Len(replies) + 1
      /\ Len(up) \in Nat /\ Len(replies) \in Nat /\ Len(down) \in Nat
  BY SendExtends, LenProperties
<1>w. /\ replies # <<>> => Tail(replies) \in Seq(Reply) /\ Len(Tail(replies)) = Len(replies) - 1
      /\ down # <<>> => Tail(down) \in Seq(Frame) /\ Len(Tail(down)) = Len(down) - 1 /\ Head(down) \in Frame
  BY TakeShortens
<1> HIDE DEF Reply
<1>f. "body" \in UpFrame /\ "request_end" \in UpFrame /\ "request_cancel" \in UpFrame
          /\ "upload_failed" \in Reply
      /\ "error" \in Reply /\ Frame \subseteq Reply /\ "error" \in Frame /\ Nothing \notin Frame
  BY DEF UpFrame, Frame, Reply, Nothing
<1>1. CASE UploadChunk
  BY <1>1, <1>f, <1>v DEF UploadChunk, readerVars, entryVars, deskVars, bodyVars, jobVars
<1>2. CASE UploadEnd
  BY <1>2, <1>f, <1>v DEF UploadEnd, readerVars, entryVars, deskVars, bodyVars, jobVars
<1>3. CASE UploadInterrupted
  BY <1>3 DEF UploadInterrupted, readerVars, entryVars, deskVars, bodyVars, jobVars
<1>4. CASE UploadReport
  <2>1. /\ Len(replies) < ReplyCap /\ replies' = Append(replies, "upload_failed") /\ upload' = "done"
        /\ UNCHANGED <<readerVars, entryVars, sent, cancel, session, up, down, deskVars>>
    BY <1>4 DEF UploadReport
  <2>2. replies' \in Seq(Reply) /\ Len(replies') <= ReplyCap
    BY <1>f, <1>v, <2>1
  <2>q. QED BY <2>1, <2>2 DEF Reply, readerVars, entryVars, deskVars, bodyVars, jobVars
<1>5. CASE UploadStops
  BY <1>5 DEF UploadStops, readerVars, entryVars, deskVars, bodyVars, jobVars
<1>6. CASE ReceiveFrame
  <2>1. /\ down # <<>> /\ down' = Tail(down)
             /\ UNCHANGED <<readerVars, replies, uploadVars, session, up, deskVars>>
    BY <1>6, Zenon DEF ReceiveFrame
  <2>2. \/ UNCHANGED entryVars
        \/ \E answer \in Frame :
             /\ inHand' = answer /\ errored' = (errored \/ answer = "error")
             /\ entry' = (answer \notin {"end", "error"})
             /\ received' = received \/ (received' = received + 1 /\ received < MaxResponse)
    <3> DEFINE over == Head(down) = "chunk" /\ received >= MaxResponse
               answer == IF over THEN "error" ELSE Head(down)
    <3>1. /\ inHand' = answer /\ received' = (IF answer = "chunk" THEN received + 1 ELSE received)
          /\ errored' = (errored \/ answer = "error") /\ entry' = (answer \notin {"end", "error"})
          \/ UNCHANGED entryVars
      BY <1>6, Zenon DEF ReceiveFrame
    <3>2. answer \in Frame
      BY <1>f, <1>w, <2>1
    <3>3. answer = "chunk" => received < MaxResponse
      OBVIOUS
    <3>4. CASE UNCHANGED entryVars
      BY <3>4
    <3>5. CASE ~UNCHANGED entryVars
      BY <3>1, <3>2, <3>3, <3>5
    <3>q. QED BY <3>4, <3>5
  <2>3. inHand' \in Frame \cup {Nothing} /\ errored' \in BOOLEAN /\ entry' \in BOOLEAN
            /\ received' \in 0..MaxResponse
    <3>1. CASE UNCHANGED entryVars
      BY <3>1 DEF entryVars
    <3>2. CASE ~UNCHANGED entryVars
      <4>1. PICK answer \in Frame :
              /\ inHand' = answer /\ errored' = (errored \/ answer = "error")
              /\ entry' = (answer \notin {"end", "error"})
              /\ received' = received \/ (received' = received + 1 /\ received < MaxResponse)
        BY <2>2, <3>2
      <4>2. errored' \in BOOLEAN /\ entry' \in BOOLEAN
        BY <4>1, Zenon
      <4>q. QED BY <4>1, <4>2
    <3>q. QED BY <3>1, <3>2
  <2>q. QED BY <1>w, <2>1, <2>3 DEF readerVars, uploadVars, deskVars, bodyVars, jobVars
<1>7. CASE Deliver
  <2>1. /\ inHand # Nothing /\ inHand' = Nothing
        /\ UNCHANGED <<readerVars, received, uploadVars, session, up, down, deskVars>>
    BY <1>7, Zenon DEF Deliver
  <2>2. \/ Len(replies) < ReplyCap /\ replies' = Append(replies, inHand) /\ UNCHANGED <<entry, errored>>
        \/ errored' = TRUE /\ entry' = FALSE /\ UNCHANGED replies
    BY <1>7, Zenon DEF Deliver
  <2>3. replies' \in Seq(Reply) /\ Len(replies') <= ReplyCap /\ errored' \in BOOLEAN /\ entry' \in BOOLEAN
    <3>1. CASE Len(replies) < ReplyCap /\ replies' = Append(replies, inHand) /\ UNCHANGED <<entry, errored>>
      BY <1>f, <1>v, <2>1, <3>1
    <3>2. CASE errored' = TRUE /\ entry' = FALSE /\ UNCHANGED replies
      BY <3>2 DEF Reply
    <3>q. QED BY <2>2, <3>1, <3>2
  <2>q. QED BY <2>1, <2>3 DEF Reply, readerVars, uploadVars, deskVars, bodyVars, jobVars
<1>8. CASE Retire \/ Disconnect
  <2>1. /\ entry' = FALSE /\ session' \in {"open", "leaving", "closed"} /\ errored' = (errored \/ entry)
        /\ UNCHANGED <<inHand, received, readerVars, uploadVars, up, down, deskVars>>
    BY <1>8 DEF Retire, Disconnect, FailEntry
  <2>2. \/ UNCHANGED replies
        \/ Len(replies) < ReplyCap /\ replies' = Append(replies, "error")
    BY <1>8, Zenon DEF Retire, Disconnect, FailEntry
  <2>3. replies' \in Seq(Reply) /\ Len(replies') <= ReplyCap
    <3>1. CASE Len(replies) < ReplyCap /\ replies' = Append(replies, "error")
      BY <1>f, <1>v, <3>1
    <3>q. QED BY <2>2, <3>1 DEF Reply
  <2>4. errored' \in BOOLEAN /\ entry' \in BOOLEAN
    BY <2>1, Zenon
  <2>5. UNCHANGED <<inHand, received, reader, delivered, polled, upload, sent, cancel, up, down,
                    desk, link, slot, body, job,
                    listening, consumed, eof, produced, whole, apology>>
    BY <2>1 DEF readerVars, uploadVars, deskVars, bodyVars, jobVars
  <2>q. QED BY <2>1, <2>3, <2>4, <2>5 DEF Reply
<1>9. CASE SessionLost
  BY <1>9 DEF SessionLost, readerVars, entryVars, uploadVars, deskVars, bodyVars, jobVars
<1>10. CASE CancelRetry
  <2>1. UNCHANGED <<readerVars, replies, entryVars, upload, sent, session, down, deskVars>>
    BY <1>10, Zenon DEF CancelRetry
  <2>2. \/ Len(up) < UpCap /\ up' = Append(up, "request_cancel") /\ cancel' = "sent"
        \/ cancel' = "lost" /\ UNCHANGED up
    BY <1>10, Zenon DEF CancelRetry
  <2>3. up' \in Seq(UpFrame) /\ Len(up') <= UpCap /\ cancel' \in {"sent", "lost"}
    <3>1. CASE Len(up) < UpCap /\ up' = Append(up, "request_cancel") /\ cancel' = "sent"
      BY <1>f, <1>v, <3>1
    <3>q. QED BY <2>2, <3>1
  <2>q. QED BY <2>1, <2>3 DEF readerVars, entryVars, deskVars, bodyVars, jobVars
<1>x. replies # <<>> /\ replies' = Tail(replies) =>
         replies' \in Seq(Frame \cup {"upload_failed"}) /\ Len(replies') <= ReplyCap
  BY <1>v, <1>w DEF Reply
\* The reader takes a reply and goes on.
<1>11. ASSUME replies # <<>>, replies' = Tail(replies), reader' \in {"head", "body"}, delivered' \in Nat,
              UNCHANGED polled,
              UNCHANGED <<entryVars, uploadVars, session, up, down, deskVars>>
       PROVE  StreamTypes'
  BY <1>11, <1>w DEF Reply, entryVars, uploadVars, deskVars, bodyVars, jobVars
<1>12. CASE ReadHead
  <2>1. replies # <<>> /\ replies' = Tail(replies) /\ UNCHANGED <<delivered, polled>>
    BY <1>12, Zenon DEF ReadHead
  <2>2. \/ reader' = "body" /\ UNCHANGED <<entryVars, uploadVars, session, up, down, deskVars>>
        \/ DropGuard("failed", FALSE)
    BY <1>12, Zenon DEF ReadHead
  <2>3. CASE DropGuard("failed", FALSE)
    BY <1>x, <2>1, <2>3, GuardTypes
  <2>q. QED BY <1>11, <2>1, <2>2, <2>3
<1>13. CASE ReadBody
  <2>1. replies # <<>> /\ replies' = Tail(replies) /\ reader = "body" /\ UNCHANGED polled
    BY <1>13, Zenon DEF ReadBody
  <2>2. \/ /\ delivered' = delivered + 1
           /\ UNCHANGED <<reader, entryVars, uploadVars, session, up, down, deskVars>>
        \/ DropGuard("complete", TRUE) /\ UNCHANGED delivered
        \/ DropGuard("failed", FALSE) /\ UNCHANGED delivered
    BY <1>13 DEF ReadBody
  <2>3. CASE DropGuard("complete", TRUE) /\ UNCHANGED delivered
    BY <1>x, <2>1, <2>3, GuardTypes
  <2>4. CASE DropGuard("failed", FALSE) /\ UNCHANGED delivered
    BY <1>x, <2>1, <2>4, GuardTypes
  <2>5. CASE /\ delivered' = delivered + 1
             /\ UNCHANGED <<reader, entryVars, uploadVars, session, up, down, deskVars>>
    BY <1>11, <2>1, <2>5
  <2>q. QED BY <2>2, <2>3, <2>4, <2>5
<1>14. CASE ReadClosed \/ ReadTimeout \/ ClientLeaves
  <2>1. /\ \E state \in {"complete", "failed"} : DropGuard(state, FALSE)
        /\ UNCHANGED <<delivered, polled, replies>>
    BY <1>14, Zenon DEF ReadClosed, ReadTimeout, ClientLeaves
  <2>q. QED BY <2>1, GuardTypes
<1>15. CASE ClientStalls
  <2>1. /\ UNCHANGED <<reader, delivered, replies, entryVars, uploadVars, session, up, down, deskVars>>
        /\ polled' \in BOOLEAN
    BY <1>15, Zenon DEF ClientStalls
  <2>q. QED BY <2>1 DEF entryVars, uploadVars, deskVars, bodyVars, jobVars
<1>q. QED
  BY <1>1, <1>2, <1>3, <1>4, <1>5, <1>6, <1>7, <1>8, <1>9, <1>10, <1>12, <1>13, <1>14, <1>15
     DEF UploadNext, SessionNext, ReaderNext

\* enqueue_upload, case by case.
LEMMA BodyEffects ==
    ASSUME DeskBody
    PROVE  /\ TakeUp("body") /\ UNCHANGED <<gatewayVars, desk, link, consumed, eof, produced, whole>>
           /\ \/ ~slot /\ UNCHANGED <<slot, body, listening, job, apology, down>>
              \/ slot /\ ~listening /\ slot' = FALSE /\ UNCHANGED <<body, listening, job, apology, down>>
              \/ /\ slot /\ listening /\ body < BodyCap /\ body' = body + 1
                 /\ UNCHANGED <<slot, listening, job, apology, down>>
              \/ /\ slot /\ slot' = FALSE /\ AbortJob /\ UNCHANGED body
                 /\ \/ HasRoom(down, DownCap) /\ down' = Append(down, "error") /\ UNCHANGED apology
                    \/ apology' = "retrying" /\ UNCHANGED down
<1>1. TakeUp("body") /\ UNCHANGED <<gatewayVars, desk, link>>
  BY Zenon DEF DeskBody
<1>2. UNCHANGED <<consumed, eof, produced, whole>>
  BY Zenon DEF DeskBody, bodyVars, jobVars
<1>q. QED BY <1>1, <1>2, Zenon DEF DeskBody, bodyVars, jobVars

\* The steps of the desktop and of the bridge keep the types.
LEMMA DesktopTypes ==
    ASSUME StreamTypes, DeskNext \/ BridgeNext \/ JobNext
    PROVE  StreamTypes'
<1> USE McpStreamAssumption DEF StreamTypes, HasRoom
<1>v. /\ \A x \in Frame : Append(down, x) \in Seq(Frame) /\ Len(Append(down, x)) = Len(down) + 1
      /\ up # <<>> => Tail(up) \in Seq(UpFrame) /\ Len(Tail(up)) = Len(up) - 1
      /\ Len(up) \in Nat /\ Len(down) \in Nat
  BY SendExtends, TakeShortens, LenProperties DEF Extended, Shortened
<1>f. "head" \in Frame /\ "chunk" \in Frame /\ "end" \in Frame /\ "error" \in Frame
  BY DEF Frame
\* What the gateway keeps is typed by itself; what the desktop keeps is left to the step.
<1>g. ASSUME UNCHANGED gatewayVars, up' \in Seq(UpFrame), Len(up') <= UpCap, down' \in Seq(Frame),
          Len(down') <= DownCap,
             job' \in {"none", "open", "streaming", "failing", "done", "aborted"},
             link' \in {"moving", "jammed", "refusing"},
             desk' \in BOOLEAN, slot' \in BOOLEAN, listening' \in BOOLEAN, eof' \in BOOLEAN,
                 whole' \in BOOLEAN,
             apology' \in {Nothing, "retrying"}, produced' \in 0..MaxResponse, consumed' \in Nat,
                 body' \in 0..BodyCap
      PROVE  StreamTypes'
  <2>1. UNCHANGED <<reader, delivered, polled, replies, entry, errored, inHand, received, upload,
                    sent, cancel,
                    session>>
    BY <1>g DEF gatewayVars, readerVars, entryVars, uploadVars
  <2>q. QED BY <1>g, <2>1
<1>t. ASSUME NEW frame, TakeUp(frame) PROVE up' \in Seq(UpFrame) /\ Len(up') <= UpCap
  BY <1>t, <1>v DEF TakeUp
<1>s. ASSUME NEW frame \in Frame, HasRoom(down, DownCap), down' = Append(down, frame)
      PROVE  down' \in Seq(Frame) /\ Len(down') <= DownCap
  BY <1>s, <1>v
<1>a. ASSUME AbortJob
      PROVE  job' \in {"none", "open", "streaming", "failing", "done", "aborted"} /\ listening' \in BOOLEAN
  <2>1. listening' \in BOOLEAN
    BY <1>a, Zenon DEF AbortJob
  <2>2. job' = job \/ job' = "aborted"
    BY <1>a, Zenon DEF AbortJob
  <2>q. QED BY <2>1, <2>2
<1>1. CASE DeskRequest
  <2>1. TakeUp("request") /\ job' = "open" /\ slot' \in BOOLEAN /\ listening' \in BOOLEAN
        /\ UNCHANGED <<gatewayVars, down, desk, link, body, consumed, eof, produced, whole, apology>>
    BY <1>1, Zenon DEF DeskRequest
  <2>q. QED BY <1>g, <1>t, <2>1
<1>2. CASE DeskRefuse
  <2>1. /\ TakeUp("request")
        /\ UNCHANGED <<gatewayVars, desk, slot, body, listening, consumed, eof, job, produced,
                       whole, apology>>
    BY <1>2, Zenon DEF DeskRefuse, bodyVars, jobVars
  <2>2. \/ HasRoom(down, DownCap) /\ down' = Append(down, "error") /\ UNCHANGED link
        \/ UNCHANGED down /\ link' = "refusing"
    BY <1>2, Zenon DEF DeskRefuse
  <2>3. /\ down' \in Seq(Frame) /\ Len(down') <= DownCap
        /\ link' \in {"moving", "jammed", "refusing"}
    BY <1>f, <1>s, <2>2
  <2>q. QED BY <1>g, <1>t, <2>1, <2>3
<1>3. CASE DeskBody
  <2>1. TakeUp("body") /\ UNCHANGED <<gatewayVars, desk, link, consumed, eof, produced, whole>>
    BY <1>3, BodyEffects
  <2>2. up' \in Seq(UpFrame) /\ Len(up') <= UpCap
    BY <1>t, <2>1
  <2>3. CASE UNCHANGED <<body, listening, job, apology, down>> /\ slot' \in BOOLEAN
    BY <1>g, <2>1, <2>2, <2>3
  <2>4. CASE body < BodyCap /\ body' = body + 1 /\ UNCHANGED <<slot, listening, job, apology, down>>
    BY <1>g, <2>1, <2>2, <2>4
  <2>5. CASE /\ slot' \in BOOLEAN /\ AbortJob /\ UNCHANGED <<body, apology>>
             /\ HasRoom(down, DownCap) /\ down' = Append(down, "error")
    BY <1>a, <1>f, <1>g, <1>s, <2>1, <2>2, <2>5
  <2>6. CASE slot' \in BOOLEAN /\ AbortJob /\ UNCHANGED <<body, down>> /\ apology' = "retrying"
    BY <1>a, <1>g, <2>1, <2>2, <2>6
  <2>7. slot' \in BOOLEAN
    BY <1>3, BodyEffects, Zenon
  <2>q. QED BY <1>3, <2>3, <2>4, <2>5, <2>6, <2>7, BodyEffects
<1>4. CASE DeskEnd
  <2>1. /\ TakeUp("request_end") /\ slot' \in BOOLEAN
        /\ UNCHANGED <<gatewayVars, down, desk, link, body, listening, consumed, eof, job,
                       produced, whole, apology>>
    BY <1>4, Zenon DEF DeskEnd, jobVars
  <2>q. QED BY <1>g, <1>t, <2>1
<1>5. CASE DeskCancel
  <2>1. /\ TakeUp("request_cancel") /\ slot' \in BOOLEAN /\ AbortJob
        /\ UNCHANGED <<gatewayVars, down, desk, link, body, consumed, eof, produced, whole, apology>>
    BY <1>5, Zenon DEF DeskCancel
  <2>q. QED BY <1>a, <1>g, <1>t, <2>1
<1>6. CASE ApologyRetry
  <2>1. /\ apology' = Nothing
        /\ UNCHANGED <<gatewayVars, up, desk, link, slot, body, listening, consumed, eof, job,
                       produced, whole>>
    BY <1>6, Zenon DEF ApologyRetry, bodyVars
  <2>2. UNCHANGED down \/ (HasRoom(down, DownCap) /\ down' = Append(down, "error"))
    BY <1>6, Zenon DEF ApologyRetry
  <2>3. down' \in Seq(Frame) /\ Len(down') <= DownCap
    BY <1>f, <1>s, <2>2
  <2>q. QED BY <1>g, <2>1, <2>3
<1>7. CASE DeskGone
  <2>1. /\ desk' \in BOOLEAN /\ slot' \in BOOLEAN /\ AbortJob
        /\ UNCHANGED <<gatewayVars, up, link, body, consumed, eof, produced, whole, apology>>
    BY <1>7, Zenon DEF DeskGone
  <2>2. PICK n \in 0..Len(down) : down' = SubSeq(down, 1, n)
    BY <1>7, Zenon DEF DeskGone
  <2>3. down' \in Seq(Frame) /\ Len(down') <= DownCap
    BY <1>v, <2>2, CutKeeps
  <2>q. QED BY <1>a, <1>g, <2>1, <2>3
<1>8. CASE BridgeNext
  <2>1. /\ eof' \in BOOLEAN /\ listening' \in BOOLEAN
        /\ UNCHANGED <<gatewayVars, up, down, desk, link, slot, job, produced, whole, apology>>
    BY <1>8, Zenon DEF BridgeNext, BridgeReads, BridgeSeesEnd, BridgeStopsReading, jobVars
  <2>2. consumed' \in Nat /\ body' \in 0..BodyCap
    BY <1>8 DEF BridgeNext, BridgeReads, BridgeSeesEnd, BridgeStopsReading
  <2>q. QED BY <1>g, <2>1, <2>2
<1>9. CASE JobHead \/ JobChunk \/ JobEnd \/ JobError
  <2>1. \E frame \in Frame : HasRoom(down, DownCap) /\ down' = Append(down, frame)
    BY <1>9, <1>f, Zenon DEF JobHead, JobChunk, JobEnd, JobError, Tell
  <2>2. down' \in Seq(Frame) /\ Len(down') <= DownCap
    BY <1>s, <2>1
  <2>3. /\ UNCHANGED <<gatewayVars, up, desk, link, slot, body, consumed, eof, apology>>
        /\ listening' \in BOOLEAN /\ whole' \in BOOLEAN
    BY <1>9, Zenon DEF JobHead, JobChunk, JobEnd, JobError, bodyVars
  <2>4. job' \in {"streaming", "done"} /\ produced' \in 0..MaxResponse
    BY <1>9 DEF JobHead, JobChunk, JobEnd, JobError
  <2>q. QED BY <1>g, <2>2, <2>3, <2>4
<1>10. CASE JobFails
  <2>1. /\ job' = "failing" /\ listening' \in BOOLEAN
        /\ UNCHANGED <<gatewayVars, up, down, desk, link, slot, body, consumed, eof, produced,
                       whole, apology>>
    BY <1>10, Zenon DEF JobFails, bodyVars
  <2>q. QED BY <1>g, <2>1
<1>11. CASE Jam
  <2>1. /\ link' = "jammed"
        /\ UNCHANGED <<gatewayVars, up, down, desk, slot, body, listening, consumed, eof, job,
                       produced, whole,
                       apology>>
    BY <1>11, Zenon DEF Jam, bodyVars, jobVars
  <2>q. QED BY <1>g, <2>1
<1>q. QED
  BY <1>1, <1>2, <1>3, <1>4, <1>5, <1>6, <1>7, <1>8, <1>9, <1>10, <1>11 DEF DeskNext, JobNext

-----------------------------------------------------------------------------
(* The upload                                                              *)

\* Steps that put nothing on the way to the desktop: what they end of the upload stays ended.
LEMMA UploadAside ==
    ASSUME StreamTypes, RequestFirst, Uploaded, UNCHANGED <<up, sent, body, consumed, eof>>,
           upload' = "streaming" => upload = "streaming", cancel' # Nothing => upload' = "done",
           slot' => slot, listening' => listening /\ (slot => slot' \/ Over'),
           job = "none" <=> job' = "none", Over => Over'
    PROVE  RequestFirst' /\ Uploaded'
<1>1. RequestFirst'
  BY DEF RequestFirst
<1>2. (Waiting' <=> Waiting) /\ (Taking' => Taking)
  BY DEF Waiting, Taking
<1>3. (\A n : OnlyChunks(n)' <=> OnlyChunks(n)) /\ (\A n : Chunks(n)' = Chunks(n))
  BY <1>2 DEF OnlyChunks, Chunks
<1>4. Uploaded'
  BY <1>2, <1>3 DEF Uploaded
<1>q. QED BY <1>1, <1>4

\* The guard's request_cancel goes behind what was sent, and nothing comes behind it but itself.
LEMMA UploadCancelled ==
    ASSUME StreamTypes, RequestFirst, Uploaded, Extended(up, "request_cancel", up'), upload' = "done",
           UNCHANGED <<sent, body, consumed, eof, slot, listening, job>>
    PROVE  RequestFirst' /\ Uploaded'
<1>l. Len(up) \in Nat /\ Len(up') = Len(up) + 1 /\ up'[Len(up)+1] = "request_cancel"
          /\ \A i \in 1..Len(up) : up'[i] = up[i]
  BY LenProperties DEF Extended, StreamTypes
<1>1. RequestFirst'
  BY <1>l DEF RequestFirst
<1>2. (Waiting' <=> Waiting) /\ (Taking' <=> Taking)
  BY <1>l DEF Waiting, Taking
<1>3. /\ \A n \in 0..Len(up) : OnlyChunks(n)' <=> OnlyChunks(n)
      /\ ~OnlyChunks(Len(up))'
      /\ \A n : Chunks(n)' = Chunks(n)
  BY <1>2, <1>l DEF OnlyChunks, Chunks
<1>4. Uploaded'
  BY <1>2, <1>3, <1>l DEF Uploaded, Over
<1>q. QED BY <1>1, <1>4

\* stream_upload sends a chunk, or the end of the body.
LEMMA UploadGrows ==
    ASSUME StreamTypes, RequestFirst, Uploaded, UploadChunk \/ UploadEnd
    PROVE  RequestFirst' /\ Uploaded'
<1>t. Len(up) \in Nat /\ up \in Seq(UpFrame) /\ sent \in Nat /\ UploadSize \in Nat /\ consumed \in Nat
          /\ body \in Nat
  BY McpStreamAssumption, LenProperties DEF StreamTypes
<1>1. ASSUME NEW frame \in {"body", "request_end"}, up' = Append(up, frame), UNCHANGED <<cancel, deskVars>>
      PROVE  /\ Len(up') = Len(up) + 1 /\ up'[Len(up)+1] = frame /\ \A i \in 1..Len(up) : up'[i] = up[i]
             /\ UNCHANGED <<body, consumed, eof, slot, listening, job, cancel>>
             /\ RequestFirst' /\ (Waiting' <=> Waiting) /\ (Taking' <=> Taking)
             /\ (\A n \in 0..Len(up) : OnlyChunks(n)' <=> OnlyChunks(n)) /\ (\A n : Chunks(n)' = Chunks(n))
  <2>1. Len(up') = Len(up) + 1 /\ up'[Len(up)+1] = frame /\ \A i \in 1..Len(up) : up'[i] = up[i]
    BY <1>1, <1>t, SendExtends DEF Extended, UpFrame
  <2>2. UNCHANGED <<body, consumed, eof, slot, listening, job, cancel>>
    BY <1>1 DEF deskVars, bodyVars, jobVars
  <2>3. RequestFirst'
    BY <1>t, <2>1, <2>2 DEF RequestFirst
  <2>4. (Waiting' <=> Waiting) /\ (Taking' <=> Taking)
    BY <1>t, <2>1, <2>2 DEF Waiting, Taking
  <2>5. (\A n \in 0..Len(up) : OnlyChunks(n)' <=> OnlyChunks(n)) /\ (\A n : Chunks(n)' = Chunks(n))
    BY <1>t, <2>1, <2>4 DEF OnlyChunks, Chunks
  <2>q. QED BY <2>1, <2>2, <2>3, <2>4, <2>5
<1>2. CASE UploadChunk
  <2>1. /\ upload = "streaming" /\ upload' = upload /\ sent' = sent + 1 /\ up' = Append(up, "body")
        /\ UNCHANGED <<cancel, deskVars>>
    BY <1>2 DEF UploadChunk
  <2>0. /\ Len(up') = Len(up) + 1 /\ up'[Len(up)+1] = "body" /\ \A i \in 1..Len(up) : up'[i] = up[i]
        /\ UNCHANGED <<body, consumed, eof, slot, listening, job, cancel>>
        /\ RequestFirst' /\ (Waiting' <=> Waiting) /\ (Taking' <=> Taking)
        /\ (\A n \in 0..Len(up) : OnlyChunks(n)' <=> OnlyChunks(n)) /\ (\A n : Chunks(n)' = Chunks(n))
    BY <1>1, <2>1
  <2>2. OnlyChunks(Len(up))'
    BY <1>t, <2>0, <2>1 DEF OnlyChunks, Uploaded
  <2>3. Chunks(Len(up))' = Chunks(Len(up)) + 1 /\ Chunks(Len(up)) \in Int
    BY <1>t, <2>0, <2>1 DEF Chunks
  <2>4. Taking' => \A i \in 1..Len(up') : OnlyChunks(i)' => consumed' + body' + Chunks(i)' <= sent'
    <3> SUFFICES ASSUME Taking', NEW i \in 1..Len(up'), OnlyChunks(i)'
            PROVE consumed' + body' + Chunks(i)' <= sent'
      OBVIOUS
    <3>1. CASE i \in 1..Len(up)
      <4>1. consumed + body + Chunks(i) <= sent /\ Chunks(i) \in Int
        BY <1>t, <2>0, <3>1 DEF Uploaded, Chunks
      <4>q. QED BY <1>t, <2>0, <2>1, <4>1
    <3>2. CASE i = Len(up')
      BY <1>t, <2>0, <2>1, <2>3, <3>2 DEF Uploaded
    <3>q. QED BY <1>t, <2>0, <3>1, <3>2
  <2>5. Taking' => consumed' + body' + Chunks(Len(up))' = sent'
    BY <1>t, <2>0, <2>1, <2>3 DEF Uploaded
  <2>6. \A i \in 1..Len(up') : up'[i] # "request_end"
    BY <1>t, <2>0, <2>1, <2>2 DEF OnlyChunks
  <2>7. Uploaded'
    BY <1>t, <2>0, <2>1, <2>2, <2>4, <2>5, <2>6 DEF Uploaded, Over
  <2>q. QED BY <2>0, <2>7
<1>3. CASE UploadEnd
  <2>1. /\ upload = "streaming" /\ upload' = "done" /\ sent' = sent /\ sent = UploadSize
             /\ up' = Append(up, "request_end")
        /\ UNCHANGED <<cancel, deskVars>>
    BY <1>3 DEF UploadEnd
  <2>0. /\ Len(up') = Len(up) + 1 /\ up'[Len(up)+1] = "request_end" /\ \A i \in 1..Len(up) : up'[i] = up[i]
        /\ UNCHANGED <<body, consumed, eof, slot, listening, job, cancel>>
        /\ RequestFirst' /\ (Waiting' <=> Waiting) /\ (Taking' <=> Taking)
        /\ (\A n \in 0..Len(up) : OnlyChunks(n)' <=> OnlyChunks(n)) /\ (\A n : Chunks(n)' = Chunks(n))
    BY <1>1, <2>1
  <2>2. ~OnlyChunks(Len(up))'
    BY <1>t, <2>0, <2>1 DEF OnlyChunks
  <2>3. Taking' => \A i \in 1..Len(up') : OnlyChunks(i)' => consumed' + body' + Chunks(i)' <= sent'
    BY <1>t, <2>0, <2>1, <2>2 DEF Uploaded
  <2>4. ASSUME NEW i \in 1..Len(up'), up'[i] = "request_end"
        PROVE  OnlyChunks(i - 1)' /\ (Taking' => consumed' + body' + Chunks(i - 1)' = UploadSize)
    <3>1. i = Len(up) + 1 /\ OnlyChunks(Len(up))
      BY <1>t, <2>0, <2>1, <2>4 DEF Uploaded, OnlyChunks
    <3>q. QED BY <1>t, <2>0, <2>1, <3>1 DEF Uploaded
  <2>5. Uploaded'
    BY <1>t, <2>0, <2>1, <2>3, <2>4 DEF Uploaded, Over
  <2>q. QED BY <2>0, <2>5
<1>q. QED BY <1>2, <1>3

\* A frame that the desktop takes: its upload begins or goes on.
TakesOn(frame) ==
    /\ slot' /\ listening' /\ Taking /\ ~eof
    /\ \/ frame = "request" /\ body' = body
       \/ frame = "body" /\ body' = body + 1

\* Nothing more is taken; if the bridge still listens, it has or will find all of the body,
\* or the job is over.
TakesNoMore ==
    /\ ~(slot' /\ listening') /\ body' = body
    /\ listening' => listening /\ (consumed + body = UploadSize \/ Over')
    /\ eof => ~listening'

\* The desktop takes a frame: an upload it takes goes on with one chunk less under way, or it
\* takes none any more.
LEMMA UploadArrives ==
    ASSUME StreamTypes, RequestFirst, Uploaded, NEW frame, TakeUp(frame),
           UNCHANGED <<sent, upload, cancel, consumed, eof>>, TakesOn(frame) \/ TakesNoMore,
           job # "none" \/ listening' => job' # "none", Over => Over'
    PROVE  RequestFirst' /\ Uploaded'
<1>t. /\ Len(up) \in Nat /\ up \in Seq(UpFrame) /\ sent \in Nat /\ UploadSize \in Nat /\ consumed \in Nat
      /\ body \in Nat
  BY McpStreamAssumption, LenProperties DEF StreamTypes
<1>1. /\ Len(up) >= 1 /\ up[1] = frame /\ Len(up') = Len(up) - 1
      /\ \A i \in 1..Len(up') : up'[i] = up[i + 1]
  BY <1>t, TakeShortens DEF TakeUp, Shortened
<1>2. \A i \in 1..Len(up') : up'[i] # "request"
  BY <1>1, <1>t DEF RequestFirst
<1>3. RequestFirst' /\ ~Waiting' /\ (\A n : Chunks(n)' = n)
  BY <1>1, <1>2, <1>t DEF RequestFirst, Waiting, Chunks
<1>4. ASSUME NEW n \in 1..Len(up), OnlyChunks(n) PROVE OnlyChunks(n - 1)'
  BY <1>1, <1>4, <1>t DEF OnlyChunks
<1>5. ASSUME NEW n \in 0..Len(up'), OnlyChunks(n)', frame \in {"request", "body"} PROVE OnlyChunks(n + 1)
  <2> SUFFICES ASSUME NEW j \in 1..(n + 1) PROVE up[j] \in {"request", "body"}
    BY DEF OnlyChunks
  <2>1. CASE j = 1
    BY <1>1, <1>5, <2>1
  <2>2. CASE j > 1
    <3>1. j - 1 \in 1..n /\ j - 1 \in 1..Len(up')
      BY <1>1, <1>t, <2>2
    <3>2. up'[j - 1] \in {"request", "body"} /\ up'[j - 1] = up[(j - 1) + 1]
      BY <1>1, <1>5, <3>1 DEF OnlyChunks
    <3>q. QED BY <3>2
  <2>q. QED BY <2>1, <2>2
<1>6. upload' = "streaming" => OnlyChunks(Len(up))'
  BY <1>1, <1>4, <1>t DEF Uploaded
<1>7. ASSUME NEW i \in 1..Len(up'), up'[i] = "request_end"
      PROVE  i + 1 \in 1..Len(up) /\ up[i + 1] = "request_end" /\ OnlyChunks(i) /\ OnlyChunks(i - 1)'
  <2>1. i + 1 \in 1..Len(up) /\ up[i + 1] = "request_end"
    BY <1>1, <1>7, <1>t
  <2>2. OnlyChunks((i + 1) - 1)
    BY <2>1 DEF Uploaded
  <2>q. QED BY <1>1, <1>4, <1>t, <2>1, <2>2
<1>8. CASE TakesOn(frame)
  <2>a. /\ slot' /\ listening' /\ Taking /\ ~eof
        /\ \/ frame = "request" /\ body' = body
           \/ frame = "body" /\ body' = body + 1
    BY <1>8 DEF TakesOn
  <2>b. PICK d \in Nat : d = body'
    BY <1>t, <2>a
  <2>c. PICK m \in Nat : m = Len(up')
    BY <1>1, <1>t
  <2>1. \A n \in Int : Chunks(n + 1) = n + (d - body)
    <3>1. (Waiting /\ d = body) \/ (~Waiting /\ d = body + 1)
      BY <1>1, <2>a, <2>b DEF Waiting
    <3>q. QED BY <1>t, <3>1 DEF Chunks
  <2>2. ASSUME NEW i \in 0..m, OnlyChunks(i)' PROVE consumed + d + i <= sent
    <3>1. i + 1 \in 1..Len(up) /\ OnlyChunks(i + 1)
      BY <1>1, <1>5, <1>t, <2>2, <2>a, <2>c
    <3>2. consumed + body + Chunks(i + 1) <= sent
      BY <2>a, <3>1 DEF Uploaded
    <3>q. QED BY <1>t, <2>1, <3>2
  <2>3. consumed + d <= sent
    <3>1. OnlyChunks(0)'
      BY DEF OnlyChunks
    <3>q. QED BY <1>t, <2>2, <3>1
  <2>4. upload = "streaming" => consumed + d + m = sent
    <3>1. upload = "streaming" => consumed + body + Chunks(m + 1) = sent
      BY <1>1, <1>t, <2>a, <2>c DEF Uploaded
    <3>q. QED BY <1>t, <2>1, <3>1
  <2>5. ASSUME NEW i \in 1..m, up'[i] = "request_end"
        PROVE  OnlyChunks(i - 1)' /\ consumed + d + (i - 1) = UploadSize
    <3>1. OnlyChunks(i - 1)' /\ consumed + body + Chunks((i + 1) - 1) = UploadSize
      BY <1>7, <2>5, <2>a, <2>c DEF Uploaded
    <3>2. (i + 1) - 1 = (i - 1) + 1
      OBVIOUS
    <3>3. consumed + body + Chunks((i - 1) + 1) = UploadSize
      BY <3>1, <3>2
    <3>4. Chunks((i - 1) + 1) = (i - 1) + (d - body)
      BY <2>1
    <3>q. QED BY <1>t, <3>1, <3>3, <3>4
  <2>6. consumed' = consumed /\ body' = d /\ sent' = sent /\ upload' = upload
    BY <2>b
  <2>7. /\ consumed' + body' <= sent'
        /\ Taking' => \A i \in 1..Len(up') : OnlyChunks(i)' => consumed' + body' + Chunks(i)' <= sent'
        /\ Taking' /\ upload' = "streaming" => consumed' + body' + Chunks(Len(up))' = sent'
        /\ \A i \in 1..Len(up') : up'[i] = "request_end" =>
              OnlyChunks(i - 1)' /\ (Taking' => consumed' + body' + Chunks(i - 1)' = UploadSize)
    BY <1>3, <2>2, <2>3, <2>4, <2>5, <2>6, <2>c
  <2>q. QED BY <1>3, <1>6, <2>7, <2>a DEF Uploaded
<1>9. CASE TakesNoMore
  <2>a. /\ ~(slot' /\ listening') /\ body' = body
        /\ listening' => consumed + body = UploadSize \/ Over'
        /\ eof => ~listening'
    BY <1>9 DEF TakesNoMore
  <2>1. ~Taking'
    BY <1>3, <2>a DEF Taking
  <2>q. QED BY <1>3, <1>6, <1>7, <1>t, <2>1, <2>a DEF Uploaded
<1>q. QED BY <1>8, <1>9

\* The local bridge reads a chunk, or the end of the body, which is there only with all of it
\* while the job is not over.
LEMMA BridgeTakes ==
    ASSUME StreamTypes, RequestFirst, Uploaded, BridgeReads \/ BridgeSeesEnd
    PROVE  RequestFirst' /\ Uploaded'
<1>t. /\ Len(up) \in Nat /\ sent \in Nat /\ UploadSize \in Nat /\ consumed \in Nat /\ body \in Nat
  BY McpStreamAssumption, LenProperties DEF StreamTypes
<1>1. listening /\ UNCHANGED <<up, sent, upload, cancel, slot, job>>
  BY DEF BridgeReads, BridgeSeesEnd, gatewayVars, uploadVars, jobVars
<1>0. job # "none" /\ (Over' <=> Over)
  BY <1>1 DEF Uploaded, Over
<1>2. \A i \in 1..Len(up) : up[i] # "request"
  BY <1>0 DEF RequestFirst
<1>3. RequestFirst' /\ (Waiting' <=> Waiting) /\ ~Waiting
  BY <1>1, <1>2, <1>t DEF RequestFirst, Waiting
<1>4. (\A n : OnlyChunks(n)' <=> OnlyChunks(n)) /\ (\A n : Chunks(n)' = n /\ Chunks(n) = n)
  BY <1>1, <1>3 DEF OnlyChunks, Chunks
<1>5. CASE BridgeReads
  <2>1. body' \in Nat /\ body' = body - 1 /\ consumed' \in Nat /\ consumed' = consumed + 1
            /\ listening' = listening /\ eof' = eof
    BY <1>5, <1>t DEF BridgeReads
  <2>2. consumed' + body' = consumed + body /\ consumed + body \in Nat
    BY <1>t, <2>1
  <2>4. Taking' <=> Taking
    BY <1>1, <1>3, <2>1, Zenon DEF Taking
  <2>3. Uploaded'
    BY <1>0, <1>1, <1>4, <1>t, <2>1, <2>2, <2>4 DEF Uploaded
  <2>q. QED BY <1>3, <2>3
<1>6. CASE BridgeSeesEnd
  <2>1. body = 0 /\ ~slot /\ ~listening' /\ UNCHANGED <<body, consumed>>
    BY <1>6 DEF BridgeSeesEnd
  <2>2. (consumed = UploadSize \/ Over) /\ ~Taking'
    BY <1>1, <1>3, <1>t, <2>1 DEF Uploaded, Taking
  <2>3. Uploaded'
    BY <1>0, <1>1, <1>4, <1>t, <2>1, <2>2 DEF Uploaded
  <2>q. QED BY <1>3, <2>3
<1>q. QED BY <1>5, <1>6

\* What PendingGuard::drop does to the way to the desktop.
LEMMA GuardEffects ==
    ASSUME StreamTypes, NEW state, NEW finished, DropGuard(state, finished)
    PROVE  /\ reader' = state /\ entry' = FALSE /\ upload' = "done"
           /\ UNCHANGED <<errored, inHand, received, sent, session, down, deskVars>>
           /\ \/ UNCHANGED <<up, cancel>> /\ (finished \/ session = "closed")
              \/ Extended(up, "request_cancel", up') /\ cancel' = "sent"
              \/ UNCHANGED up /\ cancel' = "retrying"
<1>1. /\ reader' = state /\ entry' = FALSE /\ upload' = "done"
      /\ UNCHANGED <<errored, inHand, received, sent, session, down, deskVars>>
  BY DEF DropGuard
<1>2. \/ UNCHANGED <<up, cancel>> /\ (finished \/ session = "closed")
      \/ up' = Append(up, "request_cancel") /\ cancel' = "sent"
      \/ UNCHANGED up /\ cancel' = "retrying"
  BY Zenon DEF DropGuard
<1>3. up' = Append(up, "request_cancel") => Extended(up, "request_cancel", up')
  BY SendExtends DEF StreamTypes, UpFrame
<1>q. QED BY <1>1, <1>2, <1>3, Zenon

\* What the session and the reader do to the upload, if anything, is to drop its guard.
LEMMA ReaderEffects ==
    ASSUME ReadHead \/ ReadBody \/ ReadClosed \/ ReadTimeout \/ ClientLeaves
    PROVE  \/ UNCHANGED <<entryVars, uploadVars, session, up, down, deskVars>> /\ reader' # "failed"
           \/ DropGuard("failed", FALSE)
           \/ DropGuard("complete", FALSE)
           \/ DropGuard("complete", TRUE)
<1>1. CASE ReadHead
  <2>1. \/ reader' = "body" /\ UNCHANGED <<entryVars, uploadVars, session, up, down, deskVars>>
        \/ DropGuard("failed", FALSE)
    BY <1>1, Zenon DEF ReadHead
  <2>q. QED BY <2>1
<1>2. CASE ReadBody
  <2>1. \/ reader' = "body" /\ UNCHANGED <<entryVars, uploadVars, session, up, down, deskVars>>
        \/ DropGuard("complete", TRUE)
        \/ DropGuard("failed", FALSE)
    BY <1>2 DEF ReadBody
  <2>q. QED BY <2>1
<1>3. CASE ReadClosed \/ ReadTimeout \/ ClientLeaves
  BY <1>3, Zenon DEF ReadClosed, ReadTimeout, ClientLeaves
<1>q. QED BY <1>1, <1>2, <1>3

\* Every step keeps the count of the upload.
LEMMA UploadStep ==
    ASSUME StreamTypes, RequestFirst, Uploaded, [Next]_vars
    PROVE  RequestFirst' /\ Uploaded'
<1>a. ASSUME UNCHANGED <<uploadVars, up, deskVars>> PROVE RequestFirst' /\ Uploaded'
  <2>1. UNCHANGED <<up, sent, upload, cancel, body, consumed, eof, slot, listening, job>>
    BY <1>a DEF uploadVars, deskVars, bodyVars, jobVars
  <2>q. QED BY <2>1, UploadAside DEF Uploaded, Over
<1>1. CASE UploadNext
  <2>1. CASE UploadChunk \/ UploadEnd
    BY <2>1, UploadGrows
  <2>2. CASE UploadInterrupted \/ UploadReport \/ UploadStops
    <3>1. /\ UNCHANGED <<up, sent, cancel, body, consumed, eof, slot, listening, job>>
          /\ upload \in {"streaming", "reporting"} /\ upload' \in {"reporting", "done"}
      BY <2>2 DEF UploadInterrupted, UploadReport, UploadStops, deskVars, bodyVars, jobVars
    <3>q. QED BY <3>1, UploadAside DEF Uploaded, Over
  <2>q. QED BY <1>1, <2>1, <2>2 DEF UploadNext
<1>2. CASE SessionNext
  <2>1. UNCHANGED <<uploadVars, up, deskVars>>
    BY <1>2, Zenon DEF SessionNext, ReceiveFrame, Deliver, Retire, SessionLost, Disconnect
  <2>q. QED BY <1>a, <2>1
<1>3. ASSUME NEW state, NEW finished, DropGuard(state, finished) PROVE RequestFirst' /\ Uploaded'
  <2>1. /\ upload' = "done" /\ UNCHANGED <<sent, body, consumed, eof, slot, listening, job>>
    BY <1>3, GuardEffects DEF deskVars, bodyVars, jobVars
  <2>2. Extended(up, "request_cancel", up') \/ UNCHANGED up
    BY <1>3, GuardEffects
  <2>3. CASE Extended(up, "request_cancel", up')
    BY <2>1, <2>3, UploadCancelled
  <2>4. CASE UNCHANGED up
    BY <2>1, <2>4, UploadAside DEF Over
  <2>q. QED BY <2>2, <2>3, <2>4
<1>4. CASE ReadHead \/ ReadBody \/ ReadClosed \/ ReadTimeout \/ ClientLeaves
  BY <1>3, <1>4, <1>a, ReaderEffects
<1>s. CASE ClientStalls
  BY <1>a, <1>s DEF ClientStalls
<1>5. CASE CancelRetry
  <2>1. /\ cancel = "retrying" /\ cancel' \in {"sent", "lost"}
        /\ UNCHANGED <<upload, sent, body, consumed, eof, slot, listening, job>>
    BY <1>5 DEF CancelRetry, deskVars, bodyVars, jobVars
  <2>2. upload = "done"
    BY <2>1 DEF Uploaded, Nothing
  <2>3. up' = Append(up, "request_cancel") \/ UNCHANGED up
    BY <1>5, Zenon DEF CancelRetry
  <2>4. CASE up' = Append(up, "request_cancel")
    <3>1. Extended(up, "request_cancel", up')
      BY <2>4, SendExtends DEF StreamTypes, UpFrame
    <3>q. QED BY <2>1, <2>2, <3>1, UploadCancelled
  <2>5. CASE UNCHANGED up
    BY <2>1, <2>2, <2>5, UploadAside DEF Over
  <2>q. QED BY <2>3, <2>4, <2>5
<1>u. UNCHANGED gatewayVars => UNCHANGED <<sent, upload, cancel>>
  BY DEF gatewayVars, uploadVars
<1>h. ASSUME NEW frame, TakeUp(frame) PROVE Len(up) >= 1 /\ up[1] = frame
  BY <1>h, TakeShortens DEF TakeUp, StreamTypes
<1>l. Len(up) \in Nat /\ consumed \in Nat /\ body \in Nat
  BY McpStreamAssumption, LenProperties DEF StreamTypes
<1>6. CASE DeskRequest
  <2>1. /\ TakeUp("request") /\ slot' /\ listening' /\ job' = "open"
        /\ UNCHANGED <<gatewayVars, body, consumed, eof>>
    BY <1>6 DEF DeskRequest
  <2>2. Taking /\ ~eof /\ ~Over
    BY <1>h, <1>l, <2>1 DEF Taking, Waiting, RequestFirst, Over
  <2>3. TakesOn("request")
    BY <2>1, <2>2 DEF TakesOn
  <2>q. QED BY <1>u, <2>1, <2>2, <2>3, UploadArrives
<1>7. CASE DeskRefuse
  <2>1. TakeUp("request") /\ UNCHANGED <<gatewayVars, body, consumed, eof, slot, listening, job>>
    BY <1>7 DEF DeskRefuse, bodyVars, jobVars
  <2>2. ~slot /\ ~listening
    BY <1>h, <1>l, <2>1 DEF RequestFirst
  <2>3. TakesNoMore
    BY <2>1, <2>2 DEF TakesNoMore
  <2>q. QED BY <1>u, <2>1, <2>2, <2>3, UploadArrives DEF Over
\* What an abort leaves of a job that the upload has.
<1>j. ASSUME AbortJob
      PROVE  /\ listening' = listening /\ (listening => Over') /\ (Over => Over')
             /\ job = "none" <=> job' = "none"
  BY <1>j DEF AbortJob, Running, Over, Uploaded, StreamTypes
<1>8. CASE DeskBody
  <2>1. TakeUp("body") /\ UNCHANGED <<gatewayVars, consumed, eof>>
    BY <1>8, BodyEffects
  <2>2. \/ ~slot /\ UNCHANGED <<slot, body, listening, job>>
        \/ slot /\ ~listening /\ slot' = FALSE /\ UNCHANGED <<body, listening, job>>
        \/ slot /\ listening /\ body' = body + 1 /\ UNCHANGED <<slot, listening, job>>
        \/ slot /\ slot' = FALSE /\ AbortJob /\ UNCHANGED body
    BY <1>8, BodyEffects
  <2>3. TakesOn("body") \/ TakesNoMore
    BY <1>j, <2>2 DEF TakesOn, TakesNoMore, Uploaded, Taking, Over
  <2>4. (job # "none" \/ listening' => job' # "none") /\ (Over => Over')
    BY <1>j, <2>2 DEF Uploaded, Over
  <2>q. QED BY <1>u, <2>1, <2>3, <2>4, UploadArrives
<1>9. CASE DeskEnd
  <2>1. TakeUp("request_end") /\ ~slot' /\ UNCHANGED <<gatewayVars, body, consumed, eof, listening, job>>
    BY <1>9 DEF DeskEnd, jobVars
  <2>2. listening => consumed + body = UploadSize \/ Over
    <3>1. CASE listening /\ slot
      <4>1. up[1] = "request_end" /\ 1 \in 1..Len(up) /\ 1 - 1 = 0
        BY <1>h, <1>l, <2>1
      <4>2. consumed + body + Chunks(1 - 1) = UploadSize
        BY <3>1, <4>1 DEF Uploaded, Taking
      <4>3. Chunks(0) = 0
        BY <4>1 DEF Chunks, Waiting
      <4>q. QED BY <1>l, <4>1, <4>2, <4>3
    <3>q. QED BY <3>1 DEF Uploaded
  <2>3. TakesNoMore
    BY <2>1, <2>2 DEF TakesNoMore, Uploaded, Over
  <2>4. (job # "none" \/ listening' => job' # "none") /\ (Over => Over')
    BY <2>1 DEF Uploaded, Over
  <2>q. QED BY <1>u, <2>1, <2>3, <2>4, UploadArrives
<1>10. CASE DeskCancel
  <2>1. /\ TakeUp("request_cancel") /\ ~slot' /\ AbortJob
        /\ UNCHANGED <<gatewayVars, body, consumed, eof>>
    BY <1>10 DEF DeskCancel
  <2>2. TakesNoMore
    BY <1>j, <2>1 DEF TakesNoMore, Uploaded
  <2>3. (job # "none" \/ listening' => job' # "none") /\ (Over => Over')
    BY <1>j, <2>1 DEF Uploaded
  <2>q. QED BY <1>u, <2>1, <2>2, <2>3, UploadArrives
\* The rest only ends what the desktop was doing.
<1>11. ASSUME UNCHANGED <<gatewayVars, up, body, consumed, eof>>, job = "none" <=> job' = "none",
           Over => Over',
              slot' => slot, listening' => listening /\ (slot => slot' \/ Over')
       PROVE  RequestFirst' /\ Uploaded'
  BY <1>11, <1>u, UploadAside DEF Uploaded
<1>12. CASE ApologyRetry \/ Jam
  <2>1. UNCHANGED <<gatewayVars, up, bodyVars, job>>
    BY <1>12, Zenon DEF ApologyRetry, Jam, jobVars
  <2>q. QED BY <1>11, <2>1 DEF bodyVars, Over
<1>13. CASE DeskGone
  <2>1. UNCHANGED <<gatewayVars, up, body, consumed, eof>> /\ ~slot' /\ AbortJob
    BY <1>13 DEF DeskGone
  <2>q. QED BY <1>11, <1>j, <2>1
<1>14. CASE BridgeNext
  <2>1. CASE BridgeStopsReading
    BY <1>11, <2>1 DEF BridgeStopsReading, jobVars, Over
  <2>q. QED BY <1>14, <2>1, BridgeTakes DEF BridgeNext
<1>15. CASE JobNext
  <2>1. /\ UNCHANGED <<gatewayVars, up, body, consumed, eof, slot, listening>>
        /\ job # "none" /\ job' # "none" /\ ~Over
    BY <1>15 DEF JobNext, JobHead, JobChunk, JobEnd, JobFails, JobError, bodyVars, Over
  <2>q. QED BY <1>11, <2>1
<1>16. CASE UNCHANGED vars
  BY <1>16, <1>a DEF vars, uploadVars, deskVars, bodyVars, jobVars
<1>q. QED
  BY <1>1, <1>2, <1>4, <1>5, <1>6, <1>7, <1>8, <1>9, <1>10, <1>12, <1>13, <1>14, <1>15, <1>16, <1>s
     DEF Next, ReaderNext, DeskNext

-----------------------------------------------------------------------------
(* The cancellation                                                        *)

\* Every step keeps the cancellation on its way to a job that nobody waits for.
LEMMA ToldStep ==
    ASSUME StreamTypes, RequestFirst, Told, [Next]_vars
    PROVE  Told'
<1>l. Len(up) \in Nat
  BY LenProperties DEF StreamTypes
<1>a. ASSUME UNCHANGED <<up, cancel>>, Running' => Running,
             reader' = "failed" /\ session' = "open" => reader = "failed" /\ session = "open"
      PROVE  Told'
  BY <1>a DEF Told
<1>d. ASSUME UNCHANGED <<up, cancel, deskVars, session>>, reader' = reader \/ reader' # "failed" PROVE Told'
  <2>1. Running' <=> Running
    BY <1>d DEF Running, deskVars, jobVars
  <2>q. QED BY <1>a, <1>d, <2>1
<1>1. CASE UploadNext
  <2>1. UNCHANGED <<reader, session, cancel, deskVars>>
    BY <1>1, Zenon DEF UploadNext, UploadChunk, UploadEnd, UploadInterrupted, UploadReport, UploadStops,
        readerVars
  <2>2. UNCHANGED up \/ \E frame \in {"body", "request_end"} : up' = Append(up, frame)
    BY <1>1, Zenon DEF UploadNext, UploadChunk, UploadEnd, UploadInterrupted, UploadReport, UploadStops
  <2>3. ASSUME NEW frame \in {"body", "request_end"}, up' = Append(up, frame) PROVE Told'
    <3>1. Len(up') = Len(up) + 1 /\ up'[Len(up) + 1] = frame /\ \A i \in 1..Len(up) : up'[i] = up[i]
      BY <2>3, SendExtends DEF StreamTypes, Extended, UpFrame
    <3>2. Running' <=> Running
      BY <2>1 DEF Running, deskVars, jobVars
    <3>q. QED BY <1>l, <2>1, <3>1, <3>2 DEF Told
  <2>q. QED BY <1>d, <2>1, <2>2, <2>3
<1>2. CASE SessionNext
  <2>1. UNCHANGED <<up, cancel, deskVars, reader>>
    BY <1>2, Zenon DEF SessionNext, ReceiveFrame, Deliver, Retire, SessionLost, Disconnect, uploadVars,
        readerVars
  <2>2. session' = "open" => session = "open"
    BY <1>2 DEF SessionNext, ReceiveFrame, Deliver, Retire, SessionLost, Disconnect
  <2>3. Running' <=> Running
    BY <2>1 DEF Running, deskVars, jobVars
  <2>q. QED BY <1>a, <2>1, <2>2, <2>3
\* A request_cancel in the queue, or one that did not fit.
<1>3. ASSUME Extended(up, "request_cancel", up') PROVE Told'
  BY <1>3, <1>l DEF Told, Extended
<1>4. ASSUME NEW finished \in BOOLEAN, NEW state \in {"complete", "failed"}, DropGuard(state, finished),
             finished => state = "complete"
      PROVE  Told'
  <2>1. /\ reader' = state /\ session' = session
        /\ \/ UNCHANGED <<up, cancel>> /\ (finished \/ session = "closed")
           \/ Extended(up, "request_cancel", up') /\ cancel' = "sent"
           \/ UNCHANGED up /\ cancel' = "retrying"
    BY <1>4, GuardEffects
  <2>2. CASE finished \/ session = "closed"
    BY <1>4, <2>1, <2>2 DEF Told
  <2>3. CASE cancel' = "retrying"
    BY <2>3 DEF Told
  <2>q. QED BY <1>3, <2>1, <2>2, <2>3
<1>5. CASE ReadHead \/ ReadBody \/ ReadClosed \/ ReadTimeout \/ ClientLeaves
  <2>1. CASE UNCHANGED <<entryVars, uploadVars, session, up, down, deskVars>> /\ reader' # "failed"
    BY <1>d, <2>1 DEF uploadVars
  <2>q. QED BY <1>4, <1>5, <2>1, ReaderEffects
<1>s. CASE ClientStalls
  BY <1>d, <1>s DEF ClientStalls, uploadVars
<1>6. CASE CancelRetry
  <2>1. up' = Append(up, "request_cancel") \/ cancel' = "lost"
    BY <1>6, Zenon DEF CancelRetry
  <2>2. CASE up' = Append(up, "request_cancel")
    BY <1>3, <2>2, SendExtends DEF StreamTypes, UpFrame
  <2>3. CASE cancel' = "lost"
    BY <2>3 DEF Told
  <2>q. QED BY <2>1, <2>2, <2>3
<1>g. UNCHANGED gatewayVars => UNCHANGED <<reader, session, cancel>>
  BY DEF gatewayVars, readerVars, uploadVars
\* The desktop takes a frame: the request_cancel is still behind it, or this is it.
<1>7. ASSUME NEW frame \in UpFrame, TakeUp(frame), UNCHANGED gatewayVars,
             frame # "request" => (Running' => Running), frame = "request_cancel" => ~Running'
      PROVE  Told'
  <2>1. /\ Len(up) >= 1 /\ up[1] = frame /\ Len(up') = Len(up) - 1
        /\ \A i \in 1..Len(up') : up'[i] = up[i + 1]
    BY <1>7, TakeShortens DEF TakeUp, Shortened, StreamTypes
  <2>2. \A i \in 1..Len(up') : up'[i] # "request"
    BY <1>l, <2>1 DEF RequestFirst
  <2>3. UNCHANGED <<reader, session, cancel>>
    BY <1>7, <1>g
  <2>4. CASE frame = "request_cancel"
    BY <1>7, <2>2, <2>4 DEF Told
  <2>5. CASE frame # "request_cancel"
    <3>1. ASSUME NEW i \in 1..Len(up), up[i] = "request_cancel" PROVE i - 1 \in 1..Len(up')
              /\ up'[i - 1] = "request_cancel"
      <4>1. i # 1 /\ i - 1 \in 1..Len(up')
        BY <1>l, <2>1, <2>5, <3>1
      <4>2. up'[i - 1] = up[(i - 1) + 1] /\ (i - 1) + 1 = i
        BY <1>l, <2>1, <4>1
      <4>q. QED BY <3>1, <4>1, <4>2
    <3>2. CASE \E i \in 1..Len(up) : up[i] = "request_cancel"
      BY <3>1, <3>2 DEF Told
    <3>3. CASE ~Running /\ \A i \in 1..Len(up) : up[i] # "request"
      <4>1. frame # "request"
        BY <1>l, <2>1, <3>3
      <4>q. QED BY <1>7, <2>2, <3>3, <4>1 DEF Told
    <3>q. QED BY <2>3, <3>2, <3>3 DEF Told
  <2>q. QED BY <2>4, <2>5
<1>j. AbortJob => ~Running'
  BY DEF AbortJob, Running
<1>8. CASE DeskRequest
  BY <1>7, <1>8 DEF DeskRequest, UpFrame
<1>9. CASE DeskRefuse
  <2>1. TakeUp("request") /\ UNCHANGED <<gatewayVars, job>>
    BY <1>9, Zenon DEF DeskRefuse, jobVars
  <2>q. QED BY <1>7, <2>1 DEF UpFrame, Running
<1>10. CASE DeskBody
  <2>1. TakeUp("body") /\ UNCHANGED gatewayVars /\ (AbortJob \/ UNCHANGED job)
    BY <1>10, BodyEffects
  <2>2. Running' => Running
    BY <1>j, <2>1 DEF Running
  <2>q. QED BY <1>7, <2>1, <2>2 DEF UpFrame
<1>11. CASE DeskEnd
  BY <1>7, <1>11 DEF DeskEnd, UpFrame, Running, jobVars
<1>12. CASE DeskCancel
  BY <1>7, <1>12, <1>j DEF DeskCancel, UpFrame
<1>13. CASE ApologyRetry \/ Jam \/ DeskGone \/ BridgeNext \/ JobNext
  <2>1. UNCHANGED <<gatewayVars, up>>
    BY <1>13, Zenon DEF ApologyRetry, Jam, DeskGone, BridgeNext, BridgeReads, BridgeSeesEnd,
        BridgeStopsReading,
                        JobNext, JobHead, JobChunk, JobEnd, JobFails, JobError
  <2>2. Running' => Running
    <3>1. CASE ApologyRetry \/ Jam \/ BridgeNext
      BY <3>1 DEF ApologyRetry, Jam, BridgeNext, BridgeReads, BridgeSeesEnd, BridgeStopsReading, jobVars,
          Running
    <3>2. CASE DeskGone
      BY <1>j, <3>2 DEF DeskGone
    <3>3. CASE JobNext
      BY <3>3 DEF JobNext, JobHead, JobChunk, JobEnd, JobFails, JobError, Running
    <3>q. QED BY <1>13, <3>1, <3>2, <3>3
  <2>q. QED BY <1>a, <1>g, <2>1, <2>2
<1>14. CASE UNCHANGED vars
  BY <1>14, <1>d DEF vars, deskVars, bodyVars, jobVars
<1>q. QED
  BY <1>1, <1>2, <1>5, <1>6, <1>8, <1>9, <1>10, <1>11, <1>12, <1>13, <1>14, <1>s
     DEF Next, ReaderNext, DeskNext

-----------------------------------------------------------------------------
(* The response                                                            *)

responseVars == <<reader, delivered, replies, entry, errored, inHand, produced, whole>>

\* How a step that says nothing of the response may leave the job.
JobEnds ==
    \/ job' = job
    \/ job = "none" /\ job' = "open"
    \/ job \in {"open", "streaming", "failing"} /\ job' \in {"aborted", "failing"}
    \/ job = "failing" /\ job' = "done"

\* The types of the response, in the form its count needs them.
LEMMA ResponseTypes ==
    ASSUME StreamTypes
    PROVE  /\ Len(replies) \in Nat /\ Len(down) \in Nat /\ produced \in Nat /\ delivered \in Nat
           /\ Taken \in Nat /\ Held \in Nat /\ Made \in Nat /\ Nothing \notin Frame
<1>1. Len(replies) \in Nat /\ Len(down) \in Nat /\ produced \in Nat /\ delivered \in Nat
  BY McpStreamAssumption, LenProperties DEF StreamTypes
<1>q. QED BY <1>1 DEF Taken, Held, Made, Nothing, Frame

\* The job ends, or begins, and says nothing.
LEMMA ResponseAside ==
    ASSUME Responded, UNCHANGED <<responseVars, down, desk>>, JobEnds
    PROVE  Responded'
<1>1. UNCHANGED <<reader, delivered, replies, entry, errored, inHand, produced, whole, down, desk>>
  BY DEF responseVars
<1>2. (Reading' <=> Reading) /\ (Flowing' <=> Flowing) /\ Taken' = Taken /\ Held' = Held
  BY <1>1 DEF Reading, Flowing, Taken, Held
<1>3. job' \in {"none", "open", "streaming"} => job \in {"none", "open", "streaming"} /\ Made' = Made
  BY <1>1 DEF JobEnds, Made
<1>4. (whole' => job' = "done") /\ (job' \in {"none", "open"} => produced' = 0)
  BY <1>1 DEF JobEnds, Responded
<1>q. QED BY <1>1, <1>2, <1>3, <1>4 DEF Responded

\* A frame goes behind the ones of the response, and the count goes on with it: an error ends
\* the count, the end of the response is found where the count says.
LEMMA ResponseSent ==
    ASSUME StreamTypes, Responded, NEW frame \in Frame, Extended(down, frame, down'),
           UNCHANGED <<reader, delivered, replies, entry, errored, inHand, desk>>,
           \/ frame = "error" /\ JobEnds /\ UNCHANGED <<produced, whole>>
           \/ frame = "head" /\ job = "open" /\ job' = "streaming" /\ UNCHANGED <<produced, whole>>
           \/ frame = "chunk" /\ job = "streaming" /\ job' = job /\ produced' = produced + 1
               /\ UNCHANGED whole
           \/ frame = "end" /\ desk /\ job = "streaming" /\ job' = "done" /\ whole' = TRUE
               /\ UNCHANGED produced
    PROVE  Responded'
<1>t. /\ Len(replies) \in Nat /\ Len(down) \in Nat /\ produced \in Nat
      /\ Taken \in Nat /\ Held \in Nat /\ Made \in Nat
  BY ResponseTypes
<1>1. /\ Len(down') = Len(down) + 1 /\ down'[Len(down) + 1] = frame
      /\ \A i \in 1..Len(down) : down'[i] = down[i]
  BY <1>t DEF Extended
<1>2. (Reading' <=> Reading) /\ (Flowing' <=> Flowing) /\ Taken' = Taken /\ Held' = Held
  BY DEF Reading, Flowing, Taken, Held
<1>3. /\ \A n \in 0..Len(down) : Plain(down, n)' <=> Plain(down, n)
      /\ Plain(down, Len(down))' => Plain(down, Len(down)) /\ frame \in {"head", "chunk"}
  BY <1>1, <1>t DEF Plain
<1>4. ASSUME Flowing', NEW i \in 1..Len(down), down'[i] = "end", Plain(down, i - 1)'
      PROVE  whole /\ Taken + Len(replies) + Held + i = produced + 2
  <2>1. down[i] = "end" /\ Plain(down, i - 1)
    BY <1>1, <1>3, <1>4, <1>t
  <2>q. QED BY <1>2, <1>4, <2>1 DEF Responded
<1>5. CASE frame = "error" /\ JobEnds /\ UNCHANGED <<produced, whole>>
  <2>1. (whole' => job' = "done") /\ (job' \in {"none", "open"} => produced' = 0)
    BY <1>5 DEF JobEnds, Responded
  <2>2. Flowing' => \A i \in 1..Len(down') : down'[i] = "end" /\ Plain(down, i - 1)' =>
           whole' /\ Taken' + Len(replies') + Held' + i = produced' + 2
    BY <1>1, <1>2, <1>4, <1>5, <1>t
  <2>q. QED BY <1>2, <1>3, <1>5, <2>1, <2>2 DEF Responded
<1>6. CASE frame = "head" /\ job = "open" /\ job' = "streaming" /\ UNCHANGED <<produced, whole>>
  <2>1. ~whole /\ produced = 0 /\ Made = 0 /\ Made' = 1
    BY <1>6 DEF Responded, Made
  <2>2. Flowing' => \A i \in 1..Len(down') : down'[i] = "end" /\ Plain(down, i - 1)' =>
           whole' /\ Taken' + Len(replies') + Held' + i = produced' + 2
    BY <1>1, <1>2, <1>4, <1>6, <1>t
  <2>3. Flowing' /\ desk' /\ Plain(down, Len(down))' => Taken' + Len(replies') + Held' + Len(down') = Made'
    <3>1. Flowing /\ desk /\ Plain(down, Len(down)) => Taken + Len(replies) + Held + Len(down) = 0
      BY <1>6, <2>1 DEF Responded
    <3>q. QED BY <1>1, <1>2, <1>3, <1>t, <2>1, <3>1
  <2>q. QED BY <1>2, <1>6, <2>1, <2>2, <2>3 DEF Responded
<1>7. CASE frame = "chunk" /\ job = "streaming" /\ job' = job /\ produced' = produced + 1 /\ UNCHANGED whole
  <2>1. ~whole /\ Made = produced + 1 /\ Made' = Made + 1
    BY <1>7, <1>t DEF Responded, Made
  <2>2. Flowing' => \A i \in 1..Len(down') : ~(down'[i] = "end" /\ Plain(down, i - 1)')
    BY <1>1, <1>2, <1>4, <1>7, <1>t, <2>1
  <2>3. Flowing' /\ desk' /\ Plain(down, Len(down))' => Taken' + Len(replies') + Held' + Len(down') = Made'
    <3>1. Flowing /\ desk /\ Plain(down, Len(down)) => Taken + Len(replies) + Held + Len(down) = Made
      BY <1>7 DEF Responded
    <3>q. QED BY <1>1, <1>2, <1>3, <1>t, <2>1, <3>1
  <2>q. QED BY <1>2, <1>7, <2>1, <2>2, <2>3 DEF Responded
<1>8. CASE frame = "end" /\ desk /\ job = "streaming" /\ job' = "done" /\ whole' = TRUE /\ UNCHANGED produced
  <2>1. ~whole /\ Made = produced + 1
    BY <1>8 DEF Responded, Made
  <2>2. ASSUME Flowing', NEW i \in 1..Len(down'), down'[i] = "end", Plain(down, i - 1)'
        PROVE  Taken + Len(replies) + Held + i = produced + 2
    <3>1. i = Len(down) + 1
      BY <1>1, <1>4, <1>t, <2>1, <2>2
    <3>2. Plain(down, Len(down))
      BY <1>3, <1>t, <2>2, <3>1
    <3>3. Taken + Len(replies) + Held + Len(down) = Made
      BY <1>2, <1>8, <2>2, <3>2 DEF Responded
    <3>q. QED BY <1>t, <2>1, <3>1, <3>3
  <2>3. Flowing' => \A i \in 1..Len(down') : down'[i] = "end" /\ Plain(down, i - 1)' =>
           whole' /\ Taken' + Len(replies') + Held' + i = produced' + 2
    BY <1>2, <1>8, <2>2
  <2>q. QED BY <1>2, <1>8, <2>1, <2>3 DEF Responded
<1>q. QED BY <1>5, <1>6, <1>7, <1>8

\* session() returns and the frames that were not on the wire are lost: nothing more is counted,
\* and an end that was on the wire is where it was.
LEMMA ResponseCut ==
    ASSUME StreamTypes, Responded, UNCHANGED responseVars, JobEnds, ~desk', NEW n \in 0..Len(down),
           Len(down') = n, \A i \in 1..n : down'[i] = down[i]
    PROVE  Responded'
<1>t. Len(down) \in Nat
  BY ResponseTypes
<1>1. UNCHANGED <<reader, delivered, replies, entry, errored, inHand, produced, whole>>
  BY DEF responseVars
<1>2. (Reading' <=> Reading) /\ (Flowing' <=> Flowing) /\ Taken' = Taken /\ Held' = Held
  BY <1>1 DEF Reading, Flowing, Taken, Held
<1>3. (whole' => job' = "done") /\ (job' \in {"none", "open"} => produced' = 0)
  BY <1>1 DEF JobEnds, Responded
<1>4. \A i \in 1..n : i \in 1..Len(down) /\ (Plain(down, i - 1)' => Plain(down, i - 1))
  BY <1>t DEF Plain
<1>5. Flowing' => \A i \in 1..Len(down') : down'[i] = "end" /\ Plain(down, i - 1)' =>
         whole' /\ Taken' + Len(replies') + Held' + i = produced' + 2
  BY <1>1, <1>2, <1>4 DEF Responded
<1>q. QED BY <1>1, <1>2, <1>3, <1>5 DEF Responded

\* receive() takes a frame under the lock: it is counted in its hand, or it ends the entry.
LEMMA ResponseReceived ==
    ASSUME StreamTypes, Responded, ReceiveFrame
    PROVE  Responded'
<1>t. /\ Len(replies) \in Nat /\ Len(down) \in Nat /\ produced \in Nat
      /\ Taken \in Nat /\ Held \in Nat /\ Made \in Nat /\ Nothing \notin Frame
  BY ResponseTypes
<1>1. /\ inHand = Nothing /\ down # <<>> /\ down' = Tail(down)
      /\ UNCHANGED <<readerVars, replies, uploadVars, session, up, deskVars>>
  BY Zenon DEF ReceiveFrame
<1>2. UNCHANGED <<reader, delivered, replies, desk, job, produced, whole>>
  BY <1>1 DEF readerVars, deskVars, jobVars
<1>3. /\ Len(down) >= 1 /\ Head(down) = down[1] /\ down[1] \in Frame /\ Len(down') = Len(down) - 1
      /\ \A i \in 1..Len(down') : down'[i] = down[i + 1]
  BY <1>1, TakeShortens DEF StreamTypes, Shortened
<1>4. (Reading' <=> Reading) /\ Taken' = Taken /\ Made' = Made /\ Held = 0
  BY <1>1, <1>2 DEF Reading, Taken, Made, Held
<1>5. CASE ~entry
  <2>1. UNCHANGED <<entry, errored, inHand>>
    BY <1>5, Zenon DEF ReceiveFrame, entryVars
  <2>2. ~Flowing'
    BY <1>5, <2>1 DEF Flowing
  <2>q. QED BY <1>1, <1>2, <1>4, <1>5, <2>1, <2>2 DEF Responded
<1>6. CASE entry
  <2>1. PICK answer \in Frame :
          /\ answer = down[1] \/ answer = "error"
          /\ inHand' = answer /\ errored' = (errored \/ answer = "error")
          /\ entry' = (answer \notin {"end", "error"})
    <3> DEFINE over == Head(down) = "chunk" /\ received >= MaxResponse
               reply == IF over THEN "error" ELSE Head(down)
    <3>1. /\ inHand' = reply /\ errored' = (errored \/ reply = "error")
          /\ entry' = (reply \notin {"end", "error"})
      BY <1>6, Zenon DEF ReceiveFrame
    <3>2. reply \in Frame /\ (reply = down[1] \/ reply = "error")
      BY <1>3 DEF Frame
    <3>3. PICK answer : answer = reply
      OBVIOUS
    <3> HIDE DEF reply
    <3>q. QED BY <3>1, <3>2, <3>3, Zenon
  <2>2. Held' = 1 /\ inHand' # Nothing
    BY <1>t, <2>1 DEF Held
  \* A frame of the response: it moves on, and is counted once.
  <2>3. CASE answer \in {"head", "chunk"}
    <3>1. entry' /\ inHand' = down[1] /\ down[1] \in {"head", "chunk"}
      BY <2>1, <2>3
    <3>2. Flowing' <=> Flowing
      BY <1>1, <1>2, <1>6, <3>1 DEF Flowing, Reading
    <3>3. ASSUME NEW m \in 0..Len(down'), Plain(down, m)' PROVE Plain(down, m + 1)
      <4> SUFFICES ASSUME NEW j \in 1..(m + 1) PROVE down[j] \in {"head", "chunk"}
        BY DEF Plain
      <4>1. CASE j = 1
        BY <3>1, <4>1
      <4>2. CASE j > 1
        <5>1. j - 1 \in 1..m /\ j - 1 \in 1..Len(down') /\ (j - 1) + 1 = j
          BY <1>3, <1>t, <4>2
        <5>2. down'[j - 1] \in {"head", "chunk"} /\ down'[j - 1] = down[(j - 1) + 1]
          BY <1>3, <3>3, <5>1 DEF Plain
        <5>q. QED BY <5>1, <5>2
      <4>q. QED BY <4>1, <4>2
    <3>4. ASSUME Flowing', desk', Plain(down, Len(down))', job' \in {"none", "open", "streaming"}
          PROVE  Taken' + Len(replies') + Held' + Len(down') = Made'
      <4>1. Plain(down, Len(down))
        BY <1>3, <1>t, <3>3, <3>4
      <4>2. Taken + Len(replies) + Held + Len(down) = Made
        BY <1>2, <3>2, <3>4, <4>1 DEF Responded
      <4>3. Taken + Len(replies) + 1 + (Len(down) - 1) = Made
        BY <1>4, <1>t, <4>2
      <4>q. QED BY <1>2, <1>3, <1>4, <2>2, <4>3
    <3>5. ASSUME Flowing', NEW i \in 1..Len(down'), down'[i] = "end", Plain(down, i - 1)'
          PROVE  whole' /\ Taken' + Len(replies') + Held' + i = produced' + 2
      <4>1. i + 1 \in 1..Len(down) /\ down[i + 1] = "end" /\ i - 1 \in 0..Len(down') /\ (i - 1) + 1 = i
                /\ (i + 1) - 1 = i
        BY <1>3, <1>t, <3>5
      <4>2. Plain(down, i)
        BY <3>3, <3>5, <4>1
      <4>3. whole /\ Taken + Len(replies) + Held + (i + 1) = produced + 2
        BY <3>2, <3>5, <4>1, <4>2 DEF Responded
      <4>q. QED BY <1>2, <1>4, <1>t, <2>2, <4>3
    <3>6. inHand' \notin {"end", "error"}
      BY <2>1, <2>3
    <3>q. QED BY <1>2, <1>4, <3>1, <3>4, <3>5, <3>6 DEF Responded
  \* The end of the response: it is where the count says, and the entry is over.
  <2>4. CASE answer = "end"
    <3>1. ~entry' /\ down[1] = "end" /\ inHand' = "end" /\ ~Flowing'
      BY <2>1, <2>4 DEF Flowing
    <3>2. ASSUME Reading', Plain(replies, Len(replies))' PROVE whole'
              /\ Taken' + Len(replies') = produced' + 1
      <4>1. Flowing
        BY <1>1, <1>2, <1>4, <1>6, <3>2 DEF Flowing
      <4>2. 1 \in 1..Len(down) /\ Plain(down, 1 - 1)
        BY <1>3, <1>t DEF Plain
      <4>3. whole /\ Taken + Len(replies) + Held + 1 = produced + 2
        BY <3>1, <4>1, <4>2 DEF Responded
      <4>q. QED BY <1>2, <1>4, <1>t, <4>3
    <3>q. QED BY <1>2, <1>4, <3>1, <3>2 DEF Responded
  <2>5. CASE answer = "error"
    <3>1. ~entry' /\ errored' /\ inHand' = "error" /\ ~Flowing'
      BY <2>1, <2>5 DEF Flowing
    <3>q. QED BY <1>2, <1>4, <3>1 DEF Responded
  <2>q. QED BY <2>1, <2>3, <2>4, <2>5 DEF Frame
<1>q. QED BY <1>5, <1>6

\* The reply in hand goes into the channel, or the entry fails with it.
LEMMA ResponseDelivered ==
    ASSUME StreamTypes, Responded, Deliver
    PROVE  Responded'
<1>t. /\ Len(replies) \in Nat /\ Len(down) \in Nat /\ produced \in Nat
      /\ Taken \in Nat /\ Held \in Nat /\ Made \in Nat
  BY ResponseTypes
<1>1. /\ inHand # Nothing /\ inHand' = Nothing
      /\ UNCHANGED <<readerVars, received, uploadVars, session, up, down, deskVars>>
  BY Zenon DEF Deliver
<1>2. UNCHANGED <<reader, delivered, down, desk, job, produced, whole>>
  BY <1>1 DEF readerVars, deskVars, jobVars
<1>3. (Reading' <=> Reading) /\ Taken' = Taken /\ Made' = Made /\ Held = 1 /\ Held' = 0
  BY <1>1, <1>2 DEF Reading, Taken, Made, Held
<1>n. inHand' \notin {"end", "error"}
  BY <1>1 DEF Nothing
<1>4. \/ Reading /\ replies' = Append(replies, inHand) /\ UNCHANGED <<entry, errored>>
      \/ errored' = TRUE /\ entry' = FALSE /\ UNCHANGED replies
  BY Zenon DEF Deliver
<1>5. CASE errored' = TRUE /\ entry' = FALSE /\ UNCHANGED replies
  <2>1. ~Flowing' /\ ~entry' /\ errored' /\ replies' = replies
    BY <1>5 DEF Flowing
  <2>q. QED BY <1>2, <1>3, <1>n, <2>1 DEF Responded
<1>6. CASE Reading /\ replies' = Append(replies, inHand) /\ UNCHANGED <<entry, errored>>
  <2>1. /\ Len(replies') = Len(replies) + 1 /\ replies'[Len(replies) + 1] = inHand
        /\ \A i \in 1..Len(replies) : replies'[i] = replies[i]
    BY <1>1, <1>6, SendExtends DEF StreamTypes, Extended
  <2>2. entry' = entry /\ errored' = errored
    BY <1>6
  <2>3. Flowing' => Flowing
    <3>1. entry => inHand \in {"head", "chunk"}
      BY <1>1 DEF Responded, StreamTypes, Frame
    <3>2. Plain(replies, Len(replies))' => Plain(replies, Len(replies))
      BY <1>t, <2>1 DEF Plain
    <3>q. QED BY <1>3, <2>2, <3>1, <3>2 DEF Flowing
  <2>4. ASSUME Flowing', desk', Plain(down, Len(down))', job' \in {"none", "open", "streaming"}
        PROVE  Taken' + Len(replies') + Held' + Len(down') = Made'
    <3>1. Taken + Len(replies) + Held + Len(down) = Made
      BY <1>2, <2>3, <2>4 DEF Responded
    <3>2. Taken + (Len(replies) + 1) + 0 + Len(down) = Made
      BY <1>3, <1>t, <3>1
    <3>q. QED BY <1>2, <1>3, <2>1, <3>2
  <2>5. ASSUME Flowing', NEW i \in 1..Len(down'), down'[i] = "end", Plain(down, i - 1)'
        PROVE  whole' /\ Taken' + Len(replies') + Held' + i = produced' + 2
    <3>1. whole /\ Taken + Len(replies) + Held + i = produced + 2
      BY <1>2, <2>3, <2>5 DEF Responded
    <3>2. Taken + (Len(replies) + 1) + 0 + i = produced + 2
      BY <1>2, <1>3, <1>t, <3>1
    <3>q. QED BY <1>2, <1>3, <2>1, <3>1, <3>2
  <2>6. ASSUME NEW i \in 1..Len(replies'), replies'[i] = "end", Plain(replies, i - 1)'
        PROVE  whole' /\ Taken' + i = produced' + 2
    <3>1. CASE i \in 1..Len(replies)
      <4>1. replies[i] = "end" /\ Plain(replies, i - 1)
        BY <1>t, <2>1, <2>6, <3>1 DEF Plain
      <4>2. whole /\ Taken + i = produced + 2
        BY <1>6, <3>1, <4>1 DEF Responded
      <4>q. QED BY <1>2, <1>3, <4>2
    <3>2. CASE i = Len(replies) + 1
      <4>1. inHand = "end" /\ Plain(replies, Len(replies))
        BY <1>t, <2>1, <2>6, <3>2 DEF Plain
      <4>2. whole /\ Taken + Len(replies) = produced + 1
        BY <1>6, <4>1 DEF Responded
      <4>3. Taken + (Len(replies) + 1) = produced + 2
        BY <1>t, <4>2
      <4>q. QED BY <1>2, <1>3, <3>2, <4>2, <4>3
    <3>q. QED BY <1>t, <2>1, <3>1, <3>2
  <2>7. ~entry' /\ ~errored' => \E i \in 1..Len(replies') : replies'[i] = "end"
    <3>1. CASE inHand = "end"
      BY <1>t, <2>1, <3>1
    <3>2. CASE \E i \in 1..Len(replies) : replies[i] = "end"
      BY <1>t, <2>1, <3>2
    <3>q. QED BY <1>6, <2>2, <3>1, <3>2 DEF Responded
  <2>q. QED BY <1>1, <1>2, <1>3, <1>n, <2>4, <2>5, <2>6, <2>7 DEF Responded, Nothing
<1>q. QED BY <1>4, <1>5, <1>6

\* Something that is not of the response goes into the channel, or the entry is taken away: what
\* is before it is as it was, and an entry that goes leaves the error.
LEMMA ResponseRefused ==
    ASSUME StreamTypes, Responded, UNCHANGED <<reader, delivered, inHand, down, desk, job, produced, whole>>,
           entry' => entry, ~entry' /\ ~errored' => ~entry /\ ~errored,
           \/ UNCHANGED replies
           \/ Extended(replies, "error", replies') \/ Extended(replies, "upload_failed", replies')
    PROVE  Responded'
<1>t. /\ Len(replies) \in Nat /\ Len(down) \in Nat /\ produced \in Nat
      /\ Taken \in Nat /\ Held \in Nat /\ Made \in Nat
  BY ResponseTypes
<1>1. (Reading' <=> Reading) /\ Taken' = Taken /\ Made' = Made /\ Held' = Held
  BY DEF Reading, Taken, Made, Held
<1>2. CASE UNCHANGED replies
  <2>1. Flowing' => Flowing
    BY <1>1, <1>2 DEF Flowing
  <2>q. QED BY <1>1, <1>2, <2>1 DEF Responded
<1>3. ASSUME NEW frame \in {"error", "upload_failed"}, Extended(replies, frame, replies') PROVE Responded'
  <2>1. /\ Len(replies') = Len(replies) + 1 /\ replies'[Len(replies) + 1] = frame
        /\ \A i \in 1..Len(replies) : replies'[i] = replies[i]
    BY <1>3, <1>t DEF Extended
  <2>2. ~Plain(replies, Len(replies))' /\ ~Flowing'
    BY <1>3, <1>t, <2>1 DEF Plain, Flowing
  <2>3. ASSUME Reading', NEW i \in 1..Len(replies'), replies'[i] = "end", Plain(replies, i - 1)'
        PROVE  whole' /\ Taken' + i = produced' + 2
    <3>1. i \in 1..Len(replies)
      BY <1>3, <1>t, <2>1, <2>3
    <3>2. replies[i] = "end" /\ Plain(replies, i - 1)
      BY <1>t, <2>1, <2>3, <3>1 DEF Plain
    <3>q. QED BY <1>1, <2>3, <3>1, <3>2 DEF Responded
  <2>4. Reading' /\ ~entry' /\ ~errored' => inHand' = "end" \/ \E i \in 1..Len(replies') : replies'[i] = "end"
    BY <1>1, <1>t, <2>1 DEF Responded
  <2>q. QED BY <1>1, <2>2, <2>3, <2>4 DEF Responded
<1>q. QED BY <1>2, <1>3

\* The reader takes a frame of the response and goes on.
LEMMA ResponseRead ==
    ASSUME StreamTypes, Responded, UNCHANGED <<entry, errored, inHand, down, desk, job, produced, whole>>,
           replies # <<>>, replies' = Tail(replies), Head(replies) \in {"head", "chunk"}, reader' = "body",
           \/ reader = "head" /\ UNCHANGED delivered
           \/ reader = "body" /\ delivered' = delivered + 1
    PROVE  Responded'
<1>t. /\ Len(replies) \in Nat /\ Len(down) \in Nat /\ produced \in Nat /\ delivered \in Nat
      /\ Taken \in Nat /\ Held \in Nat /\ Made \in Nat
  BY ResponseTypes
<1>1. /\ Len(replies) >= 1 /\ Len(replies') = Len(replies) - 1 /\ replies[1] \in {"head", "chunk"}
      /\ \A i \in 1..Len(replies') : replies'[i] = replies[i + 1]
  BY TakeShortens DEF StreamTypes, Shortened
<1>2. Reading /\ Reading' /\ Made' = Made /\ Held' = Held
  BY DEF Reading, Made, Held
<1>3. Taken' = Taken + 1
  BY <1>t DEF Taken, Responded
<1>4. ASSUME NEW m \in 0..Len(replies'), Plain(replies, m)' PROVE Plain(replies, m + 1)
  <2> SUFFICES ASSUME NEW j \in 1..(m + 1) PROVE replies[j] \in {"head", "chunk"}
    BY DEF Plain
  <2>1. CASE j = 1
    BY <1>1, <2>1
  <2>2. CASE j > 1
    <3>1. j - 1 \in 1..m /\ j - 1 \in 1..Len(replies') /\ (j - 1) + 1 = j
      BY <1>1, <1>t, <2>2
    <3>2. replies'[j - 1] \in {"head", "chunk"} /\ replies'[j - 1] = replies[(j - 1) + 1]
      BY <1>1, <1>4, <3>1 DEF Plain
    <3>q. QED BY <3>1, <3>2
  <2>q. QED BY <2>1, <2>2
<1>5. Plain(replies, Len(replies))' => Plain(replies, Len(replies))
  BY <1>1, <1>4, <1>t
<1>6. Flowing' => Flowing
  BY <1>2, <1>5 DEF Flowing
<1>7. ASSUME Flowing', desk', Plain(down, Len(down))', job' \in {"none", "open", "streaming"}
      PROVE  Taken' + Len(replies') + Held' + Len(down') = Made'
  <2>1. Taken + Len(replies) + Held + Len(down) = Made
    BY <1>6, <1>7 DEF Responded
  <2>2. (Taken + 1) + (Len(replies) - 1) + Held + Len(down) = Made
    BY <1>t, <2>1
  <2>3. Len(down') = Len(down)
    OBVIOUS
  <2>q. QED BY <1>1, <1>2, <1>3, <2>2, <2>3
<1>8. ASSUME Flowing', NEW i \in 1..Len(down'), down'[i] = "end", Plain(down, i - 1)'
      PROVE  whole' /\ Taken' + Len(replies') + Held' + i = produced' + 2
  <2>1. whole /\ Taken + Len(replies) + Held + i = produced + 2
    BY <1>6, <1>8 DEF Responded
  <2>2. i \in Int
    BY <1>t
  <2>3. (Taken + 1) + (Len(replies) - 1) + Held + i = produced + 2
    BY <1>t, <2>1, <2>2
  <2>4. produced' = produced /\ whole' = whole
    OBVIOUS
  <2>q. QED BY <1>1, <1>2, <1>3, <2>1, <2>3, <2>4
<1>9. ASSUME Plain(replies, Len(replies))', inHand' = "end"
      PROVE  whole' /\ Taken' + Len(replies') = produced' + 1
  <2>1. whole /\ Taken + Len(replies) = produced + 1
    BY <1>2, <1>5, <1>9 DEF Responded
  <2>2. (Taken + 1) + (Len(replies) - 1) = produced + 1
    BY <1>t, <2>1
  <2>3. produced' = produced /\ whole' = whole
    OBVIOUS
  <2>q. QED BY <1>1, <1>3, <2>1, <2>2, <2>3
<1>10. ASSUME NEW i \in 1..Len(replies'), replies'[i] = "end", Plain(replies, i - 1)'
       PROVE  whole' /\ Taken' + i = produced' + 2
  <2>1. /\ i + 1 \in 1..Len(replies) /\ replies[i + 1] = "end" /\ i - 1 \in 0..Len(replies')
        /\ (i - 1) + 1 = i /\ (i + 1) - 1 = i /\ i \in Int
    BY <1>1, <1>10, <1>t
  <2>2. Plain(replies, i)
    BY <1>10, <1>4, <2>1
  <2>3. whole /\ Taken + (i + 1) = produced + 2
    BY <1>2, <2>1, <2>2 DEF Responded
  <2>4. (Taken + 1) + i = produced + 2
    BY <1>t, <2>1, <2>3
  <2>5. produced' = produced /\ whole' = whole
    OBVIOUS
  <2>q. QED BY <1>3, <2>3, <2>4, <2>5
<1>11. ~entry' /\ ~errored' => inHand' = "end" \/ \E i \in 1..Len(replies') : replies'[i] = "end"
  <2>1. ASSUME NEW i \in 1..Len(replies), replies[i] = "end"
            PROVE \E k \in 1..Len(replies') : replies'[k] = "end"
    <3>1. i - 1 \in 1..Len(replies') /\ (i - 1) + 1 = i
      BY <1>1, <1>t, <2>1
    <3>2. replies'[i - 1] = replies[(i - 1) + 1]
      BY <1>1, <3>1
    <3>q. QED BY <2>1, <3>1, <3>2
  <2>q. QED BY <1>2, <2>1 DEF Responded
<1>q. QED BY <1>2, <1>7, <1>8, <1>9, <1>10, <1>11 DEF Responded

\* The response is over: a failure says nothing of it.
LEMMA ResponseOver ==
    ASSUME Responded, reader' \in {"complete", "failed"}, entry' = FALSE,
           UNCHANGED <<inHand, job, produced, whole>>, reader' = "complete" => whole /\ delivered' = produced
    PROVE  Responded'
<1>1. ~Reading' /\ ~Flowing' /\ ~entry'
  BY DEF Reading, Flowing
<1>q. QED BY <1>1 DEF Responded

\* Every step keeps the count of the response.
LEMMA ResponseStep ==
    ASSUME StreamTypes, RequestFirst, Responded, [Next]_vars
    PROVE  Responded'
<1>t. Len(down) \in Nat
  BY ResponseTypes
<1>g. UNCHANGED gatewayVars => UNCHANGED <<reader, delivered, replies, entry, errored, inHand>>
  BY DEF gatewayVars, readerVars, entryVars
<1>d. UNCHANGED deskVars => UNCHANGED <<desk, job, produced, whole>>
  BY DEF deskVars, jobVars
<1>e. UNCHANGED entryVars => UNCHANGED <<entry, errored, inHand>>
  BY DEF entryVars
<1>a. ASSUME UNCHANGED <<readerVars, replies, entryVars, down, deskVars>> PROVE Responded'
  BY <1>a, <1>d, <1>e, ResponseAside DEF responseVars, JobEnds, readerVars
<1>1. CASE UploadNext
  <2>1. UNCHANGED <<readerVars, entryVars, down, deskVars>>
    BY <1>1, Zenon DEF UploadNext, UploadChunk, UploadEnd, UploadInterrupted, UploadReport, UploadStops
  <2>2. UNCHANGED replies \/ replies' = Append(replies, "upload_failed")
    BY <1>1, Zenon DEF UploadNext, UploadChunk, UploadEnd, UploadInterrupted, UploadReport, UploadStops
  <2>3. CASE replies' = Append(replies, "upload_failed")
    <3>1. Extended(replies, "upload_failed", replies')
      BY <2>3, SendExtends DEF StreamTypes
    <3>q. QED BY <1>d, <1>e, <2>1, <3>1, ResponseRefused DEF readerVars
  <2>q. QED BY <1>a, <2>1, <2>2, <2>3
<1>2. CASE Retire \/ Disconnect
  <2>1. /\ ~entry' /\ (~errored' => ~entry /\ ~errored)
        /\ UNCHANGED <<inHand, readerVars, down, deskVars>>
    BY <1>2 DEF Retire, Disconnect, FailEntry
  <2>2. UNCHANGED replies \/ replies' = Append(replies, "error")
    BY <1>2, Zenon DEF Retire, Disconnect, FailEntry
  <2>3. UNCHANGED replies \/ Extended(replies, "error", replies')
    <3>1. CASE replies' = Append(replies, "error")
      BY <3>1, SendExtends DEF StreamTypes, Frame
    <3>q. QED BY <2>2, <3>1
  <2>q. QED BY <1>d, <2>1, <2>3, ResponseRefused DEF readerVars
<1>3. CASE SessionNext
  <2>1. CASE SessionLost
    BY <1>a, <2>1 DEF SessionLost
  <2>q. QED BY <1>2, <1>3, <2>1, ResponseReceived, ResponseDelivered DEF SessionNext
<1>4. ASSUME DropGuard("failed", FALSE) PROVE Responded'
  <2>1. reader' = "failed" /\ entry' = FALSE /\ UNCHANGED <<inHand, deskVars>>
    BY <1>4, Zenon DEF DropGuard
  <2>q. QED BY <1>d, <2>1, ResponseOver
<1>5. CASE ReadHead
  <2>1. reader = "head" /\ replies # <<>> /\ replies' = Tail(replies) /\ UNCHANGED delivered
    BY <1>5, Zenon DEF ReadHead
  <2>2. \/ /\ Head(replies) = "head" /\ reader' = "body"
           /\ UNCHANGED <<entryVars, uploadVars, session, up, down, deskVars>>
        \/ DropGuard("failed", FALSE)
    BY <1>5, Zenon DEF ReadHead
  <2>3. CASE /\ Head(replies) = "head" /\ reader' = "body"
             /\ UNCHANGED <<entryVars, uploadVars, session, up, down, deskVars>>
    BY <1>d, <1>e, <2>1, <2>3, ResponseRead
  <2>q. QED BY <1>4, <2>2, <2>3
<1>6. CASE ReadBody
  <2>1. reader = "body" /\ replies # <<>> /\ replies' = Tail(replies)
    BY <1>6, Zenon DEF ReadBody
  <2>2. \/ /\ Head(replies) = "chunk" /\ delivered' = delivered + 1
           /\ UNCHANGED <<reader, entryVars, uploadVars, session, up, down, deskVars>>
        \/ Head(replies) = "end" /\ DropGuard("complete", TRUE) /\ UNCHANGED delivered
        \/ DropGuard("failed", FALSE)
    BY <1>6 DEF ReadBody
  <2>3. CASE /\ Head(replies) = "chunk" /\ delivered' = delivered + 1
             /\ UNCHANGED <<reader, entryVars, uploadVars, session, up, down, deskVars>>
    BY <1>d, <1>e, <2>1, <2>3, ResponseRead
  <2>4. CASE Head(replies) = "end" /\ DropGuard("complete", TRUE) /\ UNCHANGED delivered
    <3>1. 1 \in 1..Len(replies) /\ replies[1] = "end" /\ Plain(replies, 1 - 1) /\ Len(replies) \in Nat
      BY <2>1, <2>4, TakeShortens DEF StreamTypes, Plain
    <3>2. whole /\ Taken + 1 = produced + 2
      BY <2>1, <3>1 DEF Responded, Reading
    <3>3. Taken = delivered + 1 /\ delivered \in Nat /\ produced \in Nat
      BY <2>1, ResponseTypes DEF Taken
    <3>4. delivered = produced
      BY <3>2, <3>3
    <3>q. QED BY <1>d, <2>4, <3>2, <3>4, GuardEffects, ResponseOver
  <2>q. QED BY <1>4, <2>2, <2>3, <2>4
\* The channel is closed without an end only after an error.
<1>7. CASE ReadClosed
  <2>1. /\ Reading /\ replies = <<>> /\ ~entry /\ inHand = Nothing
        /\ \/ DropGuard("failed", FALSE)
           \/ ~errored
    BY <1>7 DEF ReadClosed
  <2>2. ~errored => FALSE
    <3>1. Len(replies) = 0
      BY <2>1, EmptySeq
    <3>q. QED BY <2>1, <3>1 DEF Responded, Nothing
  <2>q. QED BY <1>4, <2>1, <2>2
<1>8. CASE ReadTimeout \/ ClientLeaves
  BY <1>4, <1>8 DEF ReadTimeout, ClientLeaves
<1>19. CASE ClientStalls
  <2>1. UNCHANGED <<reader, delivered, replies, entryVars, down, deskVars>>
    BY <1>19 DEF ClientStalls
  <2>q. QED BY <1>d, <1>e, <2>1, ResponseAside DEF responseVars, JobEnds
<1>9. CASE CancelRetry
  BY <1>9, <1>a DEF CancelRetry
<1>j. AbortJob => JobEnds
  BY DEF AbortJob, JobEnds, Running
\* Steps of the desktop that say nothing, and steps that say a frame.
<1>s. ASSUME UNCHANGED <<gatewayVars, down, desk, produced, whole>>, JobEnds PROVE Responded'
  BY <1>g, <1>s, ResponseAside DEF responseVars
<1>f. ASSUME UNCHANGED <<gatewayVars, desk, produced, whole>>, down' = Append(down, "error"), JobEnds
          PROVE Responded'
  <2>1. "error" \in Frame /\ Extended(down, "error", down')
    BY <1>f, SendExtends DEF StreamTypes, Frame
  <2>q. QED BY <1>f, <1>g, <2>1, ResponseSent
<1>10. CASE DeskRequest
  <2>1. TakeUp("request") /\ job' = "open" /\ UNCHANGED <<gatewayVars, down, desk, produced, whole>>
    BY <1>10 DEF DeskRequest
  <2>2. 1 \in 1..Len(up) /\ up[1] = "request"
    BY <2>1, TakeShortens DEF TakeUp, StreamTypes
  <2>3. JobEnds
    BY <2>1, <2>2 DEF RequestFirst, JobEnds
  <2>q. QED BY <1>s, <2>1, <2>3
<1>11. CASE DeskRefuse
  <2>1. UNCHANGED <<gatewayVars, desk, job, produced, whole>>
    BY <1>11, Zenon DEF DeskRefuse, jobVars
  <2>2. UNCHANGED down \/ down' = Append(down, "error")
    BY <1>11, Zenon DEF DeskRefuse
  <2>q. QED BY <1>f, <1>s, <2>1, <2>2 DEF JobEnds
<1>12. CASE DeskBody
  <2>1. UNCHANGED <<gatewayVars, desk, produced, whole>>
    BY <1>12, BodyEffects
  <2>2. \/ UNCHANGED <<job, down>>
        \/ AbortJob /\ UNCHANGED down
        \/ AbortJob /\ down' = Append(down, "error")
    BY <1>12, BodyEffects, Zenon
  <2>3. CASE UNCHANGED <<job, down>>
    BY <1>s, <2>1, <2>3 DEF JobEnds
  <2>q. QED BY <1>f, <1>j, <1>s, <2>1, <2>2, <2>3
<1>13. CASE DeskEnd \/ DeskCancel
  <2>1. UNCHANGED <<gatewayVars, down, desk, produced, whole>> /\ (UNCHANGED job \/ AbortJob)
    BY <1>13, Zenon DEF DeskEnd, DeskCancel, jobVars
  <2>q. QED BY <1>j, <1>s, <2>1 DEF JobEnds
<1>14. CASE ApologyRetry
  <2>1. UNCHANGED <<gatewayVars, desk, job, produced, whole>>
    BY <1>14, Zenon DEF ApologyRetry
  <2>2. UNCHANGED down \/ down' = Append(down, "error")
    BY <1>14, Zenon DEF ApologyRetry
  <2>q. QED BY <1>f, <1>s, <2>1, <2>2 DEF JobEnds
<1>15. CASE DeskGone
  <2>1. ~desk' /\ AbortJob /\ UNCHANGED <<gatewayVars, produced, whole>>
    BY <1>15, Zenon DEF DeskGone
  <2>2. PICK n \in 0..Len(down) : down' = SubSeq(down, 1, n)
    BY <1>15, Zenon DEF DeskGone
  <2>3. Len(down') = n /\ \A i \in 1..n : down'[i] = down[i]
    BY <2>2, CutKeeps DEF StreamTypes
  <2>4. UNCHANGED responseVars
    BY <1>g, <2>1 DEF responseVars
  <2>q. QED BY <1>j, <2>1, <2>3, <2>4, ResponseCut
<1>16. CASE BridgeNext \/ JobFails \/ Jam
  <2>1. UNCHANGED <<gatewayVars, down, desk, produced, whole>>
    BY <1>16, Zenon DEF BridgeNext, BridgeReads, BridgeSeesEnd, BridgeStopsReading, JobFails, Jam, jobVars
  <2>2. JobEnds
    BY <1>16 DEF BridgeNext, BridgeReads, BridgeSeesEnd, BridgeStopsReading, JobFails, Jam, jobVars, JobEnds
  <2>q. QED BY <1>s, <2>1, <2>2
<1>17. CASE JobHead \/ JobChunk \/ JobEnd \/ JobError
  <2>1. UNCHANGED <<gatewayVars, desk>> /\ desk
    BY <1>17, Zenon DEF JobHead, JobChunk, JobEnd, JobError, Tell
  <2>2. ASSUME NEW frame \in Frame, down' = Append(down, frame) PROVE Extended(down, frame, down')
    BY <2>2, SendExtends DEF StreamTypes
  <2>3. CASE JobHead
    <3>1. job = "open" /\ job' = "streaming" /\ UNCHANGED <<produced, whole>> /\ down' = Append(down, "head")
      BY <2>3, Zenon DEF JobHead, Tell
    <3>q. QED BY <1>g, <2>1, <2>2, <3>1, ResponseSent DEF Frame
  <2>4. CASE JobChunk
    <3>1. /\ job = "streaming" /\ job' = job /\ produced' = produced + 1 /\ UNCHANGED whole
          /\ down' = Append(down, "chunk")
      BY <2>4, Zenon DEF JobChunk, Tell
    <3>q. QED BY <1>g, <2>1, <2>2, <3>1, ResponseSent DEF Frame
  <2>5. CASE JobEnd
    <3>1. /\ job = "streaming" /\ job' = "done" /\ whole' = TRUE /\ UNCHANGED produced
          /\ down' = Append(down, "end")
      BY <2>5, Zenon DEF JobEnd, Tell
    <3>q. QED BY <1>g, <2>1, <2>2, <3>1, ResponseSent DEF Frame
  <2>6. CASE JobError
    <3>1. job = "failing" /\ job' = "done" /\ UNCHANGED <<produced, whole>> /\ down' = Append(down, "error")
      BY <2>6, Zenon DEF JobError, Tell
    <3>q. QED BY <1>f, <2>1, <3>1 DEF JobEnds
  <2>q. QED BY <1>17, <2>3, <2>4, <2>5, <2>6
<1>18. CASE UNCHANGED vars
  BY <1>18, <1>a DEF vars, readerVars, entryVars, deskVars, bodyVars, jobVars
<1>q. QED
  BY <1>1, <1>3, <1>5, <1>6, <1>7, <1>8, <1>9, <1>10, <1>11, <1>12, <1>13, <1>14, <1>15, <1>16, <1>17, <1>18,
     <1>19 DEF Next, ReaderNext, DeskNext, JobNext

-----------------------------------------------------------------------------
(* The theorems                                                            *)

\* The call begins in the invariant.
LEMMA StreamInit == Init => StreamInv
<1> SUFFICES ASSUME Init PROVE StreamInv
  OBVIOUS
<1>q1. <<"request">> \in Seq(UpFrame) /\ Len(<<"request">>) = 1 /\ <<"request">>[1] = "request"
  BY DEF UpFrame
<1>q2. Len(<<>>) = 0 /\ \A S : <<>> \in Seq(S)
  BY EmptySeq
<1>1. StreamTypes
  <2>1. /\ polled \in BOOLEAN /\ entry \in BOOLEAN /\ errored \in BOOLEAN /\ desk \in BOOLEAN
             /\ slot \in BOOLEAN
        /\ listening \in BOOLEAN /\ eof \in BOOLEAN /\ whole \in BOOLEAN
    BY Zenon DEF Init
  <2>2. /\ replies \in Seq(Frame \cup {"upload_failed"}) /\ Len(replies) = 0
        /\ down \in Seq(Frame) /\ Len(down) = 0 /\ up \in Seq(UpFrame) /\ Len(up) = 1
    BY <1>q1, <1>q2 DEF Init
  <2>3. /\ 0 <= ReplyCap /\ 0 <= DownCap /\ 1 <= UpCap /\ 0 \in 0..MaxResponse /\ 0 \in 0..UploadSize
        /\ 0 \in 0..BodyCap
    BY McpStreamAssumption
  <2>4. /\ delivered = 0 /\ received = 0 /\ produced = 0 /\ sent = 0 /\ consumed = 0 /\ body = 0
        /\ reader = "head" /\ inHand = Nothing /\ upload = "streaming" /\ session = "open" /\ job = "none"
        /\ cancel = Nothing /\ apology = Nothing /\ link = "moving"
    BY DEF Init
  <2>q. QED BY <2>1, <2>2, <2>3, <2>4 DEF StreamTypes
<1>2. RequestFirst
  BY <1>q1 DEF Init, RequestFirst
<1>3. Uploaded
  BY <1>q1, McpStreamAssumption DEF Init, Uploaded, Over, OnlyChunks, Chunks, Taking, Waiting
<1>4. Told
  BY DEF Init, Told
<1>5. Responded
  BY <1>q2 DEF Init, Responded, Flowing, Reading, Plain, Taken, Held, Made, Nothing
<1>q. QED BY <1>1, <1>2, <1>3, <1>4, <1>5 DEF StreamInv

\* Every step of the gateway, the desktop and the bridge keeps it.
LEMMA StreamStep == StreamInv /\ [Next]_vars => StreamInv'
<1> SUFFICES ASSUME StreamInv, [Next]_vars PROVE StreamInv'
  OBVIOUS
<1>1. StreamTypes /\ RequestFirst /\ Uploaded /\ Told /\ Responded
  BY DEF StreamInv
<1>2. StreamTypes'
  <2>1. CASE UNCHANGED vars
    BY <1>1, <2>1 DEF vars, StreamTypes
  <2>q. QED BY <1>1, <2>1, GatewayTypes, DesktopTypes DEF Next
<1>3. RequestFirst' /\ Uploaded' /\ Told' /\ Responded'
  BY <1>1, UploadStep, ToldStep, ResponseStep
<1>q. QED BY <1>2, <1>3 DEF StreamInv

\* So it always holds.
LEMMA StreamInvariant == Spec => []StreamInv
  BY StreamInit, StreamStep, PTL DEF Spec

\* Every variable has its type and every queue its bound, for any capacities; that the bridge
\* never reads more than the client sent follows from the count of the upload.
THEOREM StreamTyped == Spec => []TypeOK
<1>1. StreamInv => TypeOK
  <2> SUFFICES ASSUME StreamInv PROVE TypeOK
    OBVIOUS
  <2>1. StreamTypes /\ consumed + body <= sent
    BY DEF StreamInv, Uploaded
  <2>2. consumed \in 0..UploadSize
    BY <2>1, McpStreamAssumption DEF StreamTypes
  <2>q. QED BY <2>1, <2>2 DEF StreamTypes, TypeOK
<1>q. QED
  BY <1>1, StreamInvariant, PTL

\* receive()'s promise that a slow consumer never gets a silently truncated response, for any
\* length of the response and any capacity of the queues.
THEOREM ResponseNeverTruncated == Spec => []NoSilentTruncation
<1>1. StreamInv => NoSilentTruncation
  BY DEF StreamInv, Responded, NoSilentTruncation
<1>q. QED
  BY <1>1, StreamInvariant, PTL

\* A body that ends at the bridge with less than the client sent belongs to a job that is over,
\* for any length and any capacity: nothing that the bridge makes of it is relayed.
THEOREM CutUploadNeverAnswered == Spec => []CutUploadUnanswered
<1>1. StreamInv => CutUploadUnanswered
  BY DEF StreamInv, Uploaded, Over, Running, StreamTypes, CutUploadUnanswered
<1>q. QED
  BY <1>1, StreamInvariant, PTL

\* A job that runs for nobody has been, or is being, told to stop.
THEOREM JobIsToldToStop == Spec => []CancelReachesJob
<1>1. StreamInv => CancelReachesJob
  BY DEF StreamInv, Told, CancelReachesJob
<1>q. QED
  BY <1>1, StreamInvariant, PTL
=============================================================================
