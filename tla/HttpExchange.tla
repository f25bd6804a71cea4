----------------------------- MODULE HttpExchange -----------------------------
(***************************************************************************)
(* One HTTP exchange of the dispatcher mode, from the unit that receive()  *)
(* handed out to the last byte on the socket (crates/plugins/http/src:     *)
(* php/respond.rs, php/sendfile.rs, php/mod.rs, exchange.rs, handler.rs,   *)
(* bridge.rs, serve.rs; release() of crates/sapi/src/work.rs).             *)
(*                                                                         *)
(* The PHP thread writes frames into a bounded channel and blocks when it  *)
(* is full.  The connection task takes the head, answers hyper, and is     *)
(* polled for the body.  A reply whose body is complete for hyper before   *)
(* PHP has sent End moves to a drain task.  The receiver that is dropped   *)
(* is what PHP sees as the client's departure.                             *)
(*                                                                         *)
(* php: script   runs between calls      conn: head      awaits the head   *)
(*      call     sends the frames of a         hand_over moves a bodiless  *)
(*               call                                    reply to a drain  *)
(*      sealed   is about to send End          staging   waits 10 ms for a *)
(*      closing  sent it, still owns                     first frame       *)
(*               the sender                    respond   has its response  *)
(*      leaving  the unit is released          body      hyper polls it    *)
(*      gone     the sender is dropped         done      hyper let go of   *)
(* reply, the holder of the receiver:                    the body          *)
(*      serve, body, drain, late (a            failed    the body errored  *)
(*      drain that outlives its                dropped   the task is over  *)
(*      connection), none                      closed    and has said so   *)
(***************************************************************************)
EXTENDS Integers, Sequences

CONSTANTS FrameCap,   \* FRAME_CAP
          Buffer,     \* body bytes that hyper buffers before it stops polling
          MaxBody,    \* bound: body bytes of a response
          MaxFlushes, \* bound: flushes with nothing to write
          NoFrame     \* no staged frame

Unknown == -1 \* no content-length, or a watermark that is not set

\* The frames of the channel (enum Frame of types.rs).
HeadFrames == [kind : {"head"}, length : Nat \cup {Unknown}, bodiless : BOOLEAN, switching : BOOLEAN]
BodyFrames == [kind : {"chunk", "file"}, len : Nat]
EndFrames == [kind : {"end"}, truncated : BOOLEAN]
Frames == HeadFrames \cup BodyFrames \cup EndFrames

ASSUME ExchangeConstants ==
  /\ FrameCap \in Nat /\ FrameCap >= 2
  /\ Buffer \in Nat \ {0}
  /\ MaxBody \in Nat /\ MaxFlushes \in Nat
  /\ NoFrame \notin Frames

VARIABLES
  stage,      \* ExchangeState.stage
  head_sent,
  declared,   \* declared_cl
  sent_body,  \* bytes accepted from PHP
  bodiless,
  switching,  \* the committed status is 101, to a method other than HEAD
  discarded,
  sender,     \* the unit owns the sender
  php,        \* where the PHP thread is
  todo,       \* frames that the running call has yet to send
  lenient,    \* the call ignores a closed channel until it has sealed
  handled,    \* Event::Handled of this unit
  died,       \* the cycle died with the unit (unclean_shutdown)
  said,       \* history: the stream of frames, as FrameStream sees it
  frames,     \* the channel
  reply,      \* who holds the receiver
  conn,       \* where the connection task is
  framed,     \* the body length that hyper frames, Unknown for chunked
  awaited,    \* what framed_length() takes it for: the watermark waits for it
  staged,     \* ReplyBody.staged
  sent,       \* ReplyBody.sent
  pump,       \* bytes of a file slice that are not read yet
  encoded,    \* what hyper was given: [head, bytes, last]
  flushed,    \* what of it a completed flush put on the socket
  flushes,    \* ConnectionState.flushes
  end_flush,  \* InflightReqCount.end_flush
  closed,     \* ConnectionState.closed
  reading     \* the client reads

unit   == <<stage, head_sent, declared, sent_body, bodiless, switching, discarded>>
thread == <<php, todo, lenient, handled, died>>
body   == <<framed, awaited, staged, sent, pump>>
socket == <<flushed, flushes, closed, reading>>
wire   == <<encoded, end_flush>>
vars   == <<unit, sender, thread, said, frames, reply, conn, body, wire, socket>>

HeadFrame(length, nobody, upgrade) ==
  [kind |-> "head", length |-> length, bodiless |-> nobody, switching |-> upgrade]
BodyFrame(kind, len) == [kind |-> kind, len |-> len]
EndFrame(truncated) == [kind |-> "end", truncated |-> truncated]

Lengths == {Unknown} \cup 0 .. MaxBody

Init ==
  /\ stage = "open"
  /\ head_sent = FALSE
  /\ declared = Unknown
  /\ sent_body = 0
  /\ bodiless \in BOOLEAN \* the method is HEAD
  /\ switching = FALSE
  /\ discarded = FALSE
  /\ sender = TRUE
  /\ php = "script" /\ todo = <<>> /\ lenient = FALSE
  /\ handled = 0
  /\ died = FALSE
  /\ said = [phase |-> "start", limit |-> Unknown, bytes |-> 0]
  /\ frames = <<>>
  /\ reply = "serve"
  /\ conn = "head"
  /\ framed = Unknown /\ awaited = Unknown
  /\ staged = NoFrame /\ sent = 0 /\ pump = 0
  /\ encoded = [head |-> "none", bytes |-> 0, last |-> FALSE]
  /\ flushed = encoded
  /\ flushes = 0
  /\ end_flush = Unknown
  /\ closed = FALSE
  /\ reading = TRUE

-----------------------------------------------------------------------------
(* The unit on the PHP thread.  A Broken... operator stands for one         *)
(* plausible bug of the operator after it; no specification uses it.        *)

ReceiverGone == reply = "none"

\* cancelled(): a finalized unit holds no sender.
Cancelled == discarded \/ (sender /\ ReceiverGone)

\* PHP may call a method of the unit, and the unit takes an outcome.
Takes == php = "script" /\ stage # "finalized" /\ ~Cancelled

\* What a frame adds to the stream.
Said(f) ==
  IF f.kind = "head" THEN [said EXCEPT !.phase = IF @ = "start" THEN "body" ELSE "twice",
                                       !.limit = IF f.bodiless THEN 0 ELSE f.length]
  ELSE IF f.kind = "end" THEN [said EXCEPT !.phase = "ended"]
  ELSE [said EXCEPT !.bytes = @ + f.len]

Put(f) == frames' = Append(frames, f) /\ said' = Said(f)

\* The sender drops.
CloseStream ==
  /\ sender' = FALSE
  /\ said' = IF said.phase = "ended" THEN said ELSE [said EXCEPT !.phase = "cut"]

\* A call starts to send the frames fs.
Sending(fs) ==
  /\ todo' = fs
  /\ php' = IF fs = <<>> THEN "script" ELSE "call"

\* emit_head: the head, unless it was sent; finalizing is the body length that
\* is known only because the call ends the response.
EmitHead(finalizing) ==
  LET length == IF bodiless \/ declared # Unknown THEN declared ELSE finalizing
  IN  IF head_sent THEN <<>> ELSE <<HeadFrame(length, bodiless, switching)>>

\* A body frame, never an empty one.
EmitBody(kind, len) == IF len = 0 \/ bodiless THEN <<>> ELSE <<BodyFrame(kind, len)>>

EmitEnd(eos) == IF eos THEN <<EndFrame(FALSE)>> ELSE <<>>

BrokenPastDeclared(len) == FALSE

\* A write would go past the declared content-length.
PastDeclared(len) == declared # Unknown /\ sent_body + len > declared

\* discard_unit: the client is gone.
DiscardUnit ==
  /\ stage' = "finalized"
  /\ discarded' = TRUE
  /\ handled' = handled + 1
  /\ CloseStream
  /\ UNCHANGED <<head_sent, declared, sent_body, bodiless, switching>>

\* Any method of the unit, or receive(), finds the client gone.
SeeGone ==
  /\ php = "script" /\ stage # "finalized" /\ Cancelled
  /\ DiscardUnit
  /\ UNCHANGED <<php, todo, lenient, died, frames, reply, conn, body, wire, socket>>

\* writeHead: the head waits for the first body byte; 204, 304 and 101 forbid
\* one.
WriteHead ==
  /\ Takes /\ stage = "open"
  /\ declared' \in Lengths
  /\ bodiless' \in {bodiless, TRUE}
  /\ switching' \in BOOLEAN
  /\ switching' => bodiless' /\ ~bodiless
  /\ stage' = "committed"
  /\ UNCHANGED <<head_sent, sent_body, discarded, sender, thread, said, frames, reply, conn, body,
                 wire, socket>>

\* The stage and the frames of a call that emits the head.
Emits(fs) ==
  /\ stage' = "committed"
  /\ head_sent' = TRUE
  /\ Sending(fs)
  /\ UNCHANGED <<declared, bodiless, switching, discarded, sender, handled, died, said, frames, reply,
                 conn, body, wire, socket>>

\* send_body: a body that fits.
SendBody(kind, len, eos) ==
  /\ Takes
  /\ ~PastDeclared(len)
  /\ sent_body + len <= MaxBody
  /\ sent_body' = sent_body + len
  /\ LET finalizing == IF eos /\ sent_body = 0 THEN len ELSE Unknown
     IN  Emits(EmitHead(finalizing) \o EmitBody(kind, len) \o EmitEnd(eos))
  /\ lenient' = FALSE

\* writeBody: an empty write that does not end the response does nothing.
WriteBody(len, eos) == (len > 0 \/ eos) /\ SendBody("chunk", len, eos)

\* open_send_file: the slice lies in the file; a length of null, Unknown here,
\* asks for the rest, and an explicit one is at least 1.
SliceFits(size, offset, length) == offset + (IF length = Unknown THEN 0 ELSE length) <= size

SliceLength(size, offset, length) == IF length = Unknown THEN size - offset ELSE length

\* sendFile: a slice that does not fit throws and changes nothing.
SendFile(size, offset, length, eos) ==
  /\ SliceFits(size, offset, length)
  /\ SendBody("file", SliceLength(size, offset, length), eos)

\* writeBody past the declared length: the part that fits, then the end; a
\* sendFile past it changes nothing.
WritePastDeclared(len) ==
  /\ Takes
  /\ PastDeclared(len)
  /\ sent_body' = declared
  /\ Emits(EmitHead(declared) \o EmitBody("chunk", declared - sent_body) \o EmitEnd(TRUE))
  /\ lenient' = TRUE

\* flush: the head alone.
Flush ==
  /\ Takes
  /\ Emits(EmitHead(Unknown))
  /\ lenient' = FALSE
  /\ UNCHANGED sent_body

\* writeTrailers ends a response whose head is committed.
WriteTrailers ==
  /\ Takes /\ stage = "committed"
  /\ Emits(EmitHead(sent_body) \o EmitEnd(TRUE))
  /\ lenient' = FALSE
  /\ UNCHANGED sent_body

\* send_frame, of a head or a body frame: the call blocks while the channel is
\* full, and a closed channel discards the unit.
SendFrame ==
  /\ php = "call" /\ Head(todo).kind # "end"
  /\ \/ /\ ~ReceiverGone /\ Len(frames) < FrameCap
        /\ Put(Head(todo))
        /\ Sending(Tail(todo))
        /\ UNCHANGED <<unit, sender, handled>>
     \/ /\ ReceiverGone /\ ~lenient
        /\ DiscardUnit
        /\ Sending(<<>>)
        /\ UNCHANGED frames
     \/ /\ ReceiverGone /\ lenient
        /\ Sending(<<EndFrame(FALSE)>>)
        /\ UNCHANGED <<unit, sender, handled, said, frames>>
  /\ UNCHANGED <<lenient, died, reply, conn, body, wire, socket>>

BrokenSealed == stage

\* seal: the unit is final before its End is sent.
Sealed == "finalized"

Seal ==
  /\ php = "call" /\ Head(todo).kind = "end" /\ stage # "finalized"
  /\ stage' = Sealed
  /\ handled' = handled + 1
  /\ php' = "sealed"
  /\ UNCHANGED <<head_sent, declared, sent_body, bodiless, switching, discarded, sender, todo, lenient,
                 died, said, frames, reply, conn, body, wire, socket>>

\* seal: End, whose loss nobody minds.
SendEnd ==
  /\ php = "sealed"
  /\ \/ ~ReceiverGone /\ Len(frames) < FrameCap /\ Put(Head(todo))
     \/ ReceiverGone /\ UNCHANGED <<said, frames>>
  /\ todo' = <<>>
  /\ php' = "closing"
  /\ UNCHANGED <<unit, sender, lenient, handled, died, reply, conn, body, wire, socket>>

\* seal: the sender drops, and the call returns.
DropSender ==
  /\ php = "closing"
  /\ CloseStream
  /\ php' = "script"
  /\ UNCHANGED <<unit, todo, lenient, handled, died, frames, reply, conn, body, wire, socket>>

\* What an exchange that PHP lets go of still tells the client: a head of its
\* own, with the status 500, when no head was sent.
LastWords == IF head_sent THEN <<EndFrame(TRUE)>>
             ELSE <<HeadFrame(IF bodiless THEN Unknown ELSE 0, bodiless, FALSE), EndFrame(FALSE)>>

\* exchange_drop and release: the object is freed, or the cycle dies with it
\* (reclaim_current, or a bailout before free_obj).
Release ==
  /\ php = "script"
  /\ handled' = handled + (IF stage = "finalized" THEN 0 ELSE 1)
  /\ died' \in BOOLEAN
  /\ todo' = IF stage # "finalized" /\ ~died' THEN LastWords ELSE <<>>
  /\ php' = "leaving"
  /\ UNCHANGED <<unit, sender, lenient, said, frames, reply, conn, body, wire, socket>>

\* exchange_drop: try_send never blocks; without the head no End follows.
LastFrame ==
  /\ php = "leaving" /\ todo # <<>>
  /\ \/ /\ ~ReceiverGone /\ Len(frames) < FrameCap
        /\ Put(Head(todo))
        /\ todo' = Tail(todo)
     \/ /\ ReceiverGone \/ Len(frames) = FrameCap
        /\ todo' = <<>>
        /\ UNCHANGED <<said, frames>>
  /\ UNCHANGED <<unit, sender, php, lenient, handled, died, reply, conn, body, wire, socket>>

\* The unit is gone, and the sender with it.
Leave ==
  /\ php = "leaving" /\ todo = <<>>
  /\ php' = "gone"
  /\ CloseStream
  /\ UNCHANGED <<unit, todo, lenient, handled, died, frames, reply, conn, body, wire, socket>>

-----------------------------------------------------------------------------
(* The connection task.                                                    *)

producer == <<unit, sender, thread, said>>

\* recv() returns None.
StreamOver == frames = <<>> /\ ~sender

\* spawn_drain: End, or the end of the stream, ends the reply at once; any
\* other frame is dropped, and a task takes the reply.
SpawnDrain ==
  /\ reply' = IF StreamOver \/ (frames # <<>> /\ Head(frames).kind = "end") THEN "none"
              ELSE "drain"
  /\ frames' = IF frames = <<>> THEN <<>> ELSE Tail(frames)

DropReply == reply' = "none" /\ UNCHANGED frames

\* framed_length: no body for HEAD, 204 and 304, else the content-length, else
\* none for a body that has ended.  A 101 has become a 502 by then, and keeps
\* the content-length that the script gave it.
FramedLength(head) ==
  IF head.bodiless /\ ~head.switching THEN 0
  ELSE IF head.length # Unknown THEN head.length
  ELSE IF head.bodiless THEN 0 ELSE Unknown

\* hyper: a body that has ended is framed as empty, whatever the fields say.
HyperLength(head) == IF head.bodiless THEN 0 ELSE head.length

\* respond: the response goes to hyper, which buffers its head.  A response
\* that awaits no body bytes is watermarked by the flushes before its head.
Answer(head, length) ==
  /\ encoded' = [encoded EXCEPT !.head = head]
  /\ end_flush' = IF length = 0 THEN flushes ELSE end_flush
  /\ conn' = "body"

\* serve_php: the head arrives.
TakeHead ==
  /\ conn = "head" /\ frames # <<>> /\ Head(frames).kind = "head"
  /\ LET head == Head(frames)
     IN  /\ framed' = HyperLength(head)
         /\ awaited' = FramedLength(head)
         /\ conn' = IF head.bodiless THEN "hand_over"
                    ELSE IF head.length = Unknown THEN "respond" ELSE "staging"
  /\ frames' = Tail(frames)
  /\ UNCHANGED <<producer, reply, staged, sent, pump, wire, socket>>

NoHead == IF frames = <<>> THEN ~sender ELSE Head(frames).kind # "head"

\* serve_php: PHP died without a head, and the reply drops with the handler.
BadGateway ==
  /\ conn = "head" /\ NoHead
  /\ framed' = 0 /\ awaited' = 0
  /\ Answer("bad_gateway", 0)
  /\ DropReply
  /\ UNCHANGED <<producer, staged, sent, pump, socket>>

\* serve_php: a bodiless reply goes to the drain before its response is built.
HandOver ==
  /\ conn = "hand_over"
  /\ SpawnDrain
  /\ conn' = "respond"
  /\ UNCHANGED <<producer, body, wire, socket>>

\* serve_php: at most 10 ms for the frame after a head with a length.
StageFrame ==
  /\ conn = "staging"
  /\ \/ frames # <<>> /\ staged' = Head(frames) /\ frames' = Tail(frames)
     \/ frames = <<>> /\ UNCHANGED <<staged, frames>>
  /\ conn' = "respond"
  /\ UNCHANGED <<producer, reply, framed, awaited, sent, pump, wire, socket>>

Respond ==
  /\ conn = "respond"
  /\ Answer("php", awaited)
  /\ reply' = IF reply = "serve" THEN "body" ELSE reply
  /\ UNCHANGED <<producer, frames, body, socket>>

\* hyper still wants body bytes, and has room for them.
Polled ==
  /\ conn = "body" /\ reply = "body"
  /\ framed = Unknown \/ encoded.bytes < framed
  /\ encoded.bytes - flushed.bytes < Buffer

\* RespBody.transport: the last byte that is awaited has been handed to hyper.
Watermark(bytes) == awaited # Unknown /\ bytes >= awaited

\* RespBody::poll_frame: n bytes for hyper.
Yield(n) ==
  /\ sent' = sent + n
  /\ encoded' = [encoded EXCEPT !.bytes = @ + n]
  /\ end_flush' = IF Watermark(encoded.bytes + n) /\ end_flush = Unknown THEN flushes
                  ELSE end_flush
  /\ UNCHANGED <<reply, conn, framed, awaited>>

\* terminal_error: the reply drops, and the error waits for a flush of what
\* hyper already has.
TerminalError ==
  /\ reply' = "none"
  /\ conn' = "failed"
  /\ UNCHANGED <<framed, awaited, sent, wire>>

BrokenCutShort(truncated) == framed # Unknown /\ sent < framed

\* End tells of, or leaves, a body that is cut short.
CutShort(truncated) == truncated \/ (framed # Unknown /\ sent < framed)

\* ReplyBody::poll_frame, of one frame.
Consume(f) ==
  \/ f.kind = "chunk" /\ Yield(f.len) /\ UNCHANGED pump
  \/ f.kind = "file" /\ pump' = f.len /\ UNCHANGED <<reply, conn, framed, awaited, sent, wire>>
  \/ f.kind = "end" /\ CutShort(f.truncated) /\ TerminalError /\ UNCHANGED pump
  \/ /\ f.kind = "end" /\ ~CutShort(f.truncated)
     /\ encoded' = [encoded EXCEPT !.last = TRUE]
     /\ reply' = "none"
     /\ conn' = "done"
     /\ UNCHANGED <<framed, awaited, sent, pump, end_flush>>

PollStaged ==
  /\ Polled /\ pump = 0 /\ staged # NoFrame
  /\ Consume(staged)
  /\ staged' = NoFrame
  /\ UNCHANGED <<producer, frames, socket>>

PollFrame ==
  /\ Polled /\ pump = 0 /\ staged = NoFrame /\ frames # <<>>
  /\ Consume(Head(frames))
  /\ frames' = Tail(frames)
  /\ UNCHANGED <<producer, staged, socket>>

\* The stream closed without End: the worker died.
PollOver ==
  /\ Polled /\ pump = 0 /\ staged = NoFrame /\ StreamOver
  /\ TerminalError
  /\ UNCHANGED <<producer, frames, staged, pump, socket>>

\* A slice of the file was read; or it failed, or the file has shrunk.
PumpSlice ==
  /\ Polled /\ pump > 0
  /\ \/ \E n \in 1 .. pump : pump' = pump - n /\ Yield(n)
     \/ pump' = 0 /\ TerminalError
  /\ UNCHANGED <<producer, frames, staged, socket>>

BrokenKeepsReply == FALSE

\* ReplyBody::drop: the body is complete for hyper, though PHP may not have
\* sent End.
KeepsReply == framed = sent /\ end_flush # Unknown

\* The RespBody drops.
DropBody ==
  IF reply = "body" THEN IF KeepsReply THEN SpawnDrain ELSE DropReply
  ELSE IF reply = "serve" THEN DropReply
  ELSE UNCHANGED <<reply, frames>>

\* hyper has all bytes that the head announced.
BodyDone ==
  /\ conn = "body" /\ framed # Unknown /\ encoded.bytes >= framed
  /\ DropBody
  /\ conn' = "done"
  /\ UNCHANGED <<producer, body, wire, socket>>

\* The connection task rests: between the head and the response it does not.
Alive == conn \notin {"hand_over", "respond", "dropped", "closed"}

\* hyper writes its whole buffer and flushes: TimedIo counts it.
FlushSocket ==
  /\ Alive /\ reading
  /\ flushed # encoded \/ flushes < MaxFlushes
  /\ flushed' = encoded
  /\ flushes' = flushes + 1
  /\ UNCHANGED <<producer, frames, reply, conn, body, wire, closed, reading>>

\* The connection future ends and drops what it holds: the client left, or
\* the body failed.
EndConnection ==
  /\ Alive
  /\ DropBody
  /\ conn' = "dropped"
  /\ UNCHANGED <<producer, body, wire, socket>>

BrokenWriteTimeout == ~reading /\ encoded.bytes = 0 /\ flushed # encoded /\ EndConnection

\* TimedIo: a write that stalls for write_timeout ends the connection.
WriteTimeout == ~reading /\ flushed # encoded /\ EndConnection

\* spawn_watched: the task tells the drain.
MarkClosed ==
  /\ conn = "dropped"
  /\ conn' = "closed"
  /\ closed' = TRUE
  /\ UNCHANGED <<producer, frames, reply, body, wire, flushed, flushes, reading>>

StopReading ==
  /\ reading
  /\ reading' = FALSE
  /\ UNCHANGED <<producer, frames, reply, conn, body, wire, flushed, flushes, closed>>

-----------------------------------------------------------------------------
(* The drain task.                                                         *)

Draining == reply \in {"drain", "late"}

\* drain: frames go nowhere; End ends it.
DrainFrame ==
  /\ Draining /\ frames # <<>>
  /\ reply' = IF Head(frames).kind = "end" THEN "none" ELSE reply
  /\ frames' = Tail(frames)
  /\ UNCHANGED <<producer, conn, body, wire, socket>>

DrainOver ==
  /\ Draining /\ StreamOver
  /\ DropReply
  /\ UNCHANGED <<producer, conn, body, wire, socket>>

BrokenDelivered == end_flush # Unknown /\ flushes >= end_flush

\* A flush past the watermark put the last response byte on the socket.
Delivered == end_flush # Unknown /\ flushes > end_flush

\* The close cancels the reply of a response that was not delivered.
DrainClosed ==
  /\ reply = "drain" /\ closed
  /\ reply' = IF Delivered THEN "late" ELSE "none"
  /\ UNCHANGED <<producer, frames, conn, body, wire, socket>>

-----------------------------------------------------------------------------

Call ==
  \/ SeeGone \/ WriteHead \/ Flush \/ WriteTrailers \/ Release
  \/ \E len \in 0 .. MaxBody, eos \in BOOLEAN : WriteBody(len, eos)
  \/ \E size, offset \in 0 .. MaxBody, length \in {Unknown} \cup 1 .. MaxBody, eos \in BOOLEAN :
       SendFile(size, offset, length, eos)
  \/ \E len \in 1 .. MaxBody : WritePastDeclared(len)

Sends == SendFrame \/ Seal \/ SendEnd \/ DropSender \/ LastFrame \/ Leave

Serve == TakeHead \/ BadGateway \/ HandOver \/ StageFrame \/ Respond

Poll == PollStaged \/ PollFrame \/ PollOver \/ PumpSlice \/ BodyDone

Drain == DrainFrame \/ DrainOver \/ DrainClosed

\* The exchange is over.
Finished == php = "gone" /\ conn = "closed" /\ reply = "none" /\ UNCHANGED vars

Next ==
  \/ Call \/ Sends \/ Serve \/ Poll \/ Drain
  \/ FlushSocket \/ EndConnection \/ WriteTimeout \/ MarkClosed \/ StopReading
  \/ Finished

Spec == Init /\ [][Next]_vars

(***************************************************************************)
(* Fairness.  The runtime polls a task that can move, hyper flushes what   *)
(* it has while the client reads, the write timer fires while it does not, *)
(* and the PHP thread runs inside a call.  Nothing is assumed of the       *)
(* script: it may never call again and never end.                          *)
(***************************************************************************)
Fairness ==
  /\ WF_vars(Sends) /\ WF_vars(Serve) /\ WF_vars(Poll)
  /\ WF_vars(DrainFrame \/ DrainOver) /\ WF_vars(DrainClosed)
  /\ WF_vars(FlushSocket /\ flushed # encoded) /\ WF_vars(WriteTimeout)
  /\ WF_vars(conn = "failed" /\ EndConnection) /\ WF_vars(MarkClosed)

FairSpec == Spec /\ Fairness

-----------------------------------------------------------------------------
(* Properties.                                                             *)

Stream == INSTANCE FrameStream WITH
            phase <- said.phase, limit <- said.limit, bytes <- said.bytes

\* The unit's frames are a well-formed stream, whatever PHP calls in whatever
\* order, and whatever the drop of the unit adds.
ImplementsStream == Stream!SSpec

\* The unit counts as handled once, by its seal, its discard or its release.
HandledOnce == handled <= 1 /\ (php = "gone" => handled = 1)

\* A response that the client sees as complete is complete: no body passes
\* its length, and the last chunk follows only all bytes of a sealed unit.  The
\* client is told of a dead worker only when the cycle died: a script that
\* merely forgets to answer gets a 500 with its own head.
CompleteIsWhole ==
  /\ encoded.head = "bad_gateway" => died
  /\ framed # Unknown => encoded.bytes <= framed
  /\ encoded.last => /\ framed = Unknown
                     /\ stage = "finalized" /\ ~discarded
                     /\ encoded.bytes = sent_body

\* All of a response with a length is on the socket.
OnSocket == flushed.head = "php" /\ framed # Unknown /\ flushed.bytes = framed

\* Such a response whose watermark waits for the bytes that hyper frames.
Watched == OnSocket /\ awaited = framed

\* The receiver stays until the unit is final or gone.
NotCancelled == reply # "none" \/ stage = "finalized" \/ php \in {"leaving", "gone"}

\* A 101 that the script gave a content-length: it is sent as an empty 502,
\* whose watermark waits for the bytes of that length.
Replaced == switching /\ declared > 0

\* Once a counted flush has put the last byte of a response on the socket, no
\* close of the connection cancels it for PHP; but a replaced 101 it may, for
\* which no watermark is ever set (bridge.rs, handler.rs).
DeliveredIsKept == OnSocket => NotCancelled \/ Replaced

\* A call that blocks on the full channel returns: the client reads on, or its
\* write times out, or it is gone.
BlockedCallReturns == php \in {"call", "sealed", "closing"} ~> php = "script"

\* A client that left before its response was delivered is seen: the receiver
\* drops, and the request no longer counts as in flight.  So it does for a
\* replaced 101 that was delivered: no watermark tells the drain of it.
LeavingIsSeen == closed ~> reply = "none" \/ Watched
=============================================================================
