------------------------------- MODULE CgiReply -------------------------------
(***************************************************************************)
(* The reply of a classic or worker mode request (crates/sapi/src:         *)
(* callbacks.rs, types.rs, rapira_worker.rs, classic_worker.rs, module.c). *)
(* PHP prints into a Context that SG(server_context) points at; finish()   *)
(* seals it once, as Head, Chunk, End.  rapira_finish_request(), an abort, *)
(* the request shutdown and the executor all try to.  The requests of one  *)
(* thread follow each other in one PHP engine, whose globals outlive them. *)
(*                                                                         *)
(* stage:                                                                  *)
(*   idle      between requests         teardown  the engine flushes what  *)
(*   script    the script or handler              is left                  *)
(*   shutdown  its shutdown functions   seal      the reply is sealed      *)
(*   flush     worker: a failed         after     the rest of the request  *)
(*             handler's output                   shutdown                 *)
(***************************************************************************)
EXTENDS Integers, Sequences

CONSTANTS MaxOut,  \* bound: bytes that user code prints in a request
          Cap,     \* MAX_BUFFERED_BODY
          Codes,   \* status codes that a script sets
          NoHead

ASSUME ReplyConstants == MaxOut \in Nat /\ Cap \in Nat /\ Codes \subseteq Nat

Unknown == -1

VARIABLES mode, stage,
  sg,      \* engine globals: status code, Status field, headers_sent, output
           \* buffer, a fatal error on record
  cx,      \* the Context of the request at work
  outcome, \* of the handler: ok, throw or bailout
  recycle, \* worker: something bailed out
  todo,    \* what finish() has still to send
  frames,  \* what the channel of the request has carried
  left,    \* its receiver is gone
  past     \* history of the request

reply_vars == <<mode, stage, sg, cx, outcome, recycle, todo, frames, left, past>>

Fresh == [code |-> 200, field |-> 0, headers_sent |-> FALSE, ob |-> 0, fatal |-> FALSE]
NewContext(hd) == [head |-> NoHead, body |-> 0, stream |-> "NotSent", tearing_down |-> FALSE,
                   errored |-> FALSE, sender |-> TRUE, head_method |-> hd]
NewPast == [printed |-> 0, early |-> 0, chosen |-> {200}, fault |-> FALSE, own |-> FALSE,
            sealer |-> "none", event |-> "none"]

ReplyInit ==
  /\ mode \in {"classic", "worker"}
  /\ stage = "idle"
  /\ sg = Fresh
  /\ cx = [NewContext(FALSE) EXCEPT !.sender = FALSE]
  /\ outcome = "ok" /\ recycle = FALSE
  /\ todo = <<>> /\ frames = <<>> /\ left = FALSE
  /\ past = NewPast

-----------------------------------------------------------------------------
(* The Context.  A Broken... operator stands for one plausible bug of the  *)
(* operator after it; no specification uses it.                            *)

HeadFrame(c, truncated) ==
  LET no_content == c.head \in {204, 304} \/ c.head \in 100 .. 199
  IN [kind |-> "head", status |-> c.head, bodiless |-> no_content \/ c.head_method,
      length |-> IF no_content \/ c.head_method \/ truncated THEN Unknown ELSE c.body]

HeadStatus(code) == IF code = 0 THEN 200 ELSE IF code < 100 THEN 100
                    ELSE IF code > 599 THEN 599 ELSE code

\* commit_head: a Status field among the headers has the last word.
CommitHead(c, status, field) ==
  [c EXCEPT !.head = IF field \in 100 .. 599 THEN field ELSE status, !.stream = "HeadSent"]

Reply(c, truncated) ==
  (IF c.head = NoHead THEN <<>>
   ELSE <<HeadFrame(c, truncated)>>
        \o (IF c.body > 0 THEN <<[kind |-> "chunk", bytes |-> c.body]>> ELSE <<>>))
  \o <<[kind |-> "end", truncated |-> truncated]>>

\* What the history says when by seals the reply.
SealedBy(by) == [past EXCEPT !.sealer = by]

BrokenFinish(c, truncated, p) ==
  /\ cx' = [c EXCEPT !.body = 0, !.head = NoHead]
  /\ todo' = Reply(c, truncated)
  /\ past' = p

\* finish: the sender is taken once.
Finish(c, truncated, p) ==
  IF c.sender
  THEN /\ cx' = [c EXCEPT !.sender = FALSE, !.body = 0, !.head = NoHead]
       /\ todo' = Reply(c, truncated)
       /\ past' = p
  ELSE cx' = c /\ UNCHANGED <<todo, past>>

\* send_headers, which php_header() calls unless SG(headers_sent).
SendHeaders(c) ==
  IF sg.headers_sent \/ c.stream # "NotSent" THEN c
  ELSE CommitHead(c, HeadStatus(sg.code), sg.field)

\* rapira_rs_ub_write: the head goes first, with headers if PHP has sent them.
Headed ==
  LET c == SendHeaders(cx)
  IN IF c.stream = "NotSent" THEN CommitHead(c, HeadStatus(sg.code), 0) ELSE c

\* It gives up on a client that left and on too large a body.
Aborts(n) == n > 0 /\ cx.sender /\ ~cx.head_method /\ (left \/ cx.body + n > Cap)

Written(n) ==
  IF n = 0 \/ cx.head_method THEN SendHeaders(cx)
  ELSE IF ~cx.sender THEN Headed
  ELSE [Headed EXCEPT !.body = @ + n, !.stream = IF cx.tearing_down THEN @ ELSE "BodyStreamed"]

\* n bytes leave the output layer; an abort seals the reply.  Then the engine
\* unwinds the script, or goes on under ignore_user_abort.
Emit(n) ==
  LET counted == IF cx.sender /\ stage = "script" THEN n ELSE 0
      p == [past EXCEPT !.early = @ + counted]
  IN IF Aborts(n) THEN Finish(Headed, ~left, SealedBy("abort"))
     ELSE cx' = Written(n) /\ past' = p /\ UNCHANGED todo

\* send_error_head: a reply that has not begun becomes a 500.
ErrorHead(c, errored) == IF errored /\ c.stream = "NotSent" THEN CommitHead(c, 500, 0) ELSE c

BrokenTruncated(c, errored) == errored /\ c.stream = "NotSent"

\* finalize_response: one that the script has streamed is cut.
Truncated(c, errored) == errored /\ c.stream = "BodyStreamed"

\* rapira_rs_finish_response on the Context as c has it.
FinishResponse(c, fatal, by) ==
  LET errored == c.errored \/ fatal
  IN Finish([ErrorHead(c, errored) EXCEPT !.errored = errored], Truncated(c, errored), SealedBy(by))

-----------------------------------------------------------------------------
(* The start of a request.                                                 *)

BrokenPopulated(g) == [g EXCEPT !.field = 0, !.headers_sent = FALSE, !.ob = 0]

\* populate_request_context resets the status; the activation resets the rest.
Populated(g) == [g EXCEPT !.code = 200, !.field = 0, !.headers_sent = FALSE, !.ob = 0]

Idle == stage = "idle" /\ todo = <<>>

\* The next unit is bound; one whose client is gone is passed over.
Bind ==
  /\ Idle /\ stage' = "script"
  /\ \E hd \in BOOLEAN : cx' = NewContext(hd)
  /\ sg' = Populated(sg)
  /\ outcome' = "ok"
  /\ frames' = <<>> /\ left' = FALSE /\ past' = NewPast
  /\ UNCHANGED <<mode, recycle, todo>>

\* A unit that a failed boot sheds gets a 503 (Work::shed).
ShedUnit ==
  /\ Idle /\ mode = "worker"
  /\ todo' = Reply(CommitHead(NewContext(FALSE), 503, 0), FALSE)
  /\ past' = [NewPast EXCEPT !.own = TRUE, !.sealer = "shed"]
  /\ frames' = <<>> /\ left' = FALSE
  /\ UNCHANGED <<mode, stage, sg, cx, outcome, recycle>>

\* The activation fails before any user code: php_request_startup() in classic
\* mode, a bailout of rapira_request_activate() in worker mode.
StartFails ==
  /\ stage = "script" /\ todo = <<>> /\ past.printed = 0
  /\ sg = Populated(sg) /\ cx = NewContext(cx.head_method)
  /\ \/ /\ mode = "classic" /\ stage' = "idle"
        /\ cx' = [CommitHead(cx, 500, 0) EXCEPT !.sender = FALSE]
        /\ todo' = Reply(CommitHead(cx, 500, 0), FALSE)
        /\ past' = [past EXCEPT !.own = TRUE, !.sealer = "end", !.event = "errored"]
        /\ UNCHANGED <<sg, outcome>>
     \/ /\ mode = "worker" /\ stage' = "flush" /\ outcome' = "bailout"
        /\ cx' = [cx EXCEPT !.tearing_down = TRUE, !.errored = TRUE]
        /\ sg' \in {sg, [sg EXCEPT !.fatal = TRUE, !.code = 500]}
        /\ past' = [past EXCEPT !.own = TRUE]
        /\ UNCHANGED todo
  /\ UNCHANGED <<mode, recycle, frames, left>>

-----------------------------------------------------------------------------
(* User code.                                                              *)

UserCode == stage \in {"script", "shutdown"} /\ todo = <<>>

SetStatus ==
  /\ UserCode /\ ~sg.headers_sent
  /\ \E code \in Codes :
       /\ \/ sg' = [sg EXCEPT !.code = code]
          \/ sg' = [sg EXCEPT !.field = code]
       /\ past' = [past EXCEPT !.chosen = @ \cup {code, HeadStatus(code)}]
  /\ UNCHANGED <<mode, stage, cx, outcome, recycle, todo, frames, left>>

\* A byte goes into an output buffer.
Echo ==
  /\ UserCode /\ ~cx.head_method /\ sg.ob < MaxOut /\ past.printed < MaxOut
  /\ sg' = [sg EXCEPT !.ob = @ + 1]
  /\ past' = [past EXCEPT !.printed = IF cx.sender THEN @ + 1 ELSE @]
  /\ UNCHANGED <<mode, stage, cx, outcome, recycle, todo, frames, left>>

\* The buffers are flushed, or only the headers.
Flush ==
  /\ UserCode
  /\ sg' = [sg EXCEPT !.headers_sent = TRUE, !.ob = 0]
  /\ Emit(sg.ob)
  /\ UNCHANGED <<mode, stage, outcome, recycle, frames, left>>

\* rapira_finish_request() on flushed buffers; a bailout of the flush is Fail.
FinishRequest ==
  /\ UserCode /\ sg.ob = 0
  /\ sg' = [sg EXCEPT !.headers_sent = TRUE]
  /\ FinishResponse(SendHeaders(cx), sg.fatal, "script")
  /\ UNCHANGED <<mode, stage, outcome, recycle, frames, left>>

\* A warning replaces the error on record.
Warn ==
  /\ UserCode /\ sg.fatal
  /\ sg' = [sg EXCEPT !.fatal = FALSE]
  /\ UNCHANGED <<mode, stage, cx, outcome, recycle, todo, frames, left, past>>

\* The engine's error callback, with display_errors off.
Recorded(g) == [g EXCEPT !.fatal = TRUE,
                         !.code = IF ~g.headers_sent /\ g.code = 200 THEN 500 ELSE @]

\* The script is over.  Classic mode looks for a recorded fatal error now.
EndScript(o, fatal) ==
  /\ stage = "script" /\ stage' = "shutdown"
  /\ outcome' = o
  /\ cx' = IF mode = "worker" THEN cx
           ELSE [cx EXCEPT !.tearing_down = TRUE, !.errored = o # "ok" /\ fatal]

\* Its shutdown functions are over.  The code sets errored after the flush.
EndShutdown(o) ==
  /\ stage = "shutdown"
  /\ outcome' = IF mode = "worker" /\ o # "ok" THEN o ELSE outcome
  /\ stage' = IF mode = "worker" /\ outcome' # "ok" THEN "flush" ELSE "teardown"
  /\ cx' = IF mode = "classic" THEN cx
           ELSE [cx EXCEPT !.tearing_down = TRUE, !.errored = outcome' # "ok"]

Return ==
  /\ UserCode
  /\ EndScript("ok", FALSE) \/ EndShutdown("ok")
  /\ UNCHANGED <<mode, sg, recycle, todo, frames, left, past>>

\* A fatal error, an uncaught exception, or a bailout that records nothing.
Fail ==
  /\ UserCode
  /\ \E o \in {"throw", "bailout"}, fatal \in BOOLEAN :
       /\ o = "throw" => fatal /\ stage = "script"
       /\ sg' = IF fatal THEN Recorded(sg) ELSE sg
       /\ past' = [past EXCEPT !.own = TRUE,
                               !.fault = @ \/ (fatal /\ stage = "script" /\ cx.sender)]
       /\ EndScript(o, fatal) \/ EndShutdown(o)
  /\ UNCHANGED <<mode, recycle, todo, frames, left>>

-----------------------------------------------------------------------------
(* The end of a request.                                                   *)

\* An output callback bails out of a flush: what was buffered is lost.
FlushBails ==
  /\ \E fatal \in BOOLEAN : sg' = [(IF fatal THEN Recorded(sg) ELSE sg) EXCEPT !.ob = 0]
  /\ past' = [past EXCEPT !.own = TRUE, !.printed = IF cx.sender THEN @ - sg.ob ELSE @]
  /\ recycle' = TRUE
  /\ UNCHANGED <<cx, todo>>

FlushAll ==
  \/ /\ sg' = [sg EXCEPT !.headers_sent = TRUE, !.ob = 0]
     /\ Emit(sg.ob)
     /\ UNCHANGED recycle
  \/ FlushBails

\* Worker mode, after a failure: the real head lives in SG(sapi_headers).
FlushFailed ==
  /\ stage = "flush" /\ todo = <<>> /\ stage' = "teardown"
  /\ FlushAll
  /\ UNCHANGED <<mode, outcome, frames, left>>

\* php_output_end_all() of rapira_request_teardown or php_request_shutdown.
TearDown ==
  /\ stage = "teardown" /\ todo = <<>> /\ stage' = "seal"
  /\ FlushAll
  /\ UNCHANGED <<mode, outcome, frames, left>>

\* The response is published before the rest; classic mode comes from the
\* module's RSHUTDOWN, behind a php_header() of its own.
SealReply ==
  /\ stage = "seal" /\ todo = <<>> /\ stage' = "after"
  /\ FinishResponse(IF mode = "classic" THEN SendHeaders(cx) ELSE cx, sg.fatal, "end")
  /\ UNCHANGED <<mode, sg, outcome, recycle, frames, left>>

\* log_and_clear_last_error, or the end of php_request_shutdown.
Cleared(g) == [g EXCEPT !.fatal = FALSE]

\* The executor counts the request; after a bailout a worker boots anew.
After ==
  /\ stage = "after" /\ todo = <<>> /\ stage' = "idle"
  /\ \E bails \in BOOLEAN :
       LET bailed == mode = "worker" /\ (bails \/ recycle \/ outcome = "bailout")
           errored == IF mode = "worker" THEN bailed \/ outcome # "ok" ELSE cx.errored
       IN /\ recycle' = FALSE
          /\ sg' = IF bailed THEN Fresh ELSE Cleared(sg)
          /\ past' = [past EXCEPT !.own = @ \/ (bails /\ mode = "worker"),
                                  !.event = IF errored THEN "errored" ELSE "ok"]
  /\ cx' = NewContext(FALSE)
  /\ UNCHANGED <<mode, outcome, todo, frames, left>>

-----------------------------------------------------------------------------
\* One frame of the reply is sent; nobody receives it once the client left.
SendFrame ==
  /\ todo # <<>> /\ todo' = Tail(todo)
  /\ frames' = IF left THEN frames ELSE Append(frames, Head(todo))
  /\ UNCHANGED <<mode, stage, sg, cx, outcome, recycle, left, past>>

ClientLeaves ==
  /\ ~left /\ left' = TRUE
  /\ UNCHANGED <<mode, stage, sg, cx, outcome, recycle, todo, frames, past>>

ReplyNext ==
  \/ Bind \/ ShedUnit \/ StartFails
  \/ SetStatus \/ Echo \/ Flush \/ FinishRequest \/ Warn \/ Return \/ Fail
  \/ FlushFailed \/ TearDown \/ SealReply \/ After
  \/ SendFrame \/ ClientLeaves

ReplySpec == ReplyInit /\ [][ReplyNext]_reply_vars

-----------------------------------------------------------------------------
(* Properties.                                                             *)

\* The places of the frames of a kind in f, and the first of these frames.
Places(f, kind) == {i \in DOMAIN f : f[i].kind = kind}
FirstOf(f, kind) == f[CHOOSE i \in Places(f, kind) : \A j \in Places(f, kind) : i <= j]

HasHead == Places(frames, "head") # {}
TheHead == FirstOf(frames, "head")
Chunk == IF Places(frames, "chunk") = {} THEN 0 ELSE FirstOf(frames, "chunk").bytes
Ended == Places(frames, "end") # {}
Complete == Ended /\ ~FirstOf(frames, "end").truncated

\* The frames as FrameStream sees them.  The body of a bodiless head is drained
\* by the plugin.
Stream == INSTANCE FrameStream WITH
  phase <- IF Ended THEN "ended" ELSE IF HasHead THEN "body" ELSE "start",
  limit <- IF ~HasHead \/ TheHead.bodiless THEN Unknown ELSE TheHead.length,
  bytes <- Chunk

\* However a request ends, and however often its reply is sealed, its frames
\* are one well-formed stream; the next request begins another.
ImplementsStreams == Stream!SInit /\ [][frames' = <<>> \/ Stream!SNext]_frames

\* A reply that ends as complete carries every byte that user code printed
\* before it was sealed, also what was still in an output buffer.
PrintedArrives == Complete /\ HasHead => past.printed = Chunk

\* A script that fails after output is cut, so that the client sees it, if its
\* reply was not sealed before the end of the request.
FailureIsCut == past.fault /\ past.early > 0 /\ past.sealer = "end" => ~Complete

\* The end of a reply tells the client what became of the script.
EndTells == PrintedArrives /\ FailureIsCut

\* A request answers for itself: its status is its own or the default, and only
\* its own failure makes it a 500, cuts it or counts it as an error, whatever
\* the engine keeps of the request before.
AnswersForItself ==
  /\ past.own \/ past.sealer = "abort" \/ ~Ended \/ Complete
  /\ past.event = "errored" => past.own
  /\ HasHead => TheHead.status \in past.chosen \/ past.own
=============================================================================
