-------------------------- MODULE HttpExchangeProofs --------------------------
(***************************************************************************)
(* Proofs about HttpExchange, for every capacity, buffer and bound: the    *)
(* unit counts as handled once, its frames are a FrameStream, a response   *)
(* whose last byte is on the socket is not reported cancelled unless it is *)
(* a replaced 101, and one that the client sees as complete is complete.   *)
(*                                                                         *)
(* The invariant has two sides that share only the channel.  UnitInv says  *)
(* what the place of the PHP thread allows of the unit, of the frames that *)
(* its call has still to send and of the stream so far.  ReplyInv says     *)
(* what the connection and the drain know of the response.  SwitchInv ties *)
(* the watermark's length to the head that the script gave.  Completeness  *)
(* needs the unit and the reply: SpokenInv says what the stream has told   *)
(* once the unit is final, and WireInv accounts for every byte from the    *)
(* stream to hyper.                                                        *)
(***************************************************************************)
EXTENDS HttpExchange, SequenceTheorems, TLAPS

Limit == Nat \cup {Unknown}

UnitTyped ==
  /\ stage \in {"open", "committed", "finalized"}
  /\ head_sent \in BOOLEAN /\ bodiless \in BOOLEAN /\ switching \in BOOLEAN /\ sender \in BOOLEAN
  /\ declared \in Limit
  /\ sent_body \in Nat
  /\ php \in {"script", "call", "sealed", "closing", "leaving", "gone"}
  /\ todo \in Seq(Frames)
  /\ handled \in Nat
  /\ said \in [phase : {"start", "body", "ended", "cut"}, limit : Limit, bytes : Nat]

\* The unit has had its last call, or is being dropped.
Over == stage = "finalized" \/ php \in {"leaving", "gone"}

\* What the place of the thread says of the unit.
PlaceInv ==
  /\ php = "call" => stage = "committed" /\ sender /\ head_sent /\ todo # <<>>
  /\ php = "sealed" => /\ stage = "finalized" /\ sender
                       /\ todo # <<>> /\ Head(todo).kind = "end"
                       /\ said.phase \in {"start", "body"}
  /\ php = "closing" => stage = "finalized" /\ sender /\ said.phase # "cut"
  /\ php \in {"script", "closing", "gone"} => todo = <<>>
  /\ php \in {"script", "leaving"} => (sender <=> stage # "finalized")
  /\ php = "leaving" /\ ~sender => todo = <<>>
  /\ php = "gone" => ~sender
  /\ ~sender => said.phase \in {"ended", "cut"}
  /\ stage = "open" => ~head_sent
  /\ declared # Unknown => sent_body <= declared

CountInv == handled = IF Over THEN 1 ELSE 0

\* Between two calls, the stream is where the unit says.
ScriptInv ==
  php = "script" /\ sender =>
    IF head_sent
    THEN /\ said.phase = "body"
         /\ ~bodiless => said.limit = declared /\ said.bytes = sent_body
    ELSE said.phase = "start" /\ said.bytes = 0 /\ sent_body = 0

IsHead(i) == todo[i].kind = "head"
IsBody(i) == todo[i].kind \in {"chunk", "file"}
IsEnd(i) == todo[i].kind = "end"
Rest == 1 .. Len(todo)

\* What is to be sent is Head? Body? End?, and continues the stream.
OrderInv ==
  php \in {"call", "leaving"} /\ sender =>
    /\ \A i \in Rest : /\ IsHead(i) => i = 1 /\ said.phase = "start"
                       /\ IsEnd(i) => i = Len(todo)
                       /\ IsBody(i) => /\ php = "call" /\ \A j \in Rest : IsBody(j) => i = j
                                       /\ i = 1 => said.phase = "body"
    /\ todo # <<>> => said.phase \in {"start", "body"}
    /\ said.phase # "cut"

\* The body fits the head, and a call that does not end the response leaves
\* the stream where ScriptInv wants it.
RoomInv ==
  php = "call" =>
    /\ \A i \in Rest : IsBody(i) =>
         /\ todo[i].len > 0
         /\ IsHead(1) => /\ ~todo[1].bodiless
                         /\ todo[1].length # Unknown => said.bytes + todo[i].len <= todo[1].length
         /\ ~IsHead(1) => (said.limit # Unknown => said.bytes + todo[i].len <= said.limit)
    /\ ~IsEnd(Len(todo)) =>
         /\ IF IsHead(1) THEN ~bodiless => ~todo[1].bodiless /\ todo[1].length = declared
            ELSE said.phase = "body" /\ (~bodiless => said.limit = declared)
         /\ \A i \in Rest : IsBody(i) /\ ~bodiless => said.bytes + todo[i].len = sent_body
         /\ (\A i \in Rest : ~IsBody(i)) /\ ~bodiless => said.bytes = sent_body

UnitInv == UnitTyped /\ PlaceInv /\ CountInv /\ ScriptInv /\ OrderInv /\ RoomInv

-----------------------------------------------------------------------------
(* Frames and what the calls make of them.                                 *)

LEMMA One ==
  ASSUME NEW S, NEW x \in S
  PROVE  <<x>> \in Seq(S) /\ Len(<<x>>) = 1 /\ <<x>>[1] = x
OBVIOUS

LEMMA Joined ==
  ASSUME NEW S, NEW H \in Seq(S), NEW B \in Seq(S), NEW E \in Seq(S)
  PROVE  /\ H \o B \o E \in Seq(S)
         /\ Len(H \o B \o E) = Len(H) + Len(B) + Len(E)
         /\ \A i \in 1 .. Len(H) + Len(B) + Len(E) :
              (H \o B \o E)[i] = IF i <= Len(H) THEN H[i]
                                 ELSE IF i <= Len(H) + Len(B) THEN B[i - Len(H)]
                                 ELSE E[i - (Len(H) + Len(B))]
<1> DEFINE F == H \o B
<1>1. /\ F \in Seq(S) /\ Len(F) = Len(H) + Len(B)
      /\ \A i \in 1 .. Len(H) + Len(B) : F[i] = IF i <= Len(H) THEN H[i] ELSE B[i - Len(H)]
  BY ConcatProperties
<1> HIDE DEF F
<1>2. F \in Seq(S)
  BY <1>1
<1>3. /\ F \o E \in Seq(S) /\ Len(F \o E) = Len(F) + Len(E)
      /\ \A i \in 1 .. Len(F) + Len(E) : (F \o E)[i] = IF i <= Len(F) THEN F[i] ELSE E[i - Len(F)]
  BY <1>2, ConcatProperties
<1>4. /\ F \o E \in Seq(S)
      /\ Len(F \o E) = Len(H) + Len(B) + Len(E)
      /\ \A i \in 1 .. Len(H) + Len(B) + Len(E) :
           (F \o E)[i] = IF i <= Len(H) THEN H[i]
                         ELSE IF i <= Len(H) + Len(B) THEN B[i - Len(H)]
                         ELSE E[i - (Len(H) + Len(B))]
  BY <1>1, <1>3
<1> QED
  BY <1>4 DEF F

\* The parts of a call's frames: each is empty or one frame.
HeadPart(h, H) ==
  /\ H \in Seq(Frames)
  /\ Len(H) = IF head_sent THEN 0 ELSE 1
  /\ ~head_sent => /\ H[1].kind = "head" /\ H[1].bodiless = bodiless /\ H[1].switching = switching
                   /\ H[1].length = IF bodiless \/ declared # Unknown THEN declared ELSE h

BodyPart(b, B) ==
  /\ B \in Seq(Frames)
  /\ Len(B) = IF b = 0 \/ bodiless THEN 0 ELSE 1
  /\ b # 0 /\ ~bodiless => B[1].kind \in {"chunk", "file"} /\ B[1].len = b

EndPart(e, E) == E \in Seq(Frames) /\ Len(E) = (IF e THEN 1 ELSE 0) /\ (e => E[1].kind = "end")

LEMMA Parts ==
  ASSUME UnitTyped, NEW h \in Limit, NEW k \in {"chunk", "file"}, NEW b \in Nat, NEW e \in BOOLEAN
  PROVE  HeadPart(h, EmitHead(h)) /\ BodyPart(b, EmitBody(k, b)) /\ EndPart(e, EmitEnd(e))
<1>1. \A x \in Frames : <<x>> \in Seq(Frames) /\ Len(<<x>>) = 1 /\ <<x>>[1] = x
  BY One
<1>2. <<>> \in Seq(Frames) /\ Len(<<>>) = 0
  OBVIOUS
<1> DEFINE head == HeadFrame(IF bodiless \/ declared # Unknown THEN declared ELSE h, bodiless, switching)
<1>3. /\ head \in Frames /\ head.kind = "head" /\ head.bodiless = bodiless
      /\ head.switching = switching
      /\ head.length = IF bodiless \/ declared # Unknown THEN declared ELSE h
  BY DEF HeadFrame, Frames, HeadFrames, Limit, UnitTyped
<1>4. BodyFrame(k, b) \in Frames /\ BodyFrame(k, b).kind = k /\ BodyFrame(k, b).len = b
  BY DEF BodyFrame, Frames, BodyFrames
<1>5. EndFrame(FALSE) \in Frames /\ EndFrame(FALSE).kind = "end"
  BY DEF EndFrame, Frames, EndFrames
<1>6. EmitHead(h) = IF head_sent THEN <<>> ELSE <<head>>
  BY DEF EmitHead
<1>7. EmitBody(k, b) = IF b = 0 \/ bodiless THEN <<>> ELSE <<BodyFrame(k, b)>>
  BY DEF EmitBody
<1>8. EmitEnd(e) = IF e THEN <<EndFrame(FALSE)>> ELSE <<>>
  BY DEF EmitEnd
<1> HIDE DEF head
<1>9. HeadPart(h, EmitHead(h))
  BY <1>1, <1>2, <1>3, <1>6 DEF HeadPart
<1>10. BodyPart(b, EmitBody(k, b))
  BY <1>1, <1>2, <1>4, <1>7 DEF BodyPart
<1>11. EndPart(e, EmitEnd(e))
  BY <1>1, <1>2, <1>5, <1>8 DEF EndPart
<1> QED
  BY <1>9, <1>10, <1>11

\* The frames fs of a call, by index.
Plan(h, b, e, fs) ==
  /\ fs \in Seq(Frames)
  /\ \A i \in 1 .. Len(fs) :
       \/ /\ i = 1 /\ ~head_sent /\ fs[i].kind = "head" /\ fs[i].bodiless = bodiless
          /\ fs[i].switching = switching
          /\ fs[i].length = IF bodiless \/ declared # Unknown THEN declared ELSE h
       \/ /\ i = (IF head_sent THEN 1 ELSE 2) /\ b # 0 /\ ~bodiless
          /\ fs[i].kind \in {"chunk", "file"} /\ fs[i].len = b
       \/ i = Len(fs) /\ e /\ fs[i].kind = "end"
  /\ e => fs # <<>> /\ fs[Len(fs)].kind = "end"
  /\ ~head_sent => fs # <<>> /\ fs[1].kind = "head"
  /\ b # 0 /\ ~bodiless => LET i == IF head_sent THEN 1 ELSE 2
                           IN  i \in 1 .. Len(fs) /\ fs[i].kind \in {"chunk", "file"}

LEMMA Planned ==
  ASSUME UnitTyped, NEW h \in Limit, NEW k \in {"chunk", "file"}, NEW b \in Nat, NEW e \in BOOLEAN
  PROVE  Plan(h, b, e, EmitHead(h) \o EmitBody(k, b) \o EmitEnd(e))
<1>1. ASSUME NEW H, NEW B, NEW E, HeadPart(h, H), BodyPart(b, B), EndPart(e, E)
      PROVE  Plan(h, b, e, H \o B \o E)
  <2>1. H \in Seq(Frames) /\ B \in Seq(Frames) /\ E \in Seq(Frames)
    BY <1>1 DEF HeadPart, BodyPart, EndPart
  <2> DEFINE fs == H \o B \o E
  <2>2. /\ fs \in Seq(Frames)
        /\ Len(fs) = Len(H) + Len(B) + Len(E)
        /\ \A i \in 1 .. Len(H) + Len(B) + Len(E) :
             fs[i] = IF i <= Len(H) THEN H[i]
                     ELSE IF i <= Len(H) + Len(B) THEN B[i - Len(H)]
                     ELSE E[i - (Len(H) + Len(B))]
    BY <2>1, Joined
  <2> HIDE DEF fs
  <2>3. /\ Len(fs) = Len(H) + Len(B) + Len(E)
        /\ (~head_sent => fs[1] = H[1])
        /\ (b # 0 /\ ~bodiless => fs[IF head_sent THEN 1 ELSE 2] = B[1])
        /\ (e => fs[Len(fs)] = E[1])
    BY <1>1, <2>1, <2>2 DEF HeadPart, BodyPart, EndPart
  <2>4. \A i \in 1 .. Len(fs) : \/ i = 1 /\ ~head_sent
                                \/ i = (IF head_sent THEN 1 ELSE 2) /\ b # 0 /\ ~bodiless
                                \/ i = Len(fs) /\ e
    BY <1>1, <2>1, <2>3 DEF HeadPart, BodyPart, EndPart
  <2>5. /\ ~head_sent => /\ fs[1].kind = "head" /\ fs[1].bodiless = bodiless
                          /\ fs[1].switching = switching
                          /\ fs[1].length = IF bodiless \/ declared # Unknown THEN declared ELSE h
        /\ b # 0 /\ ~bodiless => LET i == IF head_sent THEN 1 ELSE 2
                                 IN  fs[i].kind \in {"chunk", "file"} /\ fs[i].len = b
        /\ e => fs[Len(fs)].kind = "end"
    BY <1>1, <2>3 DEF HeadPart, BodyPart, EndPart
  <2>6. /\ ~head_sent => Len(fs) >= 1
        /\ b # 0 /\ ~bodiless => (IF head_sent THEN 1 ELSE 2) \in 1 .. Len(fs)
        /\ e => Len(fs) >= 1
    BY <1>1, <2>3 DEF HeadPart, BodyPart, EndPart
  <2>7. Len(fs) >= 1 => fs # <<>>
    BY <2>2
  <2>8. \A i \in 1 .. Len(fs) :
          \/ /\ i = 1 /\ ~head_sent /\ fs[i].kind = "head" /\ fs[i].bodiless = bodiless
             /\ fs[i].switching = switching
             /\ fs[i].length = IF bodiless \/ declared # Unknown THEN declared ELSE h
          \/ /\ i = (IF head_sent THEN 1 ELSE 2) /\ b # 0 /\ ~bodiless
             /\ fs[i].kind \in {"chunk", "file"} /\ fs[i].len = b
          \/ i = Len(fs) /\ e /\ fs[i].kind = "end"
    BY <2>4, <2>5
  <2>9. Plan(h, b, e, fs)
    BY <2>2, <2>5, <2>6, <2>7, <2>8 DEF Plan
  <2> QED
    BY <2>9 DEF fs
<1> QED
  BY <1>1, Parts

\* A call that emits frames: a head of length h, b body bytes, and an end.
Emission(h, k, b, e) ==
  /\ php = "script" /\ sender
  /\ Emits(EmitHead(h) \o EmitBody(k, b) \o EmitEnd(e))
  /\ sent_body' = sent_body + b
  /\ declared # Unknown => sent_body + b <= declared
  /\ h # Unknown => e /\ (declared # Unknown \/ sent_body + b <= h)

SomeEmission ==
  \E h \in Limit, k \in {"chunk", "file"}, b \in Nat, e \in BOOLEAN : Emission(h, k, b, e)

\* Such a call starts to send its frames, or has none to send.
LEMMA Emitted ==
  ASSUME UnitInv, NEW h \in Limit, NEW k \in {"chunk", "file"}, NEW b \in Nat, NEW e \in BOOLEAN,
         Emission(h, k, b, e)
  PROVE  /\ Plan(h, b, e, todo')
         /\ stage # "finalized" /\ stage' = "committed" /\ head_sent' = TRUE
         /\ php' = (IF todo' = <<>> THEN "script" ELSE "call")
         /\ UNCHANGED <<declared, bodiless, switching, discarded, sender, handled, died, said, frames, reply, conn,
                        body, wire, socket>>
<1>1. Plan(h, b, e, EmitHead(h) \o EmitBody(k, b) \o EmitEnd(e))
  BY Planned DEF UnitInv
<1>2. stage # "finalized"
  BY DEF Emission, UnitInv, PlaceInv
<1> QED
  BY <1>1, <1>2 DEF Emission, Emits, Sending

LEMMA EmitsKeeps ==
  ASSUME UnitInv, NEW h \in Limit, NEW k \in {"chunk", "file"}, NEW b \in Nat, NEW e \in BOOLEAN,
         Emission(h, k, b, e)
  PROVE  UnitInv'
<1> DEFINE fs == todo'
<1>1. Plan(h, b, e, fs)
  BY Emitted
<1>2. /\ stage' = "committed" /\ head_sent' /\ head_sent' = TRUE /\ todo' = fs
      /\ php' = (IF fs = <<>> THEN "script" ELSE "call")
      /\ php = "script" /\ sender /\ sent_body' = sent_body + b
      /\ declared # Unknown => sent_body + b <= declared
      /\ h # Unknown => e /\ (declared # Unknown \/ sent_body + b <= h)
      /\ UNCHANGED <<declared, bodiless, switching, sender, handled, said>>
  BY Emitted DEF Emission
<1> HIDE DEF fs
<1>3. Len(fs) \in Nat /\ (fs # <<>> => Len(fs) > 0)
  BY <1>1 DEF Plan
<1>4. UnitTyped'
  BY <1>1, <1>2 DEF Plan, UnitInv, UnitTyped
<1>5. stage # "finalized" /\ todo = <<>> /\ handled = 0
  BY <1>2 DEF UnitInv, PlaceInv, CountInv, Over
<1>6. PlaceInv' /\ CountInv'
  BY <1>2, <1>5 DEF UnitInv, UnitTyped, PlaceInv, CountInv, Over
<1>7. /\ said.limit \in Limit /\ said.bytes \in Nat /\ sent_body \in Nat /\ declared \in Limit
      /\ IF head_sent
         THEN said.phase = "body" /\ (~bodiless => said.limit = declared /\ said.bytes = sent_body)
         ELSE said.phase = "start" /\ said.bytes = 0 /\ sent_body = 0
  BY <1>2 DEF UnitInv, UnitTyped, ScriptInv
<1>8. ScriptInv'
  BY <1>1, <1>2, <1>7 DEF Plan, ScriptInv
<1>9. OrderInv'
  BY <1>1, <1>2, <1>3, <1>7 DEF Plan, OrderInv, IsHead, IsBody, IsEnd, Rest
<1>10. RoomInv'
  <2>1. SUFFICES ASSUME fs # <<>> PROVE RoomInv'
    BY <1>2 DEF RoomInv
  <2>2. ASSUME NEW i \in 1 .. Len(fs), fs[i].kind \in {"chunk", "file"}
        PROVE  /\ fs[i].len > 0 /\ fs[i].len = b
               /\ fs[1].kind = "head" =>
                    /\ ~fs[1].bodiless
                    /\ fs[1].length # Unknown => said.bytes + fs[i].len <= fs[1].length
               /\ fs[1].kind # "head" => (said.limit # Unknown => said.bytes + fs[i].len <= said.limit)
               /\ ~bodiless => said.bytes + fs[i].len = sent_body + b
    BY <1>1, <1>2, <1>3, <1>7, <2>2 DEF Plan
  <2>3. ASSUME fs[Len(fs)].kind # "end"
        PROVE  /\ IF fs[1].kind = "head" THEN ~bodiless => ~fs[1].bodiless /\ fs[1].length = declared
                  ELSE said.phase = "body" /\ (~bodiless => said.limit = declared)
               /\ (\A i \in 1 .. Len(fs) : fs[i].kind \notin {"chunk", "file"}) /\ ~bodiless =>
                    said.bytes = sent_body + b
    BY <1>1, <1>2, <1>3, <1>7, <2>1, <2>3 DEF Plan
  <2> QED
    BY <1>2, <2>2, <2>3 DEF RoomInv, IsHead, IsBody, IsEnd, Rest
<1> QED
  BY <1>4, <1>6, <1>8, <1>9, <1>10 DEF Plan, UnitInv

LEMMA WriteHeadKeeps ==
  ASSUME UnitInv, WriteHead
  PROVE  UnitInv'
<1>1. /\ php = "script" /\ stage = "open" /\ stage' = "committed" /\ declared' \in Lengths
      /\ bodiless' \in {bodiless, TRUE} /\ switching' \in BOOLEAN
      /\ UNCHANGED <<head_sent, sent_body, sender, php, todo, handled, said>>
  BY DEF WriteHead, Takes, thread
<1>2. sender /\ ~head_sent /\ todo = <<>> /\ sent_body = 0
  BY <1>1 DEF UnitInv, PlaceInv, ScriptInv
<1>3. declared' \in Limit /\ (declared' # Unknown => 0 <= declared')
  BY <1>1, ExchangeConstants DEF Lengths, Limit
<1>4. UnitTyped'
  BY <1>1, <1>3 DEF UnitInv, UnitTyped
<1>5. PlaceInv' /\ CountInv' /\ ScriptInv'
  BY <1>1, <1>2, <1>3 DEF UnitInv, UnitTyped, PlaceInv, CountInv, ScriptInv, Over
<1>6. OrderInv' /\ RoomInv'
  BY <1>1 DEF OrderInv, RoomInv
<1> QED
  BY <1>4, <1>5, <1>6 DEF UnitInv

LEMMA SendBodyEmits ==
  ASSUME UnitInv, NEW k \in {"chunk", "file"}, NEW len \in Nat, NEW eos \in BOOLEAN,
         SendBody(k, len, eos)
  PROVE  SomeEmission
<1> DEFINE finalizing == IF eos /\ sent_body = 0 THEN len ELSE Unknown
<1>1. /\ php = "script" /\ sender /\ ~PastDeclared(len) /\ sent_body' = sent_body + len
      /\ Emits(EmitHead(finalizing) \o EmitBody(k, len) \o EmitEnd(eos))
  BY DEF SendBody, Takes, UnitInv, PlaceInv
<1>2. /\ finalizing \in Limit
      /\ finalizing # Unknown => eos /\ sent_body + len <= finalizing
  BY DEF Limit
<1>3. declared # Unknown => sent_body + len <= declared
  BY <1>1 DEF PastDeclared, UnitInv, UnitTyped, Limit, Unknown
<1> HIDE DEF finalizing
<1>4. Emission(finalizing, k, len, eos)
  BY <1>1, <1>2, <1>3 DEF Emission
<1> QED
  BY <1>2, <1>4 DEF SomeEmission

LEMMA WritePastDeclaredEmits ==
  ASSUME UnitInv, NEW len \in Nat, WritePastDeclared(len)
  PROVE  SomeEmission
<1>1. /\ php = "script" /\ sender /\ declared # Unknown /\ sent_body' = declared
      /\ Emits(EmitHead(declared) \o EmitBody("chunk", declared - sent_body) \o EmitEnd(TRUE))
  BY DEF WritePastDeclared, PastDeclared, Takes, UnitInv, PlaceInv
<1>2. /\ declared \in Limit /\ sent_body \in Nat /\ declared - sent_body \in Nat
      /\ sent_body' = sent_body + (declared - sent_body)
      /\ sent_body + (declared - sent_body) <= declared
  BY <1>1 DEF UnitInv, UnitTyped, PlaceInv, Limit
<1>3. Emission(declared, "chunk", declared - sent_body, TRUE)
  BY <1>1, <1>2 DEF Emission
<1> QED
  BY <1>2, <1>3 DEF SomeEmission

\* Calls that send no body.
LEMMA BodilessEmits ==
  ASSUME UnitInv, Flush \/ WriteTrailers
  PROVE  SomeEmission
<1>1. php = "script" /\ sender /\ sent_body' = sent_body
  BY DEF Flush, WriteTrailers, Takes, UnitInv, PlaceInv
<1>2. sent_body \in Nat /\ Unknown \in Limit /\ sent_body \in Limit /\ declared \in Limit
  BY DEF UnitInv, UnitTyped, Limit
<1>3. \A h \in Limit : EmitHead(h) \in Seq(Frames)
  BY Parts DEF UnitInv, HeadPart
<1>4. EmitBody("chunk", 0) = <<>> /\ EmitEnd(FALSE) = <<>>
  BY DEF EmitBody, EmitEnd
<1>5. \A h \in Limit : EmitHead(h) \o <<>> = EmitHead(h)
  BY <1>3, ConcatEmptySeq
<1>6. /\ declared # Unknown => sent_body + 0 <= declared
      /\ 0 \in Nat /\ sent_body' = sent_body + 0 /\ sent_body + 0 <= sent_body
      /\ "chunk" \in {"chunk", "file"} /\ TRUE \in BOOLEAN /\ FALSE \in BOOLEAN
  BY <1>1, <1>2 DEF UnitInv, UnitTyped, PlaceInv
<1>7. CASE Flush
  <2>1. Emits(EmitHead(Unknown) \o EmitBody("chunk", 0) \o EmitEnd(FALSE))
    BY <1>2, <1>4, <1>5, <1>7 DEF Flush
  <2>2. Emission(Unknown, "chunk", 0, FALSE)
    BY <1>1, <1>6, <2>1 DEF Emission
  <2> QED
    BY <1>2, <1>6, <2>2 DEF SomeEmission
<1>8. CASE WriteTrailers
  <2>1. Emits(EmitHead(sent_body) \o EmitBody("chunk", 0) \o EmitEnd(TRUE))
    BY <1>2, <1>4, <1>5, <1>8 DEF WriteTrailers
  <2>2. Emission(sent_body, "chunk", 0, TRUE)
    BY <1>1, <1>6, <2>1 DEF Emission
  <2> QED
    BY <1>2, <1>6, <2>2 DEF SomeEmission
<1> QED
  BY <1>7, <1>8

\* The sender drops: what the stream becomes.
LEMMA Closed ==
  ASSUME UnitTyped, CloseStream
  PROVE  /\ sender' = FALSE
         /\ said' \in [phase : {"start", "body", "ended", "cut"}, limit : Limit, bytes : Nat]
         /\ said'.phase = (IF said.phase = "ended" THEN "ended" ELSE "cut")
         /\ said'.limit = said.limit /\ said'.bytes = said.bytes
BY DEF UnitTyped, CloseStream

\* The client's departure ends the unit.
LEMMA DiscardKeeps ==
  ASSUME UnitInv, DiscardUnit, stage # "finalized", php \in {"script", "call"}, php' = "script",
         todo' = <<>>
  PROVE  UnitInv'
<1>1. /\ stage' = "finalized" /\ handled' = handled + 1 /\ sender' = FALSE
      /\ said' \in [phase : {"start", "body", "ended", "cut"}, limit : Limit, bytes : Nat]
      /\ said'.phase \in {"ended", "cut"}
      /\ UNCHANGED <<head_sent, declared, sent_body, bodiless, switching>>
  BY Closed DEF DiscardUnit, UnitInv
<1>2. UnitTyped'
  <2>1. handled' \in Nat /\ todo' \in Seq(Frames)
    BY <1>1 DEF UnitInv, UnitTyped
  <2> QED
    BY <1>1, <2>1 DEF UnitInv, UnitTyped
<1>3. PlaceInv' /\ CountInv' /\ ScriptInv' /\ OrderInv' /\ RoomInv'
  BY <1>1 DEF UnitInv, UnitTyped, PlaceInv, CountInv, ScriptInv, OrderInv, RoomInv, Over
<1> QED
  BY <1>2, <1>3 DEF UnitInv

LEMMA SeeGoneKeeps ==
  ASSUME UnitInv, SeeGone
  PROVE  UnitInv'
<1>1. DiscardUnit /\ stage # "finalized" /\ php = "script" /\ php' = "script" /\ todo' = todo
  BY DEF SeeGone
<1>2. todo' = <<>>
  BY <1>1 DEF UnitInv, PlaceInv
<1> QED
  BY <1>1, <1>2, DiscardKeeps

LEMMA ReleaseKeeps ==
  ASSUME UnitInv, Release
  PROVE  UnitInv'
<1>1. /\ php = "script" /\ php' = "leaving" /\ UNCHANGED <<unit, sender, said>>
      /\ handled' = handled + (IF stage = "finalized" THEN 0 ELSE 1)
      /\ todo' = <<>> \/ (stage # "finalized" /\ todo' = LastWords)
  BY DEF Release
<1>2. sender <=> stage # "finalized"
  BY <1>1 DEF UnitInv, PlaceInv
<1>3. \A x \in Frames : <<x>> \in Seq(Frames) /\ Len(<<x>>) = 1 /\ <<x>>[1] = x
  BY One
<1>4. ASSUME stage # "finalized"
      PROVE  /\ LastWords \in Seq(Frames)
             /\ \A i \in 1 .. Len(LastWords) :
                  \/ i = 1 /\ ~head_sent /\ LastWords[i].kind = "head"
                  \/ i = Len(LastWords) /\ LastWords[i].kind = "end"
  <2> DEFINE head == HeadFrame(IF bodiless THEN Unknown ELSE 0, bodiless, FALSE)
  <2>1. /\ head \in Frames /\ head.kind = "head"
        /\ EndFrame(TRUE) \in Frames /\ EndFrame(TRUE).kind = "end"
        /\ EndFrame(FALSE) \in Frames /\ EndFrame(FALSE).kind = "end"
    BY DEF HeadFrame, EndFrame, Frames, HeadFrames, EndFrames, Limit, UnitInv, UnitTyped
  <2>2. LastWords = IF head_sent THEN <<EndFrame(TRUE)>> ELSE <<head, EndFrame(FALSE)>>
    BY DEF LastWords
  <2> HIDE DEF head
  <2>3. \A x, y \in Frames : /\ <<x, y>> \in Seq(Frames) /\ Len(<<x, y>>) = 2
                             /\ <<x, y>>[1] = x /\ <<x, y>>[2] = y
    OBVIOUS
  <2>4. CASE head_sent
    <3>1. LastWords = <<EndFrame(TRUE)>>
      BY <2>2, <2>4
    <3>2. LastWords \in Seq(Frames) /\ Len(LastWords) = 1 /\ LastWords[1].kind = "end"
      BY <1>3, <2>1, <3>1
    <3>3. \A i \in 1 .. Len(LastWords) : i = Len(LastWords) /\ i = 1
      BY <3>2
    <3> QED
      BY <3>2, <3>3
  <2>5. CASE ~head_sent
    <3>1. LastWords = <<head, EndFrame(FALSE)>>
      BY <2>2, <2>5
    <3>2. /\ LastWords \in Seq(Frames) /\ Len(LastWords) = 2
          /\ LastWords[1] = head /\ LastWords[2] = EndFrame(FALSE)
      BY <2>1, <2>3, <3>1
    <3>3. \A i \in 1 .. Len(LastWords) : i = 1 \/ i = Len(LastWords)
      BY <3>2
    <3>4. LastWords[1].kind = "head" /\ LastWords[Len(LastWords)].kind = "end"
      BY <2>1, <3>2
    <3> QED
      BY <2>5, <3>2, <3>3, <3>4
  <2> QED
    BY <2>4, <2>5
<1>5. UnitTyped'
  <2>1. handled' \in Nat
    BY <1>1 DEF UnitInv, UnitTyped
  <2>2. <<>> \in Seq(Frames)
    OBVIOUS
  <2>3. todo' \in Seq(Frames)
    BY <1>1, <1>4, <2>2
  <2> QED
    BY <1>1, <2>1, <2>3 DEF unit, UnitInv, UnitTyped
<1>6. PlaceInv' /\ CountInv' /\ ScriptInv' /\ RoomInv'
  BY <1>1, <1>2 DEF unit, UnitInv, UnitTyped, PlaceInv, CountInv, ScriptInv, RoomInv, Over
<1>7. OrderInv'
  BY <1>1, <1>2, <1>4 DEF UnitInv, UnitTyped, ScriptInv, OrderInv, IsHead, IsBody, IsEnd, Rest
<1> QED
  BY <1>5, <1>6, <1>7 DEF UnitInv

\* What a frame makes of the stream.
LEMMA SaidOf ==
  ASSUME UnitTyped, NEW f \in Frames, said.phase = "start" \/ f.kind # "head"
  PROVE  /\ Said(f) \in [phase : {"start", "body", "ended", "cut"}, limit : Limit, bytes : Nat]
         /\ f.kind = "head" => /\ Said(f).phase = "body" /\ Said(f).bytes = said.bytes
                               /\ Said(f).limit = IF f.bodiless THEN 0 ELSE f.length
         /\ f.kind = "end" => /\ Said(f).phase = "ended" /\ Said(f).bytes = said.bytes
                              /\ Said(f).limit = said.limit
         /\ f.kind \in {"chunk", "file"} =>
              /\ Said(f).phase = said.phase /\ Said(f).limit = said.limit
              /\ f.len \in Nat /\ Said(f).bytes = said.bytes + f.len
<1>1. CASE f \in HeadFrames
  BY <1>1 DEF Said, UnitTyped, HeadFrames, Limit
<1>2. CASE f \in BodyFrames
  BY <1>2 DEF Said, UnitTyped, BodyFrames
<1>3. CASE f \in EndFrames
  BY <1>3 DEF Said, UnitTyped, EndFrames
<1> QED
  BY <1>1, <1>2, <1>3 DEF Frames

\* What is still to be sent when its first frame is out.
LEMMA Next1 ==
  ASSUME UnitTyped, todo # <<>>
  PROVE  /\ Head(todo) \in Frames /\ Head(todo) = todo[1] /\ Len(todo) \in Nat \ {0}
         /\ Head(todo).kind \in {"head", "chunk", "file", "end"}
         /\ Tail(todo) \in Seq(Frames) /\ Len(Tail(todo)) = Len(todo) - 1
         /\ \A i \in 1 .. Len(Tail(todo)) : Tail(todo)[i] = todo[i + 1] /\ i + 1 \in 1 .. Len(todo)
         /\ Tail(todo) = <<>> <=> Len(todo) = 1
<1>1. todo \in Seq(Frames)
  BY DEF UnitTyped
<1>2. /\ Head(todo) \in Frames /\ Tail(todo) \in Seq(Frames) /\ Len(Tail(todo)) = Len(todo) - 1
      /\ \A i \in 1 .. Len(Tail(todo)) : Tail(todo)[i] = todo[i + 1]
  BY <1>1, HeadTailProperties
<1>3. Head(todo) = todo[1] /\ Len(todo) \in Nat \ {0}
  BY <1>1
<1>4. Head(todo).kind \in {"head", "chunk", "file", "end"}
  BY <1>2 DEF Frames, HeadFrames, BodyFrames, EndFrames
<1>5. \A i \in 1 .. Len(Tail(todo)) : i + 1 \in 1 .. Len(todo)
  BY <1>2, <1>3
<1>6. Tail(todo) = <<>> <=> Len(todo) = 1
  <2>1. Len(Tail(todo)) = 0 <=> Tail(todo) = <<>>
    BY <1>2, EmptySeq
  <2> QED
    BY <1>2, <1>3, <2>1
<1> QED
  BY <1>2, <1>3, <1>4, <1>5, <1>6

\* A frame of a call is put into the channel.
LEMMA PutKeeps ==
  ASSUME UnitInv, php = "call", Head(todo).kind # "end", Put(Head(todo)), Sending(Tail(todo)),
         UNCHANGED <<unit, sender, handled>>
  PROVE  UnitInv'
<1> DEFINE f == Head(todo)
           ts == Tail(todo)
<1>1. /\ stage = "committed" /\ sender /\ head_sent /\ todo # <<>> /\ handled = 0
      /\ said' = Said(f) /\ todo' = ts /\ php' = (IF ts = <<>> THEN "script" ELSE "call")
      /\ UNCHANGED <<stage, head_sent, declared, sent_body, bodiless, switching, sender, handled>>
  BY DEF UnitInv, PlaceInv, CountInv, Over, Put, Sending, unit
<1>2. /\ f \in Frames /\ f = todo[1] /\ Len(todo) \in Nat \ {0}
      /\ f.kind \in {"head", "chunk", "file"}
      /\ ts \in Seq(Frames) /\ Len(ts) = Len(todo) - 1
      /\ \A i \in 1 .. Len(ts) : ts[i] = todo[i + 1] /\ i + 1 \in 1 .. Len(todo)
      /\ ts = <<>> <=> Len(todo) = 1
  BY <1>1, Next1 DEF UnitInv
<1>3. f.kind = "head" => said.phase = "start"
  <2>1. 1 \in Rest
    BY <1>2 DEF Rest
  <2> QED
    BY <1>1, <1>2, <2>1 DEF UnitInv, OrderInv, IsHead
<1>4. /\ said' \in [phase : {"start", "body", "ended", "cut"}, limit : Limit, bytes : Nat]
      /\ f.kind = "head" => /\ said'.phase = "body" /\ said'.bytes = said.bytes
                            /\ said'.limit = IF f.bodiless THEN 0 ELSE f.length
      /\ f.kind \in {"chunk", "file"} =>
           /\ said'.phase = said.phase /\ said'.limit = said.limit
           /\ f.len \in Nat /\ said'.bytes = said.bytes + f.len
  BY <1>1, <1>2, <1>3, SaidOf DEF UnitInv
<1> HIDE DEF f, ts
<1>5. UnitTyped'
  BY <1>1, <1>2, <1>4 DEF UnitInv, UnitTyped
<1>6. PlaceInv' /\ CountInv'
  BY <1>1 DEF UnitInv, UnitTyped, PlaceInv, CountInv, Over
<1>7. /\ \A i \in Rest : /\ IsHead(i) => i = 1
                         /\ IsEnd(i) => i = Len(todo)
                         /\ IsBody(i) => /\ \A j \in Rest : IsBody(j) => i = j
                                         /\ i = 1 => said.phase = "body"
      /\ said.phase \in {"start", "body"}
  BY <1>1 DEF UnitInv, OrderInv
<1>8. said'.phase = "body"
  BY <1>2, <1>4, <1>7 DEF IsBody, Rest
<1>9. \A i \in 1 .. Len(ts) :
        /\ ts[i].kind # "head"
        /\ ts[i].kind = "end" => i = Len(ts)
        /\ ts[i].kind \in {"chunk", "file"} =>
             /\ f.kind = "head"
             /\ \A j \in 1 .. Len(ts) : ts[j].kind \in {"chunk", "file"} => i = j
  <2> SUFFICES ASSUME NEW i \in 1 .. Len(ts)
               PROVE  /\ ts[i].kind # "head"
                      /\ ts[i].kind = "end" => i = Len(ts)
                      /\ ts[i].kind \in {"chunk", "file"} =>
                           /\ f.kind = "head"
                           /\ \A j \in 1 .. Len(ts) : ts[j].kind \in {"chunk", "file"} => i = j
    OBVIOUS
  <2>1. i + 1 \in Rest /\ ts[i] = todo[i + 1] /\ 1 \in Rest /\ i \in Nat /\ i > 0 /\ i + 1 # 1
    BY <1>2 DEF Rest
  <2>2. ts[i].kind # "head" /\ (ts[i].kind = "end" => i = Len(ts))
    BY <1>2, <1>7, <2>1 DEF IsHead, IsEnd
  <2>3. ASSUME ts[i].kind \in {"chunk", "file"} PROVE f.kind = "head"
    BY <1>2, <1>7, <2>1, <2>3 DEF IsBody
  <2>4. ASSUME ts[i].kind \in {"chunk", "file"}, NEW j \in 1 .. Len(ts), ts[j].kind \in {"chunk", "file"}
        PROVE  i = j
    <3>1. j + 1 \in Rest /\ ts[j] = todo[j + 1] /\ j \in Nat
      BY <1>2 DEF Rest
    <3>2. i + 1 = j + 1
      BY <1>7, <2>1, <2>4, <3>1 DEF IsBody
    <3> QED
      BY <2>1, <3>1, <3>2
  <2> QED
    BY <2>2, <2>3, <2>4
<1>10. OrderInv'
  BY <1>1, <1>8, <1>9 DEF OrderInv, IsHead, IsBody, IsEnd, Rest
<1>11. \A i \in 1 .. Len(ts) : ts[i].kind \in {"chunk", "file"} =>
         /\ ts[i].len > 0
         /\ said'.limit # Unknown => said'.bytes + ts[i].len <= said'.limit
  <2> SUFFICES ASSUME NEW i \in 1 .. Len(ts), ts[i].kind \in {"chunk", "file"}
               PROVE  /\ ts[i].len > 0
                      /\ said'.limit # Unknown => said'.bytes + ts[i].len <= said'.limit
    OBVIOUS
  <2>1. f.kind = "head" /\ i + 1 \in Rest /\ IsBody(i + 1) /\ IsHead(1)
    BY <1>2, <1>9 DEF Rest, IsBody, IsHead
  <2>2. /\ todo[i + 1].len > 0 /\ ~f.bodiless
        /\ f.length # Unknown => said.bytes + todo[i + 1].len <= f.length
    BY <1>2, <2>1 DEF UnitInv, RoomInv
  <2> QED
    BY <1>2, <1>4, <2>1, <2>2
<1>12. ASSUME todo[Len(todo)].kind # "end", ~bodiless
       PROVE  /\ said'.limit = declared
              /\ \A i \in 1 .. Len(ts) : ts[i].kind \in {"chunk", "file"} =>
                   said'.bytes + ts[i].len = sent_body
              /\ (\A i \in 1 .. Len(ts) : ts[i].kind \notin {"chunk", "file"}) =>
                   said'.bytes = sent_body
  <2>1. /\ IF IsHead(1) THEN ~todo[1].bodiless /\ todo[1].length = declared
           ELSE said.limit = declared
        /\ \A i \in Rest : IsBody(i) => said.bytes + todo[i].len = sent_body
        /\ (\A i \in Rest : ~IsBody(i)) => said.bytes = sent_body
    BY <1>12 DEF UnitInv, RoomInv, IsEnd
  <2>2. said'.limit = declared
    BY <1>2, <1>4, <2>1 DEF IsHead
  <2>3. CASE f.kind = "head"
    <3>1. ASSUME NEW i \in 1 .. Len(ts), ts[i].kind \in {"chunk", "file"}
          PROVE  said'.bytes + ts[i].len = sent_body
      BY <1>2, <1>4, <2>1, <2>3, <3>1 DEF IsBody, Rest
    <3>2. ASSUME \A i \in 1 .. Len(ts) : ts[i].kind \notin {"chunk", "file"}
          PROVE  said'.bytes = sent_body
      <4>1. \A i \in Rest : i = 1 \/ (i - 1 \in 1 .. Len(ts) /\ todo[i] = ts[i - 1])
        BY <1>2 DEF Rest
      <4>2. \A i \in Rest : ~IsBody(i)
        BY <1>2, <2>3, <3>2, <4>1 DEF IsBody
      <4> QED
        BY <1>4, <2>1, <2>3, <4>2
    <3> QED
      BY <2>2, <3>1, <3>2
  <2>4. CASE f.kind \in {"chunk", "file"}
    <3>1. 1 \in Rest /\ IsBody(1)
      BY <1>2, <2>4 DEF IsBody, Rest
    <3>2. said'.bytes = sent_body
      BY <1>2, <1>4, <2>1, <2>4, <3>1
    <3> QED
      BY <1>9, <2>2, <2>4, <3>2
  <2> QED
    BY <1>2, <2>3, <2>4
<1>13. ScriptInv'
  <2>1. CASE ts = <<>>
    <3>1. todo[Len(todo)].kind # "end" /\ Len(ts) = 0
      BY <1>2, <2>1
    <3> QED
      BY <1>1, <1>8, <1>12, <3>1 DEF ScriptInv
  <2>2. CASE ts # <<>>
    BY <1>1, <2>2 DEF ScriptInv
  <2> QED
    BY <2>1, <2>2
<1>14. RoomInv'
  <2>1. SUFFICES ASSUME ts # <<>> PROVE RoomInv'
    BY <1>1 DEF RoomInv
  <2>2. Len(ts) \in Nat \ {0} /\ ts[Len(ts)] = todo[Len(todo)] /\ ts[1].kind # "head"
    BY <1>2, <1>9, <2>1
  <2> QED
    BY <1>1, <1>8, <1>11, <1>12, <2>2 DEF RoomInv, IsHead, IsBody, IsEnd, Rest
<1> QED
  BY <1>5, <1>6, <1>10, <1>13, <1>14 DEF UnitInv

LEMMA SendFrameKeeps ==
  ASSUME UnitInv, SendFrame
  PROVE  UnitInv'
<1>1. php = "call" /\ Head(todo).kind # "end" /\ stage = "committed" /\ sender /\ head_sent
  BY DEF SendFrame, UnitInv, PlaceInv
<1>2. CASE Put(Head(todo)) /\ Sending(Tail(todo)) /\ UNCHANGED <<unit, sender, handled>>
  BY <1>1, <1>2, PutKeeps
<1>3. CASE DiscardUnit /\ Sending(<<>>)
  BY <1>1, <1>3, DiscardKeeps DEF Sending
<1>4. CASE Sending(<<EndFrame(FALSE)>>) /\ UNCHANGED <<unit, sender, handled, said>>
  <2>1. EndFrame(FALSE) \in Frames /\ EndFrame(FALSE).kind = "end"
    BY DEF EndFrame, Frames, EndFrames
  <2> DEFINE ts == <<EndFrame(FALSE)>>
  <2>2. ts \in Seq(Frames) /\ Len(ts) = 1 /\ ts[1].kind = "end" /\ ts # <<>>
    BY <2>1, One
  <2>3. todo' = ts /\ php' = "call" /\ UNCHANGED <<unit, sender, handled, said>>
    BY <1>4, <2>2 DEF Sending
  <2> HIDE DEF ts
  <2>4. \A i \in 1 .. Len(ts) : i = 1 /\ i = Len(ts) /\ ts[i].kind = "end"
    BY <2>2
  <2>5. UnitTyped'
    BY <2>2, <2>3 DEF unit, UnitInv, UnitTyped
  <2>6. PlaceInv' /\ CountInv' /\ ScriptInv'
    BY <1>1, <2>2, <2>3 DEF unit, UnitInv, UnitTyped, PlaceInv, CountInv, ScriptInv, Over
  <2>7. OrderInv' /\ RoomInv'
    <3>1. todo # <<>>
      BY <1>1 DEF UnitInv, PlaceInv
    <3>2. said.phase \in {"start", "body"}
      BY <1>1, <3>1 DEF UnitInv, OrderInv
    <3> QED
      BY <1>1, <2>2, <2>3, <2>4, <3>2 DEF OrderInv, RoomInv, IsHead, IsBody, IsEnd, Rest
  <2> QED
    BY <2>5, <2>6, <2>7 DEF UnitInv
<1> QED
  BY <1>2, <1>3, <1>4 DEF SendFrame

\* A frame that says End is the last of its call.
LEMMA EndIsLast ==
  ASSUME UnitInv, php \in {"call", "leaving"}, sender, todo # <<>>, Head(todo).kind = "end"
  PROVE  Len(todo) = 1 /\ todo \in Seq(Frames) /\ Head(todo) = todo[1] /\ Head(todo) \in EndFrames
         /\ said.phase \in {"start", "body"}
<1>1. Head(todo) \in Frames /\ Head(todo) = todo[1] /\ 1 \in Rest /\ todo \in Seq(Frames)
  BY Next1 DEF UnitInv, UnitTyped, Rest
<1>2. Len(todo) = 1 /\ said.phase \in {"start", "body"}
  BY <1>1 DEF UnitInv, OrderInv, IsEnd
<1>3. Head(todo) \in EndFrames
  BY <1>1 DEF Frames, HeadFrames, BodyFrames, EndFrames
<1> QED
  BY <1>1, <1>2, <1>3

LEMMA SendEndKeeps ==
  ASSUME UnitInv, SendEnd
  PROVE  UnitInv'
<1>1. /\ php = "sealed" /\ php' = "closing" /\ todo' = <<>> /\ stage = "finalized" /\ sender
      /\ todo # <<>> /\ Head(todo).kind = "end" /\ said.phase \in {"start", "body"}
      /\ said' = said \/ said' = Said(Head(todo))
      /\ UNCHANGED <<unit, sender, handled>>
  BY DEF SendEnd, Put, UnitInv, PlaceInv
<1>2. Head(todo) \in Frames
  BY <1>1, Next1 DEF UnitInv
<1>3. /\ said' \in [phase : {"start", "body", "ended", "cut"}, limit : Limit, bytes : Nat]
      /\ said'.phase # "cut"
  BY <1>1, <1>2, SaidOf DEF UnitInv, UnitTyped
<1>4. <<>> \in Seq(Frames)
  OBVIOUS
<1>5. UnitTyped'
  BY <1>1, <1>3, <1>4 DEF unit, UnitInv, UnitTyped
<1>6. PlaceInv' /\ CountInv' /\ ScriptInv' /\ OrderInv' /\ RoomInv'
  BY <1>1, <1>3
  DEF unit, UnitInv, UnitTyped, PlaceInv, CountInv, ScriptInv, OrderInv, RoomInv, Over
<1> QED
  BY <1>5, <1>6 DEF UnitInv

LEMMA DropSenderKeeps ==
  ASSUME UnitInv, DropSender
  PROVE  UnitInv'
<1>1. /\ php = "closing" /\ php' = "script" /\ stage = "finalized" /\ sender /\ todo = <<>>
      /\ sender' = FALSE /\ said'.phase \in {"ended", "cut"}
      /\ said' \in [phase : {"start", "body", "ended", "cut"}, limit : Limit, bytes : Nat]
      /\ UNCHANGED <<unit, todo, handled>>
  BY Closed DEF DropSender, UnitInv, PlaceInv
<1>2. UnitTyped'
  BY <1>1 DEF unit, UnitInv, UnitTyped
<1>3. PlaceInv' /\ CountInv' /\ ScriptInv' /\ OrderInv' /\ RoomInv'
  BY <1>1 DEF unit, UnitInv, UnitTyped, PlaceInv, CountInv, ScriptInv, OrderInv, RoomInv, Over
<1> QED
  BY <1>2, <1>3 DEF UnitInv

LEMMA LeaveKeeps ==
  ASSUME UnitInv, Leave
  PROVE  UnitInv'
<1>1. /\ php = "leaving" /\ php' = "gone" /\ todo = <<>>
      /\ sender' = FALSE /\ said'.phase \in {"ended", "cut"}
      /\ said' \in [phase : {"start", "body", "ended", "cut"}, limit : Limit, bytes : Nat]
      /\ UNCHANGED <<unit, todo, handled>>
  BY Closed DEF Leave, UnitInv, PlaceInv
<1>2. UnitTyped'
  BY <1>1 DEF unit, UnitInv, UnitTyped
<1>3. PlaceInv' /\ CountInv' /\ ScriptInv' /\ OrderInv' /\ RoomInv'
  BY <1>1 DEF unit, UnitInv, UnitTyped, PlaceInv, CountInv, ScriptInv, OrderInv, RoomInv, Over
<1> QED
  BY <1>2, <1>3 DEF UnitInv

LEMMA SealKeeps ==
  ASSUME UnitInv, Seal
  PROVE  UnitInv'
<1>1. /\ php = "call" /\ php' = "sealed" /\ stage = "committed" /\ stage' = "finalized" /\ sender
      /\ todo # <<>> /\ Head(todo).kind = "end" /\ handled' = handled + 1
      /\ UNCHANGED <<head_sent, declared, sent_body, bodiless, switching, sender, todo, said>>
  BY DEF Seal, Sealed, UnitInv, PlaceInv
<1>2. Len(todo) = 1 /\ Head(todo) = todo[1] /\ said.phase \in {"start", "body"}
  BY <1>1, EndIsLast
<1>3. handled = 0 /\ handled' = 1
  BY <1>1 DEF UnitInv, CountInv, Over
<1>4. UnitTyped'
  BY <1>1, <1>3 DEF UnitInv, UnitTyped
<1>5. PlaceInv' /\ CountInv' /\ ScriptInv' /\ OrderInv' /\ RoomInv'
  BY <1>1, <1>2, <1>3
  DEF UnitInv, UnitTyped, PlaceInv, CountInv, ScriptInv, OrderInv, RoomInv, Over
<1> QED
  BY <1>4, <1>5 DEF UnitInv

\* A last frame of a unit that is dropped, or the end of the attempt.
LEMMA LastFrameKeeps ==
  ASSUME UnitInv, LastFrame
  PROVE  UnitInv'
<1>1. /\ php = "leaving" /\ php' = "leaving" /\ todo # <<>> /\ sender /\ stage # "finalized"
      /\ \/ Put(Head(todo)) /\ todo' = Tail(todo)
         \/ todo' = <<>> /\ said' = said
      /\ UNCHANGED <<unit, sender, handled>>
  BY DEF LastFrame, UnitInv, PlaceInv
<1>2. /\ Head(todo) \in Frames /\ Head(todo) = todo[1] /\ Len(todo) \in Nat \ {0}
      /\ Head(todo).kind \in {"head", "chunk", "file", "end"}
      /\ Tail(todo) \in Seq(Frames) /\ Len(Tail(todo)) = Len(todo) - 1
      /\ \A i \in 1 .. Len(Tail(todo)) : Tail(todo)[i] = todo[i + 1] /\ i + 1 \in 1 .. Len(todo)
      /\ Tail(todo) = <<>> <=> Len(todo) = 1
  BY <1>1, Next1 DEF UnitInv
<1>3. /\ \A i \in Rest : (IsHead(i) => i = 1 /\ said.phase = "start") /\ (IsEnd(i) => i = Len(todo))
                        /\ ~IsBody(i)
      /\ said.phase \in {"start", "body"}
  BY <1>1 DEF UnitInv, OrderInv
<1>4. /\ Head(todo).kind \in {"head", "end"}
      /\ Head(todo).kind = "head" => said.phase = "start"
      /\ Head(todo).kind = "end" => Tail(todo) = <<>>
  <2>1. 1 \in Rest
    BY <1>2 DEF Rest
  <2> QED
    BY <1>2, <1>3, <2>1 DEF IsHead, IsEnd, IsBody
<1>5. CASE Put(Head(todo)) /\ todo' = Tail(todo)
  <2>1. /\ said' \in [phase : {"start", "body", "ended", "cut"}, limit : Limit, bytes : Nat]
        /\ said'.phase = IF Head(todo).kind = "head" THEN "body" ELSE "ended"
    BY <1>2, <1>4, <1>5, SaidOf DEF Put, UnitInv
  <2>2. UnitTyped'
    BY <1>1, <1>2, <1>5, <2>1 DEF unit, UnitInv, UnitTyped
  <2>3. PlaceInv' /\ CountInv' /\ ScriptInv' /\ RoomInv'
    BY <1>1, <2>1 DEF unit, UnitInv, UnitTyped, PlaceInv, CountInv, ScriptInv, RoomInv, Over
  <2>4. ASSUME NEW i \in 1 .. Len(Tail(todo))
        PROVE  Tail(todo)[i].kind \notin {"head", "chunk", "file"}
               /\ (Tail(todo)[i].kind = "end" => i = Len(Tail(todo)))
    <3>1. i + 1 \in Rest /\ Tail(todo)[i] = todo[i + 1] /\ i \in Nat /\ i + 1 # 1
      BY <1>2 DEF Rest
    <3> QED
      BY <1>2, <1>3, <3>1 DEF IsHead, IsEnd, IsBody
  <2>5. OrderInv'
    BY <1>1, <1>4, <1>5, <2>1, <2>4 DEF OrderInv, IsHead, IsBody, IsEnd, Rest
  <2> QED
    BY <2>2, <2>3, <2>5 DEF UnitInv
<1>6. CASE todo' = <<>> /\ said' = said
  <2>1. UnitTyped'
    BY <1>1, <1>6 DEF unit, UnitInv, UnitTyped
  <2>2. PlaceInv' /\ CountInv' /\ ScriptInv' /\ OrderInv' /\ RoomInv'
    BY <1>1, <1>3, <1>6
    DEF unit, UnitInv, UnitTyped, PlaceInv, CountInv, ScriptInv, OrderInv, RoomInv, Over,
        IsHead, IsBody, IsEnd, Rest
  <2> QED
    BY <2>1, <2>2 DEF UnitInv
<1> QED
  BY <1>1, <1>5, <1>6

-----------------------------------------------------------------------------
(* The side of the connection.                                             *)

Encoded == [head : {"none", "php", "bad_gateway"}, bytes : Nat, last : BOOLEAN]

ReplyTyped ==
  /\ frames \in Seq(Frames)
  /\ staged \in Frames \cup {NoFrame}
  /\ framed \in Limit /\ awaited \in Limit
  /\ sent \in Nat /\ pump \in Nat
  /\ encoded \in Encoded /\ flushed \in Encoded
  /\ flushes \in Nat /\ end_flush \in Limit
  /\ reply \in {"serve", "body", "drain", "late", "none"}
  /\ conn \in {"head", "hand_over", "staging", "respond", "body", "done", "failed", "dropped",
               "closed"}

\* The End is in the channel only when the unit is over.
EndInv ==
  /\ \A i \in 1 .. Len(frames) : frames[i].kind = "end" => Over
  /\ staged # NoFrame /\ staged.kind = "end" => Over

\* Who holds the receiver where.
HolderInv ==
  /\ conn \in {"head", "hand_over", "staging"} => reply = "serve"
  /\ reply = "serve" => conn \in {"head", "hand_over", "staging", "respond"}
  /\ reply = "body" => conn = "body"
  /\ closed => conn = "closed"

\* What hyper was given.
GivenInv ==
  /\ sent = encoded.bytes
  /\ conn \in {"head", "hand_over", "staging", "respond"} => encoded.head = "none"
  /\ conn \in {"body", "done", "failed"} => encoded.head # "none"
  /\ encoded.head = "none" => encoded.bytes = 0 /\ end_flush = Unknown
  /\ flushed.head # "none" => flushed.head = encoded.head

\* The watermark is set when the last byte is encoded, and a flush after it is
\* what puts that byte on the socket.
MarkInv ==
  /\ end_flush <= flushes
  /\ encoded.head = "php" /\ awaited = framed /\ framed # Unknown /\ encoded.bytes >= framed =>
       end_flush # Unknown
  /\ Watched => /\ end_flush # Unknown /\ flushes > end_flush
                 /\ encoded.bytes = framed

\* A receiver that drops while PHP works on leaves a response that will not be
\* whole on the socket.
LostInv ==
  reply = "none" /\ ~Over =>
    \/ conn \in {"dropped", "closed"} /\ ~Watched
    \/ /\ conn \in {"body", "done", "failed"}
       /\ encoded.head # "php" \/ framed = Unknown \/ encoded.bytes # framed \/ awaited # framed

ReplyInv == ReplyTyped /\ EndInv /\ HolderInv /\ GivenInv /\ MarkInv /\ LostInv

-----------------------------------------------------------------------------
(* Steps of the connection and the drain.                                  *)

LEMMA DroppedIsOver ==
  ASSUME UnitInv, ~sender
  PROVE  Over
BY DEF UnitInv, UnitTyped, PlaceInv, Over

\* The first frame of the channel.
LEMMA First ==
  ASSUME ReplyInv, frames # <<>>
  PROVE  /\ Head(frames) \in Frames
         /\ Head(frames).kind = "end" => Over
         /\ Tail(frames) \in Seq(Frames)
         /\ \A i \in 1 .. Len(Tail(frames)) : Tail(frames)[i].kind = "end" => Over
<1>1. frames \in Seq(Frames) /\ \A i \in 1 .. Len(frames) : frames[i].kind = "end" => Over
  BY DEF ReplyInv, ReplyTyped, EndInv
<1>2. /\ Head(frames) \in Frames /\ Tail(frames) \in Seq(Frames) /\ Len(Tail(frames)) = Len(frames) - 1
      /\ \A i \in 1 .. Len(Tail(frames)) : Tail(frames)[i] = frames[i + 1]
  BY <1>1, HeadTailProperties
<1>3. Head(frames) = frames[1] /\ Len(frames) \in Nat \ {0}
  BY <1>1
<1>4. 1 \in 1 .. Len(frames) /\ \A i \in 1 .. Len(Tail(frames)) : i + 1 \in 1 .. Len(frames)
  BY <1>2, <1>3
<1> QED
  BY <1>1, <1>2, <1>3, <1>4

\* What a drop of the reply, or its move to a drain, makes of channel and receiver.
LEMMA DrainStart ==
  ASSUME UnitInv, ReplyInv, SpawnDrain
  PROVE  /\ reply' \in {"none", "drain"} /\ (reply' = "none" => Over)
         /\ frames' \in Seq(Frames)
         /\ \A i \in 1 .. Len(frames') : frames'[i].kind = "end" => Over
<1>1. reply' = "none" => Over
  BY First, DroppedIsOver DEF SpawnDrain, StreamOver
<1>2. frames' = IF frames = <<>> THEN <<>> ELSE Tail(frames)
  BY DEF SpawnDrain
<1>3. CASE frames = <<>>
  BY <1>1, <1>2, <1>3 DEF SpawnDrain
<1>4. CASE frames # <<>>
  BY <1>1, <1>2, <1>4, First DEF SpawnDrain
<1> QED
  BY <1>3, <1>4

LEMMA TakeHeadKeeps ==
  ASSUME UnitInv, ReplyInv, TakeHead
  PROVE  ReplyInv'
<1>1. /\ conn = "head" /\ reply = "serve" /\ Head(frames) \in HeadFrames /\ frames' = Tail(frames)
      /\ Tail(frames) \in Seq(Frames)
      /\ \A i \in 1 .. Len(Tail(frames)) : Tail(frames)[i].kind = "end" => Over
  BY First DEF TakeHead, ReplyInv, HolderInv, Frames, HeadFrames, BodyFrames, EndFrames
<1>2. framed' \in Limit /\ awaited' \in Limit /\ conn' \in {"hand_over", "respond", "staging"}
  BY <1>1 DEF TakeHead, HyperLength, FramedLength, HeadFrames, Limit
<1>3. UNCHANGED <<stage, php, reply, staged, sent, pump, encoded, end_flush, flushed, flushes, closed>>
  BY DEF TakeHead, producer, unit, thread, wire, socket
<1>4. ReplyTyped' /\ EndInv'
  BY <1>1, <1>2, <1>3 DEF ReplyInv, ReplyTyped, EndInv, Over
<1>5. HolderInv' /\ GivenInv' /\ MarkInv' /\ LostInv'
  BY <1>1, <1>2, <1>3
  DEF ReplyInv, ReplyTyped, Encoded, HolderInv, GivenInv, MarkInv, LostInv, Watched, OnSocket
<1> QED
  BY <1>4, <1>5 DEF ReplyInv

LEMMA BadGatewayKeeps ==
  ASSUME UnitInv, ReplyInv, BadGateway
  PROVE  ReplyInv'
<1>1. /\ conn = "head" /\ conn' = "body" /\ reply' = "none" /\ encoded.head = "none"
      /\ encoded' = [encoded EXCEPT !.head = "bad_gateway"] /\ framed' = 0 /\ awaited' = 0 /\ end_flush' = flushes
      /\ UNCHANGED <<stage, php, frames, staged, sent, pump, flushed, flushes, closed>>
  BY DEF BadGateway, Answer, DropReply, producer, unit, thread, socket, ReplyInv, GivenInv
<1>2. encoded'.head = "bad_gateway" /\ encoded'.bytes = encoded.bytes /\ encoded' \in Encoded
  BY <1>1 DEF ReplyInv, ReplyTyped, Encoded
<1>3. ReplyTyped' /\ EndInv'
  BY <1>1, <1>2 DEF ReplyInv, ReplyTyped, Limit, EndInv, Over
<1>4. HolderInv' /\ GivenInv' /\ MarkInv' /\ LostInv'
  BY <1>1, <1>2
  DEF ReplyInv, ReplyTyped, Encoded, HolderInv, GivenInv, MarkInv, LostInv, Watched, OnSocket
<1> QED
  BY <1>3, <1>4 DEF ReplyInv

LEMMA HandOverKeeps ==
  ASSUME UnitInv, ReplyInv, HandOver
  PROVE  ReplyInv'
<1>1. /\ conn = "hand_over" /\ conn' = "respond"
      /\ reply' \in {"none", "drain"} /\ (reply' = "none" => Over)
      /\ frames' \in Seq(Frames)
      /\ \A i \in 1 .. Len(frames') : frames'[i].kind = "end" => Over
      /\ UNCHANGED <<stage, php, framed, awaited, staged, sent, pump, encoded, end_flush, flushed, flushes, closed>>
  BY DrainStart DEF HandOver, producer, unit, thread, body, wire, socket
<1>2. ReplyTyped' /\ EndInv'
  BY <1>1 DEF ReplyInv, ReplyTyped, EndInv, Over
<1>3. HolderInv' /\ GivenInv' /\ MarkInv' /\ LostInv'
  BY <1>1 DEF ReplyInv, HolderInv, GivenInv, MarkInv, LostInv, Watched, OnSocket, Over
<1> QED
  BY <1>2, <1>3 DEF ReplyInv

LEMMA StageFrameKeeps ==
  ASSUME UnitInv, ReplyInv, StageFrame
  PROVE  ReplyInv'
<1>1. /\ conn = "staging" /\ conn' = "respond"
      /\ \/ frames # <<>> /\ staged' = Head(frames) /\ frames' = Tail(frames)
         \/ staged' = staged /\ frames' = frames
      /\ UNCHANGED <<stage, php, reply, framed, awaited, sent, pump, encoded, end_flush, flushed, flushes, closed>>
  BY DEF StageFrame, producer, unit, thread, wire, socket
<1>2. ReplyTyped' /\ EndInv'
  BY <1>1, First DEF ReplyInv, ReplyTyped, EndInv, Over
<1>3. HolderInv' /\ GivenInv' /\ MarkInv' /\ LostInv'
  BY <1>1 DEF ReplyInv, HolderInv, GivenInv, MarkInv, LostInv, Watched, OnSocket, Over
<1> QED
  BY <1>2, <1>3 DEF ReplyInv

LEMMA RespondKeeps ==
  ASSUME UnitInv, ReplyInv, Respond
  PROVE  ReplyInv'
<1>1. /\ conn = "respond" /\ conn' = "body" /\ encoded.head = "none"
      /\ reply' = (IF reply = "serve" THEN "body" ELSE reply)
      /\ encoded' = [encoded EXCEPT !.head = "php"] /\ framed' = framed /\ awaited' = awaited
      /\ end_flush' = (IF awaited = 0 THEN flushes ELSE end_flush)
      /\ UNCHANGED <<stage, php, frames, staged, sent, pump, flushed, flushes, closed>>
  BY DEF Respond, Answer, producer, unit, thread, body, socket, ReplyInv, GivenInv
<1>2. encoded'.head = "php" /\ encoded'.bytes = encoded.bytes /\ encoded' \in Encoded /\ encoded.bytes = 0
  BY <1>1 DEF ReplyInv, ReplyTyped, Encoded, GivenInv
<1>3. ReplyTyped' /\ EndInv'
  BY <1>1, <1>2 DEF ReplyInv, ReplyTyped, Limit, EndInv, Over
<1>4. HolderInv' /\ GivenInv' /\ LostInv'
  BY <1>1, <1>2 DEF ReplyInv, HolderInv, GivenInv, LostInv, Over
<1>5. MarkInv'
  BY <1>1, <1>2 DEF ReplyInv, ReplyTyped, Limit, Unknown, GivenInv, MarkInv, Watched, OnSocket
<1> QED
  BY <1>3, <1>4, <1>5 DEF ReplyInv

\* Where a poll may leave the frames.
Kept ==
  /\ frames' \in Seq(Frames)
  /\ \A i \in 1 .. Len(frames') : frames'[i].kind = "end" => Over
  /\ staged' \in Frames \cup {NoFrame}
  /\ staged' # NoFrame /\ staged'.kind = "end" => Over
  /\ UNCHANGED <<stage, php, flushed, flushes, closed>>

LEMMA YieldKeeps ==
  ASSUME ReplyInv, Polled, Kept, NEW n \in Nat, Yield(n), pump' \in Nat
  PROVE  ReplyInv'
<1>1. /\ conn = "body" /\ reply = "body" /\ UNCHANGED <<reply, conn, framed, awaited>>
      /\ framed = Unknown \/ encoded.bytes < framed
      /\ sent' = sent + n /\ encoded' = [encoded EXCEPT !.bytes = @ + n]
      /\ end_flush' = IF Watermark(encoded.bytes + n) /\ end_flush = Unknown THEN flushes ELSE end_flush
  BY DEF Polled, Yield
<1>2. /\ encoded'.head = encoded.head /\ encoded'.bytes = encoded.bytes + n /\ encoded' \in Encoded
      /\ sent' \in Nat /\ end_flush' \in Limit /\ encoded.bytes \in Nat /\ framed \in Limit /\ awaited \in Limit
      /\ flushes \in Nat /\ end_flush \in Limit
  BY <1>1 DEF ReplyInv, ReplyTyped, Encoded, Limit
<1>3. ReplyTyped' /\ EndInv'
  BY <1>1, <1>2 DEF Kept, ReplyInv, ReplyTyped, EndInv, Over
<1>4. HolderInv' /\ GivenInv' /\ LostInv'
  BY <1>1, <1>2 DEF Kept, ReplyInv, HolderInv, GivenInv, LostInv
<1>5. MarkInv'
  <2>1. end_flush' <= flushes'
    BY <1>1, <1>2 DEF Kept, ReplyInv, MarkInv
  <2>2. encoded'.head = "php" /\ awaited' = framed' /\ framed' # Unknown /\ encoded'.bytes >= framed' =>
          end_flush' # Unknown
    BY <1>1, <1>2 DEF Watermark, Unknown, Limit
  <2>3. ~Watched'
    <3>1. ~Watched
      BY <1>1, <1>2 DEF ReplyInv, MarkInv, Watched, OnSocket, Limit
    <3> QED
      BY <1>1, <3>1 DEF Kept, Watched, OnSocket
  <2> QED
    BY <2>1, <2>2, <2>3 DEF MarkInv
<1> QED
  BY <1>3, <1>4, <1>5 DEF ReplyInv

\* The body ends, in an error or with its last chunk, before hyper has its length.
LEMMA EndsKeeps ==
  ASSUME ReplyInv, Polled, Kept, reply' = "none", conn' \in {"failed", "done"},
         encoded' \in Encoded, encoded'.head = encoded.head, encoded'.bytes = encoded.bytes,
         UNCHANGED <<framed, awaited, sent, end_flush>>, pump' \in Nat
  PROVE  ReplyInv'
<1>1. conn = "body" /\ (framed = Unknown \/ encoded.bytes < framed)
  BY DEF Polled
<1>2. ReplyTyped' /\ EndInv'
  BY <1>1 DEF Kept, ReplyInv, ReplyTyped, EndInv, Over
<1>3. HolderInv' /\ GivenInv' /\ MarkInv'
  BY <1>1 DEF Kept, ReplyInv, HolderInv, GivenInv, MarkInv, Watched, OnSocket
<1>4. LostInv'
  BY <1>1 DEF LostInv, ReplyInv, ReplyTyped, Encoded, Limit
<1> QED
  BY <1>2, <1>3, <1>4 DEF ReplyInv

LEMMA ErrorKeeps ==
  ASSUME ReplyInv, Polled, Kept, TerminalError, pump' \in Nat
  PROVE  ReplyInv'
<1>1. encoded \in Encoded /\ encoded' = encoded /\ UNCHANGED <<framed, awaited, sent, end_flush>>
      /\ reply' = "none" /\ conn' = "failed"
  BY DEF TerminalError, wire, ReplyInv, ReplyTyped
<1> QED
  BY <1>1, EndsKeeps

\* One frame of the body.
LEMMA ConsumeKeeps ==
  ASSUME ReplyInv, Polled, Kept, NEW f \in Frames, Consume(f)
  PROVE  ReplyInv'
<1>1. pump \in Nat /\ encoded \in Encoded
  BY DEF ReplyInv, ReplyTyped
<1>2. CASE f.kind = "chunk" /\ Yield(f.len) /\ UNCHANGED pump
  <2>1. f.len \in Nat
    BY <1>2 DEF Frames, HeadFrames, BodyFrames, EndFrames
  <2> QED
    BY <1>1, <1>2, <2>1, YieldKeeps
<1>3. CASE f.kind = "file" /\ pump' = f.len /\ UNCHANGED <<reply, conn, framed, awaited, sent, wire>>
  <2>1. f.len \in Nat
    BY <1>3 DEF Frames, HeadFrames, BodyFrames, EndFrames
  <2>2. ReplyTyped' /\ EndInv'
    BY <1>3, <2>1 DEF Kept, wire, ReplyInv, ReplyTyped, EndInv, Over
  <2>3. HolderInv' /\ GivenInv' /\ MarkInv' /\ LostInv'
    BY <1>3 DEF Kept, wire, ReplyInv, HolderInv, GivenInv, MarkInv, LostInv, Watched, OnSocket, Over
  <2> QED
    BY <2>2, <2>3 DEF ReplyInv
<1>4. CASE TerminalError /\ UNCHANGED pump
  BY <1>1, <1>4, ErrorKeeps
<1>5. CASE /\ encoded' = [encoded EXCEPT !.last = TRUE]
           /\ reply' = "none" /\ conn' = "done"
           /\ UNCHANGED <<framed, awaited, sent, pump, end_flush>>
  <2>1. encoded' \in Encoded /\ encoded'.head = encoded.head /\ encoded'.bytes = encoded.bytes
    BY <1>1, <1>5 DEF Encoded
  <2> QED
    BY <1>1, <1>5, <2>1, EndsKeeps
<1> QED
  BY <1>2, <1>3, <1>4, <1>5 DEF Consume

LEMMA PollKeeps ==
  ASSUME UnitInv, ReplyInv, PollStaged \/ PollFrame \/ PollOver \/ PumpSlice
  PROVE  ReplyInv'
<1>1. Polled /\ UNCHANGED <<stage, php, flushed, flushes, closed>>
  BY DEF PollStaged, PollFrame, PollOver, PumpSlice, producer, unit, thread, socket
<1>2. /\ frames \in Seq(Frames) /\ \A i \in 1 .. Len(frames) : frames[i].kind = "end" => Over
      /\ staged \in Frames \cup {NoFrame} /\ (staged # NoFrame /\ staged.kind = "end" => Over)
      /\ pump \in Nat
  BY DEF ReplyInv, ReplyTyped, EndInv
<1>3. CASE PollStaged
  <2>1. Kept /\ staged \in Frames /\ Consume(staged)
    BY <1>1, <1>2, <1>3 DEF PollStaged, Kept
  <2> QED
    BY <1>1, <2>1, ConsumeKeeps
<1>4. CASE PollFrame
  <2>1. Kept /\ Head(frames) \in Frames /\ Consume(Head(frames))
    BY <1>1, <1>2, <1>4, First DEF PollFrame, Kept
  <2> QED
    BY <1>1, <2>1, ConsumeKeeps
<1>5. CASE PollOver
  <2>1. Kept /\ TerminalError /\ pump' = pump
    BY <1>1, <1>2, <1>5 DEF PollOver, Kept
  <2> QED
    BY <1>1, <1>2, <2>1, ErrorKeeps
<1>6. CASE PumpSlice
  <2>1. Kept
    BY <1>1, <1>2, <1>6 DEF PumpSlice, Kept
  <2>2. CASE pump' = 0 /\ TerminalError
    BY <1>1, <2>1, <2>2, ErrorKeeps
  <2>3. CASE \E n \in 1 .. pump : pump' = pump - n /\ Yield(n)
    <3>1. PICK n \in 1 .. pump : pump' = pump - n /\ Yield(n)
      BY <2>3
    <3>2. n \in Nat /\ pump' \in Nat
      BY <1>2, <3>1
    <3> QED
      BY <1>1, <2>1, <3>1, <3>2, YieldKeeps
  <2> QED
    BY <1>6, <2>2, <2>3 DEF PumpSlice
<1> QED
  BY <1>3, <1>4, <1>5, <1>6

-----------------------------------------------------------------------------
\* Who drops a whole response gives it to a drain: hyper's copy is complete.
LEMMA BodyDrops ==
  ASSUME UnitInv, ReplyInv, DropBody
  PROVE  /\ reply' \in {"none", "drain", "late"}
         /\ frames' \in Seq(Frames)
         /\ \A i \in 1 .. Len(frames') : frames'[i].kind = "end" => Over
         /\ reply' = "none" => \/ Over
                               \/ reply = "none"
                               \/ reply = "serve"
                               \/ reply = "body" /\ ~KeepsReply
<1>1. frames \in Seq(Frames) /\ (\A i \in 1 .. Len(frames) : frames[i].kind = "end" => Over)
      /\ reply \in {"serve", "body", "drain", "late", "none"}
  BY DEF ReplyInv, ReplyTyped, EndInv
<1>2. CASE reply = "body" /\ KeepsReply
  BY <1>2, DrainStart DEF DropBody
<1>3. CASE ~(reply = "body" /\ KeepsReply)
  BY <1>1, <1>3 DEF DropBody, DropReply
<1> QED
  BY <1>2, <1>3

\* A receiver that drops with its body leaves a response that is not whole.
LEMMA NotWhole ==
  ASSUME ReplyInv, reply = "serve" \/ (reply = "body" /\ ~KeepsReply)
  PROVE  ~Watched
<1>1. CASE reply = "serve"
  BY <1>1 DEF ReplyInv, HolderInv, GivenInv, Watched, OnSocket
<1>2. CASE reply = "body" /\ ~KeepsReply
  <2>1. framed # sent \/ end_flush = Unknown
    BY <1>2 DEF KeepsReply
  <2> QED
    BY <2>1 DEF ReplyInv, GivenInv, MarkInv, Watched, OnSocket
<1> QED
  BY <1>1, <1>2

LEMMA BodyDoneKeeps ==
  ASSUME UnitInv, ReplyInv, BodyDone
  PROVE  ReplyInv'
<1>1. /\ conn = "body" /\ conn' = "done" /\ framed # Unknown /\ encoded.bytes >= framed
      /\ UNCHANGED <<stage, php, framed, awaited, staged, sent, pump, encoded, end_flush, flushed, flushes, closed>>
  BY DEF BodyDone, producer, unit, thread, body, wire, socket
<1>2. /\ reply' \in {"none", "drain", "late"} /\ reply # "serve"
      /\ frames' \in Seq(Frames)
      /\ \A i \in 1 .. Len(frames') : frames'[i].kind = "end" => Over
      /\ reply' = "none" => Over \/ reply = "none" \/ (reply = "body" /\ ~KeepsReply)
  BY <1>1, BodyDrops DEF BodyDone, ReplyInv, HolderInv
<1>3. ReplyTyped' /\ EndInv'
  BY <1>1, <1>2 DEF ReplyInv, ReplyTyped, EndInv, Over
<1>4. HolderInv' /\ GivenInv' /\ MarkInv'
  BY <1>1, <1>2 DEF ReplyInv, HolderInv, GivenInv, MarkInv, Watched, OnSocket
<1>5. reply = "body" /\ ~KeepsReply => encoded.head # "php" \/ encoded.bytes # framed \/ awaited # framed
  BY <1>1 DEF KeepsReply, ReplyInv, GivenInv, MarkInv
<1>6. LostInv'
  BY <1>1, <1>2, <1>5 DEF ReplyInv, LostInv, Watched, OnSocket, Over
<1> QED
  BY <1>3, <1>4, <1>6 DEF ReplyInv

LEMMA EndConnectionKeeps ==
  ASSUME UnitInv, ReplyInv, EndConnection
  PROVE  ReplyInv'
<1>1. /\ conn \notin {"hand_over", "respond", "dropped", "closed"} /\ conn' = "dropped"
      /\ UNCHANGED <<stage, php, framed, awaited, staged, sent, pump, encoded, end_flush, flushed, flushes, closed>>
  BY DEF EndConnection, Alive, producer, unit, thread, body, wire, socket
<1>2. /\ reply' \in {"none", "drain", "late"}
      /\ frames' \in Seq(Frames)
      /\ \A i \in 1 .. Len(frames') : frames'[i].kind = "end" => Over
      /\ reply' = "none" => Over \/ reply = "none" \/ reply = "serve" \/ (reply = "body" /\ ~KeepsReply)
  BY BodyDrops DEF EndConnection
<1>3. ReplyTyped' /\ EndInv'
  BY <1>1, <1>2 DEF ReplyInv, ReplyTyped, EndInv, Over
<1>4. HolderInv' /\ GivenInv' /\ MarkInv'
  BY <1>1, <1>2 DEF ReplyInv, HolderInv, GivenInv, MarkInv, Watched, OnSocket
<1>5. reply = "none" /\ ~Over => ~Watched
  BY DEF ReplyInv, LostInv, MarkInv, GivenInv, Watched, OnSocket
<1>6. LostInv'
  BY <1>1, <1>2, <1>5, NotWhole DEF LostInv, Watched, OnSocket, Over
<1> QED
  BY <1>3, <1>4, <1>6 DEF ReplyInv

LEMMA FlushSocketKeeps ==
  ASSUME UnitInv, ReplyInv, FlushSocket
  PROVE  ReplyInv'
<1>1. /\ conn \notin {"dropped", "closed"} /\ flushed' = encoded /\ flushes' = flushes + 1
      /\ UNCHANGED <<stage, php, reply, conn, framed, awaited, frames, staged, sent, pump, encoded, end_flush, closed>>
  BY DEF FlushSocket, Alive, producer, unit, thread, body, wire
<1>2. ReplyTyped' /\ EndInv'
  BY <1>1 DEF ReplyInv, ReplyTyped, EndInv, Over
<1>3. HolderInv' /\ GivenInv'
  BY <1>1 DEF ReplyInv, HolderInv, GivenInv
<1>4. Watched' => /\ encoded.head = "php" /\ framed # Unknown /\ encoded.bytes = framed
                 /\ awaited = framed
  BY <1>1 DEF Watched, OnSocket
<1>5. flushes \in Nat /\ end_flush \in Limit /\ framed \in Limit /\ awaited \in Limit /\ encoded.bytes \in Nat
  BY DEF ReplyInv, ReplyTyped, Encoded
<1>6. MarkInv'
  BY <1>1, <1>4, <1>5 DEF ReplyInv, MarkInv, Limit, Unknown
<1>7. LostInv'
  BY <1>1 DEF ReplyInv, LostInv, Over
<1> QED
  BY <1>2, <1>3, <1>6, <1>7 DEF ReplyInv

LEMMA DrainKeeps ==
  ASSUME UnitInv, ReplyInv, Drain
  PROVE  ReplyInv'
<1>1. /\ reply \in {"drain", "late"} /\ reply' \in {reply, "late", "none"}
      /\ UNCHANGED <<stage, php, conn, framed, awaited, staged, sent, pump, encoded, end_flush, flushed, flushes, closed>>
  BY DEF Drain, DrainFrame, DrainOver, DrainClosed, DropReply, Draining, producer, unit, thread,
         body,
         wire, socket
<1>2. frames' = frames \/ (frames # <<>> /\ frames' = Tail(frames))
  BY DEF Drain, DrainFrame, DrainOver, DrainClosed, DropReply
<1>3. ReplyTyped' /\ EndInv'
  BY <1>1, <1>2, First DEF ReplyInv, ReplyTyped, EndInv, Over
<1>4. HolderInv' /\ GivenInv' /\ MarkInv'
  BY <1>1 DEF ReplyInv, HolderInv, GivenInv, MarkInv, Watched, OnSocket
<1>5. reply' = "none" => Over \/ (conn = "closed" /\ ~Watched)
  <2>1. CASE DrainFrame
    BY <1>1, <2>1, First DEF DrainFrame
  <2>2. CASE DrainOver
    BY <2>2, DroppedIsOver DEF DrainOver, StreamOver
  <2>3. CASE DrainClosed
    BY <2>3 DEF DrainClosed, Delivered, ReplyInv, HolderInv, MarkInv
  <2> QED
    BY <2>1, <2>2, <2>3 DEF Drain
<1>6. LostInv'
  BY <1>1, <1>5 DEF LostInv, Watched, OnSocket, Over
<1> QED
  BY <1>3, <1>4, <1>6 DEF ReplyInv

LEMMA MarkClosedKeeps ==
  ASSUME ReplyInv, MarkClosed \/ StopReading \/ Finished \/ UNCHANGED vars
  PROVE  ReplyInv'
<1>1. /\ UNCHANGED <<stage, php, reply, frames, framed, awaited, staged, sent, pump, encoded, end_flush, flushed,
                     flushes>>
      /\ \/ conn' = conn /\ closed' = closed
         \/ conn = "dropped" /\ conn' = "closed" /\ closed' = TRUE
  BY DEF MarkClosed, StopReading, Finished, vars, producer, unit, thread, body, wire, socket
<1>2. ReplyTyped' /\ EndInv'
  BY <1>1 DEF ReplyInv, ReplyTyped, EndInv, Over
<1>3. HolderInv' /\ GivenInv' /\ MarkInv' /\ LostInv'
  BY <1>1 DEF ReplyInv, HolderInv, GivenInv, MarkInv, LostInv, Watched, OnSocket, Over
<1> QED
  BY <1>2, <1>3 DEF ReplyInv

-----------------------------------------------------------------------------
(* All steps.                                                              *)

\* The calls of the script.
LEMMA CallCases ==
  ASSUME UnitInv, Call
  PROVE  SeeGone \/ WriteHead \/ Release \/ SomeEmission
<1>1. MaxBody \in Nat /\ 0 .. MaxBody \subseteq Nat /\ 1 .. MaxBody \subseteq Nat
  BY ExchangeConstants
<1>2. CASE \E len \in 0 .. MaxBody, eos \in BOOLEAN : WriteBody(len, eos)
  BY <1>1, <1>2, SendBodyEmits DEF WriteBody
<1>3. CASE \E size, offset \in 0 .. MaxBody, length \in {Unknown} \cup 1 .. MaxBody, eos \in BOOLEAN :
             SendFile(size, offset, length, eos)
  <2>1. PICK size \in 0 .. MaxBody, offset \in 0 .. MaxBody, length \in {Unknown} \cup 1 .. MaxBody,
             eos \in BOOLEAN : SendFile(size, offset, length, eos)
    BY <1>3
  <2>2. SliceLength(size, offset, length) \in Nat
    BY <1>1, <2>1 DEF SendFile, SliceFits, SliceLength, Unknown
  <2> QED
    BY <2>1, <2>2, SendBodyEmits DEF SendFile
<1>4. CASE \E len \in 1 .. MaxBody : WritePastDeclared(len)
  BY <1>1, <1>4, WritePastDeclaredEmits
<1> QED
  BY <1>2, <1>3, <1>4, BodilessEmits DEF Call

LEMMA UnitSteps ==
  ASSUME UnitInv, Call \/ Sends
  PROVE  UnitInv'
<1>1. CASE Call
  BY <1>1, CallCases, SeeGoneKeeps, WriteHeadKeeps, ReleaseKeeps, EmitsKeeps DEF SomeEmission
<1>2. CASE Sends
  BY <1>2, SendFrameKeeps, SealKeeps, SendEndKeeps, DropSenderKeeps, LastFrameKeeps, LeaveKeeps
  DEF Sends
<1> QED
  BY <1>1, <1>2

\* The PHP thread touches the channel only at its end, and its End comes last.
Produces ==
  /\ UNCHANGED <<reply, conn, body, wire, socket>>
  /\ \/ frames' = frames
     \/ \E f \in Frames : frames' = Append(frames, f) /\ (f.kind = "end" => Over')
  /\ Over => Over'

LEMMA ProducesKeeps ==
  ASSUME ReplyInv, Produces
  PROVE  ReplyInv'
<1>1. frames \in Seq(Frames) /\ \A i \in 1 .. Len(frames) : frames[i].kind = "end" => Over
  BY DEF ReplyInv, ReplyTyped, EndInv
<1>2. frames' \in Seq(Frames) /\ \A i \in 1 .. Len(frames') : frames'[i].kind = "end" => Over'
  <2>1. CASE frames' = frames
    BY <1>1, <2>1 DEF Produces
  <2>2. CASE \E f \in Frames : frames' = Append(frames, f) /\ (f.kind = "end" => Over')
    <3>1. PICK f \in Frames : frames' = Append(frames, f) /\ (f.kind = "end" => Over')
      BY <2>2
    <3>2. /\ frames' \in Seq(Frames) /\ Len(frames') = Len(frames) + 1
          /\ \A i \in 1 .. Len(frames) : frames'[i] = frames[i]
          /\ frames'[Len(frames) + 1] = f
      BY <1>1, <3>1, AppendProperties
    <3>3. \A i \in 1 .. Len(frames') : i \in 1 .. Len(frames) \/ i = Len(frames) + 1
      BY <1>1, <3>2
    <3> QED
      BY <1>1, <3>1, <3>2, <3>3 DEF Produces
  <2> QED
    BY <2>1, <2>2 DEF Produces
<1>3. ReplyTyped' /\ EndInv'
  BY <1>2 DEF Produces, body, wire, socket, ReplyInv, ReplyTyped, EndInv
<1>4. HolderInv' /\ GivenInv' /\ MarkInv' /\ LostInv'
  BY DEF Produces, body, wire, socket, ReplyInv, HolderInv, GivenInv, MarkInv, LostInv, Watched, OnSocket
<1> QED
  BY <1>3, <1>4 DEF ReplyInv

\* A call of the script, before its frames.
LEMMA CallIsQuiet ==
  ASSUME UnitInv, Call
  PROVE  /\ UNCHANGED <<frames, reply, conn, body, wire, socket>>
         /\ php = "script" /\ (stage = "finalized" => Over')
         /\ UNCHANGED said \/ CloseStream
<1>1. CASE SeeGone
  BY <1>1 DEF SeeGone, DiscardUnit
<1>2. CASE WriteHead
  BY <1>2 DEF WriteHead, Takes
<1>3. CASE SomeEmission
  BY <1>3, Emitted DEF SomeEmission, Emission
<1>4. CASE Release
  BY <1>4 DEF Release, Over
<1> QED
  BY <1>1, <1>2, <1>3, <1>4, CallCases

LEMMA CallProduces ==
  ASSUME UnitInv, Call
  PROVE  Produces
BY CallIsQuiet DEF Produces, Over

LEMMA SendsProduces ==
  ASSUME UnitInv, Sends
  PROVE  Produces
<1>1. CASE SendFrame
  <2>1. /\ php = "call" /\ Head(todo) \in Frames /\ Head(todo).kind # "end" /\ stage = "committed"
    BY <1>1, Next1 DEF SendFrame, UnitInv, PlaceInv
  <2> QED
    BY <1>1, <2>1 DEF SendFrame, Put, Produces, Over
<1>2. CASE Seal
  BY <1>2 DEF Seal, Sealed, Produces, Over
<1>3. CASE SendEnd
  <2>1. php = "sealed" /\ Head(todo) \in Frames /\ stage = "finalized" /\ stage' = "finalized"
    BY <1>3, Next1 DEF SendEnd, UnitInv, PlaceInv, unit
  <2> QED
    BY <1>3, <2>1 DEF SendEnd, Put, Produces, Over
<1>4. CASE LastFrame
  <2>1. php' = "leaving" /\ Head(todo) \in Frames
    BY <1>4, Next1 DEF LastFrame, UnitInv, PlaceInv
  <2> QED
    BY <1>4, <2>1 DEF LastFrame, Put, Produces, Over
<1>5. CASE DropSender \/ Leave
  BY <1>5 DEF DropSender, Leave, unit, Produces, Over
<1> QED
  BY <1>1, <1>2, <1>3, <1>4, <1>5 DEF Sends

\* A step that is not the PHP thread's leaves the unit alone.
LEMMA OthersLeaveUnit ==
  ASSUME UnitInv, UNCHANGED producer
  PROVE  UnitInv'
BY DEF producer, unit, thread, UnitInv, UnitTyped, PlaceInv, CountInv, ScriptInv, OrderInv,
       RoomInv,
       Over, IsHead, IsBody, IsEnd, Rest

\* The steps of the connection, the drain and the client.
Answers == Serve \/ Poll \/ Drain \/ FlushSocket \/ EndConnection \/ WriteTimeout \/ MarkClosed
           \/ StopReading

LEMMA AnswersKeep ==
  ASSUME UnitInv, ReplyInv, Answers
  PROVE  ReplyInv' /\ UNCHANGED producer
<1>1. UNCHANGED producer
  BY DEF Answers, Serve, TakeHead, BadGateway, HandOver, StageFrame, Respond, Poll, PollStaged,
         PollFrame,
         PollOver, PumpSlice, BodyDone, Drain, DrainFrame, DrainOver, DrainClosed, FlushSocket,
         WriteTimeout, EndConnection, MarkClosed, StopReading
<1>2. ReplyInv'
  BY TakeHeadKeeps, BadGatewayKeeps, HandOverKeeps, StageFrameKeeps, RespondKeeps, PollKeeps,
     BodyDoneKeeps, DrainKeeps, FlushSocketKeeps, EndConnectionKeeps, MarkClosedKeeps
  DEF Answers, Serve, Poll, WriteTimeout
<1> QED
  BY <1>1, <1>2

IInv == UnitInv /\ ReplyInv

LEMMA InitKeeps == Init => IInv
<1> SUFFICES ASSUME Init PROVE IInv
  OBVIOUS
<1>1. UnitInv
  <2>1. UnitTyped
    <3>1. Unknown \in Limit /\ 0 \in Nat /\ <<>> \in Seq(Frames)
      BY DEF Limit
    <3>2. said \in [phase : {"start", "body", "ended", "cut"}, limit : Limit, bytes : Nat]
      BY <3>1 DEF Init
    <3> QED
      BY <3>1, <3>2 DEF Init, UnitTyped
  <2>2. PlaceInv /\ CountInv /\ ScriptInv /\ OrderInv /\ RoomInv
    BY DEF Init, PlaceInv, CountInv, ScriptInv, OrderInv, RoomInv, Over
  <2> QED
    BY <2>1, <2>2 DEF UnitInv
<1>2. ReplyTyped /\ EndInv
  BY DEF Init, ReplyTyped, Encoded, EndInv, Limit
<1>3. HolderInv /\ GivenInv /\ MarkInv /\ LostInv
  BY DEF Init, HolderInv, GivenInv, MarkInv, LostInv, Watched, OnSocket, Unknown
<1> QED
  BY <1>1, <1>2, <1>3 DEF IInv, ReplyInv

LEMMA NextKeeps == IInv /\ [Next]_vars => IInv'
<1> SUFFICES ASSUME UnitInv, ReplyInv, [Next]_vars PROVE UnitInv' /\ ReplyInv'
  BY DEF IInv
<1>1. CASE Call \/ Sends
  BY <1>1, UnitSteps, CallProduces, SendsProduces, ProducesKeeps
<1>2. CASE Answers
  BY <1>2, AnswersKeep, OthersLeaveUnit
<1>3. CASE Finished \/ UNCHANGED vars
  BY <1>3, MarkClosedKeeps, OthersLeaveUnit DEF Finished, vars, producer
<1> QED
  BY <1>1, <1>2, <1>3 DEF Next, Answers

\* The inductive invariant holds of every behaviour: of the unit under the calls
\* of the script, and of its reply on the way to the socket (php/respond.rs,
\* bridge.rs, handler.rs).
THEOREM ExchangeInvariance == Spec => []IInv
<1> QED
  BY InitKeeps, NextKeeps, PTL DEF Spec

\* A unit counts as handled once, by its seal, its discard or its release, in
\* whatever order the script and the client act (php/mod.rs, release() of
\* crates/sapi/src/work.rs).
THEOREM UnitCountsOnce == Spec => []HandledOnce
<1>1. IInv => HandledOnce
  BY DEF IInv, UnitInv, CountInv, Over, HandledOnce
<1> QED
  BY <1>1, ExchangeInvariance, PTL

-----------------------------------------------------------------------------
(* What the heads tell of a replaced 101.                                  *)

\* A head that says 101 comes from a unit that does, with its length.
HeadTells(f) == f.kind = "head" /\ f.switching => switching /\ f.bodiless /\ f.length = declared

\* The watermark waits for the length that hyper frames, save for a replaced 101.
SwitchInv ==
  /\ switching => bodiless /\ stage # "open"
  /\ \A i \in Rest : HeadTells(todo[i])
  /\ \A i \in 1 .. Len(frames) : HeadTells(frames[i])
  /\ awaited # framed => Replaced

LEMMA WriteHeadTells ==
  ASSUME UnitInv, SwitchInv, WriteHead
  PROVE  SwitchInv'
<1>1. /\ stage = "open" /\ stage' = "committed" /\ (switching' => bodiless')
      /\ UNCHANGED <<todo, frames, awaited, framed>>
  BY DEF WriteHead, thread, body
<1>2. switching = FALSE
  BY <1>1 DEF SwitchInv, UnitInv, UnitTyped
<1>3. ASSUME NEW f, HeadTells(f) PROVE ~(f.kind = "head" /\ f.switching)
  BY <1>2, <1>3 DEF HeadTells
<1>4. /\ \A i \in Rest : ~(todo[i].kind = "head" /\ todo[i].switching)
      /\ \A i \in 1 .. Len(frames) : ~(frames[i].kind = "head" /\ frames[i].switching)
      /\ awaited = framed
  BY <1>2, <1>3 DEF SwitchInv, Replaced
<1> QED
  BY <1>1, <1>4 DEF SwitchInv, HeadTells, Rest

LEMMA EmissionTells ==
  ASSUME UnitInv, SwitchInv, SomeEmission
  PROVE  SwitchInv'
<1>1. PICK h \in Limit, k \in {"chunk", "file"}, b \in Nat, e \in BOOLEAN : Emission(h, k, b, e)
  BY DEF SomeEmission
<1>2. /\ Plan(h, b, e, todo') /\ stage' = "committed"
      /\ UNCHANGED <<declared, bodiless, switching, frames, awaited, framed>>
  BY <1>1, Emitted DEF body
<1>3. ASSUME NEW i \in 1 .. Len(todo'), todo'[i].kind = "head", todo'[i].switching
      PROVE  switching /\ todo'[i].bodiless /\ todo'[i].length = declared
  BY <1>2, <1>3 DEF Plan, SwitchInv
<1>4. (\A i \in Rest : HeadTells(todo[i]))'
  BY <1>2, <1>3 DEF HeadTells, Rest
<1>5. (\A i \in 1 .. Len(frames) : HeadTells(frames[i]))'
  BY <1>2 DEF SwitchInv, HeadTells
<1>6. (switching' => bodiless' /\ stage' # "open") /\ (awaited' # framed' => Replaced')
  BY <1>2 DEF SwitchInv, Replaced
<1> QED
  BY <1>4, <1>5, <1>6 DEF SwitchInv

\* What exchange_drop sends says 500, not 101.
LEMMA LastWordsTell ==
  ASSUME UnitInv
  PROVE  \A i \in 1 .. Len(LastWords) : LastWords[i].kind = "head" => ~LastWords[i].switching
<1> DEFINE head == HeadFrame(IF bodiless THEN Unknown ELSE 0, bodiless, FALSE)
<1>1. /\ head \in Frames /\ head.kind = "head" /\ ~head.switching
      /\ EndFrame(TRUE) \in Frames /\ EndFrame(TRUE).kind = "end"
      /\ EndFrame(FALSE) \in Frames /\ EndFrame(FALSE).kind = "end"
  BY DEF HeadFrame, EndFrame, Frames, HeadFrames, EndFrames, Limit, UnitInv, UnitTyped
<1>2. LastWords = IF head_sent THEN <<EndFrame(TRUE)>> ELSE <<head, EndFrame(FALSE)>>
  BY DEF LastWords
<1> HIDE DEF head
<1>3. \A x, y \in Frames : /\ Len(<<x>>) = 1 /\ <<x>>[1] = x
                           /\ Len(<<x, y>>) = 2 /\ <<x, y>>[1] = x /\ <<x, y>>[2] = y
  OBVIOUS
<1>4. CASE head_sent
  <2>1. LastWords = <<EndFrame(TRUE)>>
    BY <1>2, <1>4
  <2>2. Len(LastWords) = 1 /\ LastWords[1] = EndFrame(TRUE)
    BY <1>1, <1>3, <2>1
  <2>3. \A i \in 1 .. Len(LastWords) : i = 1
    BY <2>2
  <2> QED
    BY <1>1, <2>2, <2>3
<1>5. CASE ~head_sent
  <2>1. LastWords = <<head, EndFrame(FALSE)>>
    BY <1>2, <1>5
  <2>2. Len(LastWords) = 2 /\ LastWords[1] = head /\ LastWords[2] = EndFrame(FALSE)
    BY <1>1, <1>3, <2>1
  <2>3. \A i \in 1 .. Len(LastWords) : i = 1 \/ i = 2
    BY <2>2
  <2> QED
    BY <1>1, <2>2, <2>3
<1> QED
  BY <1>4, <1>5

LEMMA ReleaseTells ==
  ASSUME UnitInv, SwitchInv, Release
  PROVE  SwitchInv'
<1>1. /\ todo' = <<>> \/ todo' = LastWords
      /\ UNCHANGED <<stage, declared, bodiless, switching, frames, awaited, framed>>
  BY DEF Release, unit, body
<1>2. \A i \in 1 .. Len(todo') : todo'[i].kind = "head" => ~todo'[i].switching
  BY <1>1, LastWordsTell
<1> QED
  BY <1>1, <1>2 DEF SwitchInv, HeadTells, Replaced, Rest

LEMMA CallTells ==
  ASSUME UnitInv, SwitchInv, Call
  PROVE  SwitchInv'
<1>1. CASE SeeGone
  <2>1. stage' = "finalized" /\ UNCHANGED <<declared, bodiless, switching, todo, frames, awaited, framed>>
    BY <1>1 DEF SeeGone, DiscardUnit, body
  <2> QED
    BY <2>1 DEF SwitchInv, HeadTells, Replaced, Rest
<1> QED
  BY <1>1, CallCases, WriteHeadTells, EmissionTells, ReleaseTells

\* The frames of the call are the unit's, or its End, and go to the channel.
LEMMA SendsMove ==
  ASSUME UnitInv, Sends
  PROVE  /\ UNCHANGED <<declared, bodiless, switching, awaited, framed>>
         /\ stage' = stage \/ stage' = "finalized"
         /\ \/ todo' \in {todo, <<>>, <<EndFrame(FALSE)>>}
            \/ todo # <<>> /\ todo' = Tail(todo)
         /\ frames' = frames \/ (todo # <<>> /\ frames' = Append(frames, Head(todo)))
<1>1. CASE SendFrame
  BY <1>1 DEF SendFrame, Sending, Put, DiscardUnit, UnitInv, PlaceInv, unit, body
<1>2. CASE Seal \/ DropSender \/ Leave
  BY <1>2 DEF Seal, Sealed, DropSender, Leave, unit, body
<1>3. CASE SendEnd
  BY <1>3 DEF SendEnd, Put, UnitInv, PlaceInv, unit, body
<1>4. CASE LastFrame
  BY <1>4 DEF LastFrame, Put, unit, body
<1> QED
  BY <1>1, <1>2, <1>3, <1>4 DEF Sends

LEMMA SendsTells ==
  ASSUME UnitInv, ReplyInv, SwitchInv, Sends
  PROVE  SwitchInv'
<1>1. /\ UNCHANGED <<declared, bodiless, switching, awaited, framed>>
      /\ stage' = stage \/ stage' = "finalized"
  BY SendsMove
<1>2. \A i \in 1 .. Len(todo') : HeadTells(todo'[i])
  <2>1. CASE todo' = todo \/ todo' = <<>>
    BY <2>1 DEF SwitchInv, Rest
  <2>2. CASE todo' = <<EndFrame(FALSE)>>
    <3>1. EndFrame(FALSE) \in Frames /\ EndFrame(FALSE).kind = "end"
      BY DEF EndFrame, Frames, EndFrames
    <3>2. Len(todo') = 1 /\ todo'[1] = EndFrame(FALSE)
      BY <2>2, <3>1, One
    <3>3. \A i \in 1 .. Len(todo') : i = 1
      BY <3>2
    <3> QED
      BY <3>1, <3>2, <3>3 DEF HeadTells
  <2>3. CASE todo # <<>> /\ todo' = Tail(todo)
    <3>1. \A i \in 1 .. Len(todo') : todo'[i] = todo[i + 1] /\ i + 1 \in Rest
      BY <2>3, Next1 DEF UnitInv, Rest
    <3> QED
      BY <3>1 DEF SwitchInv
  <2> QED
    BY <2>1, <2>2, <2>3, SendsMove
<1>3. \A i \in 1 .. Len(frames') : HeadTells(frames'[i])
  <2>1. CASE frames' = frames
    BY <2>1 DEF SwitchInv
  <2>2. CASE todo # <<>> /\ frames' = Append(frames, Head(todo))
    <3>1. /\ Head(todo) \in Frames /\ HeadTells(Head(todo)) /\ frames \in Seq(Frames)
      BY <2>2, Next1 DEF UnitInv, ReplyInv, ReplyTyped, SwitchInv, Rest
    <3>2. /\ Len(frames') = Len(frames) + 1
          /\ \A i \in 1 .. Len(frames) : frames'[i] = frames[i]
          /\ frames'[Len(frames) + 1] = Head(todo)
      BY <2>2, <3>1, AppendProperties
    <3>3. \A i \in 1 .. Len(frames') : i \in 1 .. Len(frames) \/ i = Len(frames) + 1
      BY <3>1, <3>2
    <3> QED
      BY <3>1, <3>2, <3>3 DEF SwitchInv
  <2> QED
    BY <2>1, <2>2, SendsMove
<1> QED
  BY <1>1, <1>2, <1>3 DEF SwitchInv, HeadTells, Replaced, Rest

\* Frames leave the channel at its head.
Takes1 == frames' = frames \/ (frames # <<>> /\ frames' = Tail(frames))

LEMMA AnswersTake ==
  ASSUME Answers
  PROVE  Takes1
<1>1. SpawnDrain \/ DropReply \/ DropBody => Takes1
  BY DEF SpawnDrain, DropReply, DropBody, Takes1
<1>2. CASE Serve
  BY <1>1, <1>2 DEF Serve, TakeHead, BadGateway, HandOver, StageFrame, Respond, Takes1
<1>3. CASE Poll
  BY <1>1, <1>3 DEF Poll, PollStaged, PollFrame, PollOver, PumpSlice, BodyDone, Takes1
<1>4. CASE Drain
  BY <1>1, <1>4 DEF Drain, DrainFrame, DrainOver, DrainClosed, Takes1
<1>5. CASE FlushSocket \/ EndConnection \/ WriteTimeout \/ MarkClosed \/ StopReading
  BY <1>1, <1>5 DEF FlushSocket, EndConnection, WriteTimeout, MarkClosed, StopReading, Takes1
<1> QED
  BY <1>2, <1>3, <1>4, <1>5 DEF Answers

\* Only a head fixes the lengths: its two readings differ for a replaced 101.
LEMMA AnswersAwait ==
  ASSUME UnitInv, ReplyInv, SwitchInv, Answers
  PROVE  awaited' # framed' => Replaced
<1>1. CASE TakeHead
  <2>1. /\ frames # <<>> /\ Head(frames).kind = "head" /\ Head(frames) \in HeadFrames
        /\ framed' = HyperLength(Head(frames)) /\ awaited' = FramedLength(Head(frames))
    BY <1>1, First DEF TakeHead, Frames, HeadFrames, BodyFrames, EndFrames
  <2>2. HeadTells(Head(frames))
    BY <2>1 DEF ReplyInv, ReplyTyped, SwitchInv
  <2>3. declared \in Limit /\ Head(frames).length \in Limit
    BY <2>1 DEF UnitInv, UnitTyped, HeadFrames, Limit
  <2> QED
    BY <2>1, <2>2, <2>3 DEF HyperLength, FramedLength, HeadTells, HeadFrames, Replaced, Limit, Unknown
<1>2. CASE BadGateway
  BY <1>2 DEF BadGateway
<1>3. CASE UNCHANGED <<awaited, framed>>
  BY <1>3 DEF SwitchInv
<1>4. TakeHead \/ BadGateway \/ UNCHANGED <<awaited, framed>>
  <2>1. \A n : Yield(n) => UNCHANGED <<awaited, framed>>
    BY DEF Yield
  <2>2. TerminalError => UNCHANGED <<awaited, framed>>
    BY DEF TerminalError
  <2>3. \A f : Consume(f) => UNCHANGED <<awaited, framed>>
    BY <2>1, <2>2 DEF Consume
  <2>4. CASE Serve
    BY <2>4 DEF Serve, HandOver, StageFrame, Respond, body
  <2>5. CASE Poll
    BY <2>1, <2>2, <2>3, <2>5 DEF Poll, PollStaged, PollFrame, PollOver, PumpSlice, BodyDone, body
  <2>6. CASE Drain \/ FlushSocket \/ EndConnection \/ WriteTimeout \/ MarkClosed \/ StopReading
    BY <2>6 DEF Drain, DrainFrame, DrainOver, DrainClosed, FlushSocket, EndConnection, WriteTimeout,
                MarkClosed, StopReading, body
  <2> QED
    BY <2>4, <2>5, <2>6 DEF Answers
<1> QED
  BY <1>1, <1>2, <1>3, <1>4

LEMMA AnswersTell ==
  ASSUME UnitInv, ReplyInv, SwitchInv, Answers
  PROVE  SwitchInv'
<1>1. UNCHANGED <<stage, declared, bodiless, switching, todo>>
  BY AnswersKeep DEF producer, unit, thread
<1>2. \A i \in 1 .. Len(frames') : HeadTells(frames'[i])
  <2>1. CASE frames' = frames
    BY <2>1 DEF SwitchInv
  <2>2. CASE frames # <<>> /\ frames' = Tail(frames)
    <3>1. /\ frames \in Seq(Frames) /\ Len(Tail(frames)) = Len(frames) - 1
          /\ \A i \in 1 .. Len(Tail(frames)) : Tail(frames)[i] = frames[i + 1]
      BY <2>2, HeadTailProperties DEF ReplyInv, ReplyTyped
    <3>2. \A i \in 1 .. Len(Tail(frames)) : i + 1 \in 1 .. Len(frames)
      BY <3>1
    <3> QED
      BY <2>2, <3>1, <3>2 DEF SwitchInv
  <2> QED
    BY <2>1, <2>2, AnswersTake DEF Takes1
<1>3. awaited' # framed' => Replaced
  BY AnswersAwait
<1> QED
  BY <1>1, <1>2, <1>3 DEF SwitchInv, HeadTells, Replaced, Rest

LEMMA NextTells == IInv /\ SwitchInv /\ [Next]_vars => SwitchInv'
<1> SUFFICES ASSUME UnitInv, ReplyInv, SwitchInv, [Next]_vars PROVE SwitchInv'
  BY DEF IInv
<1>1. CASE Finished \/ UNCHANGED vars
  <2>1. UNCHANGED <<stage, declared, bodiless, switching, todo, frames, awaited, framed>>
    BY <1>1 DEF Finished, vars, unit, thread, body
  <2> QED
    BY <2>1 DEF SwitchInv, HeadTells, Replaced, Rest
<1> QED
  BY <1>1, CallTells, SendsTells, AnswersTell DEF Next, Answers

\* "a delivered response never reports cancellation to PHP", for every buffer,
\* channel and number of flushes (bridge.rs, ReplyBody::drop; handler.rs, drain).
\* The one exception is a 101 with a content-length, which goes out as a 502.
THEOREM DeliveredStays == Spec => []DeliveredIsKept
<1>1. Init => SwitchInv
  BY DEF Init, SwitchInv, Rest
<1>2. Spec => []SwitchInv
  BY <1>1, NextTells, ExchangeInvariance, PTL DEF Spec
<1>3. IInv /\ SwitchInv => DeliveredIsKept
  BY DEF IInv, ReplyInv, LostInv, GivenInv, MarkInv, SwitchInv, Watched, OnSocket, Over, NotCancelled,
         DeliveredIsKept
<1> QED
  BY <1>2, <1>3, ExchangeInvariance, PTL

-----------------------------------------------------------------------------
(* The refinement: what the unit sends is a FrameStream.                   *)

LEMMA PutMaps ==
  ASSUME UnitTyped, NEW f \in Frames, said' = Said(f),
         f.kind = "head" => said.phase = "start",
         f.kind = "end" => said.phase \in {"start", "body"},
         f.kind \in {"chunk", "file"} => /\ said.phase = "body" /\ f.len > 0
                                         /\ said.limit # Unknown => said.bytes + f.len <= said.limit
  PROVE  Stream!SNext
<1>1. said.limit \in Limit /\ said.bytes \in Nat
  BY DEF UnitTyped
<1>2. CASE f \in HeadFrames
  <2>1. said'.phase = "body" /\ said'.limit \in Limit /\ said'.bytes = said.bytes /\ said.phase = "start"
    BY <1>2, SaidOf DEF HeadFrames, Limit
  <2> QED
    BY <2>1 DEF Stream!SNext, Stream!Begin, Stream!Unknown, Limit, Unknown
<1>3. CASE f \in BodyFrames
  <2>1. /\ said'.phase = said.phase /\ said'.limit = said.limit /\ f.len \in Nat /\ said.phase = "body"
        /\ said'.bytes = said.bytes + f.len /\ f.len > 0
        /\ said.limit # Unknown => said.bytes + f.len <= said.limit
    BY <1>3, SaidOf DEF BodyFrames
  <2> QED
    BY <1>1, <2>1 DEF Stream!SNext, Stream!Carry, Stream!Unknown, Unknown
<1>4. CASE f \in EndFrames
  <2>1. said'.phase = "ended" /\ said'.limit = said.limit /\ said'.bytes = said.bytes
    BY <1>4, SaidOf DEF EndFrames
  <2> QED
    BY <1>4, <2>1 DEF Stream!SNext, Stream!End, EndFrames
<1> QED
  BY <1>2, <1>3, <1>4 DEF Frames

LEMMA CloseMaps ==
  ASSUME UnitTyped, CloseStream
  PROVE  [Stream!SNext]_(Stream!svars)
<1>1. said.phase \in {"start", "body", "ended", "cut"}
  BY DEF UnitTyped
<1> QED
  BY <1>1, Closed DEF Stream!SNext, Stream!Cut, Stream!svars

LEMMA SendsMaps ==
  ASSUME UnitInv, Sends
  PROVE  [Stream!SNext]_(Stream!svars)
<1>1. ASSUME UNCHANGED said PROVE UNCHANGED Stream!svars
  BY <1>1 DEF Stream!svars
<1>2. CASE SendFrame
  <2>1. /\ php = "call" /\ sender /\ Head(todo) \in Frames /\ Head(todo) = todo[1] /\ 1 \in Rest
        /\ Head(todo).kind # "end" /\ UnitTyped
    BY <1>2, Next1 DEF SendFrame, UnitInv, PlaceInv, Rest
  <2>2. /\ Head(todo).kind = "head" => said.phase = "start"
        /\ Head(todo).kind \in {"chunk", "file"} =>
             /\ said.phase = "body" /\ todo[1].len > 0
             /\ said.limit # Unknown => said.bytes + todo[1].len <= said.limit
    BY <2>1 DEF UnitInv, OrderInv, RoomInv, IsHead, IsBody
  <2>3. CASE Put(Head(todo))
    BY <2>1, <2>2, <2>3, PutMaps DEF Put
  <2>4. CASE DiscardUnit
    BY <2>1, <2>4, CloseMaps DEF DiscardUnit
  <2>5. CASE UNCHANGED said
    BY <1>1, <2>5
  <2> QED
    BY <1>2, <2>3, <2>4, <2>5 DEF SendFrame
<1>3. CASE Seal
  BY <1>1, <1>3 DEF Seal
<1>4. CASE SendEnd
  <2>1. /\ Head(todo) \in Frames /\ Head(todo).kind = "end" /\ said.phase \in {"start", "body"}
        /\ UnitTyped
    BY <1>4, Next1 DEF SendEnd, UnitInv, PlaceInv
  <2>2. CASE Put(Head(todo))
    BY <2>1, <2>2, PutMaps DEF Put
  <2>3. CASE UNCHANGED said
    BY <1>1, <2>3
  <2> QED
    BY <1>4, <2>2, <2>3 DEF SendEnd
<1>5. CASE LastFrame
  <2>1. /\ php = "leaving" /\ sender /\ Head(todo) \in Frames /\ Head(todo) = todo[1] /\ 1 \in Rest
        /\ todo # <<>> /\ UnitTyped
    BY <1>5, Next1 DEF LastFrame, UnitInv, PlaceInv, Rest
  <2>2. /\ Head(todo).kind = "head" => said.phase = "start"
        /\ Head(todo).kind \notin {"chunk", "file"}
        /\ said.phase \in {"start", "body"}
    BY <2>1 DEF UnitInv, OrderInv, IsHead, IsBody
  <2>3. CASE Put(Head(todo))
    BY <2>1, <2>2, <2>3, PutMaps DEF Put
  <2>4. CASE UNCHANGED said
    BY <1>1, <2>4
  <2> QED
    BY <1>5, <2>3, <2>4 DEF LastFrame
<1>6. CASE DropSender \/ Leave
  BY <1>6, CloseMaps DEF DropSender, Leave, UnitInv
<1> QED
  BY <1>2, <1>3, <1>4, <1>5, <1>6 DEF Sends

LEMMA StepMaps == IInv /\ [Next]_vars => [Stream!SNext]_(Stream!svars)
<1> SUFFICES ASSUME UnitInv, ReplyInv, [Next]_vars PROVE [Stream!SNext]_(Stream!svars)
  BY DEF IInv
<1>1. ASSUME UNCHANGED said PROVE UNCHANGED Stream!svars
  BY <1>1 DEF Stream!svars
<1>2. CASE Call
  BY <1>1, <1>2, CallIsQuiet, CloseMaps DEF UnitInv
<1>3. CASE Sends
  BY <1>3, SendsMaps
<1>4. CASE Answers \/ Finished \/ UNCHANGED vars
  <2>1. UNCHANGED said
    BY <1>4, AnswersKeep DEF producer, Finished, vars
  <2> QED
    BY <1>1, <2>1
<1> QED
  BY <1>2, <1>3, <1>4 DEF Next, Answers

\* The frames of a unit are Head? Body* End?, with no more body than the head
\* admits, in whatever order PHP calls and whatever the drop of the unit adds
\* (enum Frame, crates/sapi/src/types.rs; php/respond.rs).
THEOREM FramesAreAStream == Spec => ImplementsStream
<1>1. Init => Stream!SInit
  BY DEF Init, Stream!SInit, Stream!Unknown, Unknown
<1> QED
  BY <1>1, StepMaps, ExchangeInvariance, PTL DEF Spec, ImplementsStream, Stream!SSpec

-----------------------------------------------------------------------------
(* A response that looks complete is complete.                             *)
(*                                                                         *)
(* The bytes that hyper has, those of the slice that is being read, those  *)
(* of the staged frame and those of the channel are the bytes that the     *)
(* stream has carried (PipeInv), as long as the connection takes frames.   *)
(* With an End at the end of the channel the stream has carried what PHP   *)
(* was told is written (TellInv), and with a length no more than that.     *)

Live == reply \in {"serve", "body"}

Weight(f) == IF f.kind \in {"chunk", "file"} THEN f.len ELSE 0

Held == IF staged = NoFrame THEN 0 ELSE Weight(staged)

\* a and the frames of f come to b; g says how far each of them gets.
Adds(f, a, b) ==
  \E g \in [0 .. Len(f) -> 0 .. b] :
    /\ g[0] = a /\ g[Len(f)] = b
    /\ \A i \in 1 .. Len(f) : g[i] = g[i - 1] + Weight(f[i])

DeadInv ==
  /\ died => php \in {"leaving", "gone"} /\ todo = <<>>
  /\ discarded => reply = "none" /\ stage = "finalized"

\* The stream so far.
StreamInv ==
  /\ said.phase = "start" => said.bytes = 0 /\ said.limit = Unknown
  /\ said.limit # Unknown => said.bytes <= said.limit
  /\ bodiless /\ said.phase \in {"body", "ended"} => said.limit = 0
  /\ \A i \in Rest : IsHead(i) => todo[i].bodiless = bodiless

\* What a call has said and has still to say is what PHP wrote.
TellInv ==
  reply # "none" =>
    /\ php = "call" /\ said.phase = "start" => IsHead(1)
    /\ php = "sealed" => said.phase = "body"
    /\ php = "closing" => said.phase = "ended"
    /\ php = "leaving" /\ sender /\ ~died /\ said.phase = "start" => todo # <<>> /\ IsHead(1)
    /\ php = "call" /\ ~bodiless =>
         /\ \A i \in Rest : IsBody(i) => said.bytes + todo[i].len = sent_body
         /\ (\A i \in Rest : ~IsBody(i)) => said.bytes = sent_body
    /\ php = "sealed" /\ ~bodiless => said.bytes = sent_body

\* The last words of a unit that PHP let go of complete only an empty body.
LeaveInv ==
  php = "leaving" /\ sender =>
    \A i \in Rest : IsEnd(i) /\ ~todo[i].truncated =>
      IF IsHead(1) THEN todo[1].bodiless \/ todo[1].length = 0 ELSE said.limit = 0

SpokenInv == DeadInv /\ StreamInv /\ TellInv /\ LeaveInv

\* Before the connection has the head, it is the first frame of the channel.
HeadInv ==
  /\ reply # "none" /\ said.phase = "start" => conn = "head" /\ frames = <<>>
  /\ conn = "staging" => staged = NoFrame /\ framed # Unknown
  /\ conn = "head" =>
       /\ framed = Unknown /\ pump = 0 /\ staged = NoFrame
       /\ said.phase \in {"body", "ended"} => frames # <<>>
       /\ frames # <<>> => /\ frames[1].kind = "head"
                           /\ said.limit = IF frames[1].bodiless THEN 0 ELSE frames[1].length
       /\ frames = <<>> /\ ~sender => died

\* An End in the channel is the last frame, and all was said before it.
TailInv ==
  \A i \in 1 .. Len(frames) : frames[i].kind = "end" =>
    /\ i = Len(frames) /\ said.phase = "ended"
    /\ ~frames[i].truncated /\ said.limit = Unknown =>
         stage = "finalized" /\ said.bytes = sent_body

PipeInv ==
  Live =>
    /\ conn # "head" => framed = said.limit
    /\ staged # NoFrame => framed # Unknown
    /\ Adds(frames, encoded.bytes + pump + Held, said.bytes)
    /\ TailInv

LastInv == encoded.last => reply = "none"

WireInv == HeadInv /\ PipeInv /\ LastInv /\ CompleteIsWhole

LEMMA Weighs ==
  ASSUME NEW f \in Frames
  PROVE  Weight(f) \in Nat
BY DEF Weight, Frames, HeadFrames, BodyFrames, EndFrames

LEMMA AddsNothing ==
  ASSUME NEW a \in Nat
  PROVE  Adds(<<>>, a, a)
<1> DEFINE g == [i \in 0 .. 0 |-> a]
<1>1. g \in [0 .. Len(<<>>) -> 0 .. a] /\ g[0] = a /\ g[Len(<<>>)] = a
  OBVIOUS
<1> HIDE DEF g
<1> QED
  BY <1>1 DEF Adds

LEMMA AddsUp ==
  ASSUME NEW f \in Seq(Frames), NEW a, NEW b \in Nat, Adds(f, a, b)
  PROVE  a \in Nat /\ a <= b /\ (f = <<>> => a = b)
<1>1. PICK g \in [0 .. Len(f) -> 0 .. b] : g[0] = a /\ g[Len(f)] = b
  BY DEF Adds
<1>2. Len(f) \in Nat /\ 0 \in 0 .. Len(f) /\ (f = <<>> => Len(f) = 0)
  OBVIOUS
<1>3. g[0] \in 0 .. b
  BY <1>1, <1>2
<1> QED
  BY <1>1, <1>2, <1>3

LEMMA AddsPut ==
  ASSUME NEW f \in Seq(Frames), NEW x \in Frames, NEW a, NEW b \in Nat, Adds(f, a, b)
  PROVE  Adds(Append(f, x), a, b + Weight(x))
<1> DEFINE n == Len(f)
           w == Weight(x)
           fx == Append(f, x)
<1>1. PICK g \in [0 .. n -> 0 .. b] :
        g[0] = a /\ g[n] = b /\ \A i \in 1 .. n : g[i] = g[i - 1] + Weight(f[i])
  BY DEF Adds
<1>2. w \in Nat /\ n \in Nat
  BY Weighs
<1>3. Len(fx) = n + 1 /\ (\A i \in 1 .. n : fx[i] = f[i]) /\ fx[n + 1] = x
  BY AppendProperties
<1> DEFINE h == [i \in 0 .. n + 1 |-> IF i = n + 1 THEN b + w ELSE g[i]]
<1> HIDE DEF n, w, fx
<1>4. \A i \in 0 .. n + 1 : i = n + 1 \/ i \in 0 .. n
  BY <1>2
<1>5. \A i \in 0 .. n : g[i] \in 0 .. b + w
  BY <1>1, <1>2
<1>6. h \in [0 .. n + 1 -> 0 .. b + w]
  BY <1>2, <1>4, <1>5
<1>7. h[0] = a /\ h[n + 1] = b + w /\ h[n] = b
  BY <1>1, <1>2
<1>8. ASSUME NEW i \in 1 .. n + 1 PROVE h[i] = h[i - 1] + Weight(fx[i])
  <2>1. CASE i = n + 1
    BY <1>2, <1>3, <1>7, <2>1 DEF w
  <2>2. CASE i \in 1 .. n
    <3>1. h[i] = g[i] /\ h[i - 1] = g[i - 1] /\ g[i] = g[i - 1] + Weight(f[i]) /\ fx[i] = f[i]
      BY <1>1, <1>2, <1>3, <2>2
    <3> QED
      BY <3>1
  <2> QED
    BY <1>2, <2>1, <2>2
<1> HIDE DEF h
<1>9. Adds(fx, a, b + w)
  BY <1>3, <1>6, <1>7, <1>8 DEF Adds
<1> QED
  BY <1>9 DEF fx, w

LEMMA AddsTake ==
  ASSUME NEW f \in Seq(Frames), f # <<>>, NEW a, NEW b \in Nat, Adds(f, a, b)
  PROVE  /\ Head(f) \in Frames /\ Weight(Head(f)) \in Nat
         /\ a + Weight(Head(f)) <= b
         /\ Adds(Tail(f), a + Weight(Head(f)), b)
<1> DEFINE n == Len(f)
           t == Tail(f)
           w == Weight(Head(f))
<1>1. PICK g \in [0 .. n -> 0 .. b] :
        g[0] = a /\ g[n] = b /\ \A i \in 1 .. n : g[i] = g[i - 1] + Weight(f[i])
  BY DEF Adds
<1>2. n \in Nat \ {0} /\ Head(f) \in Frames /\ Head(f) = f[1] /\ t \in Seq(Frames)
  OBVIOUS
<1>3. Len(t) = n - 1 /\ \A i \in 1 .. n - 1 : t[i] = f[i + 1]
  BY HeadTailProperties
<1>4. w \in Nat
  BY <1>2, Weighs
<1> DEFINE h == [i \in 0 .. n - 1 |-> g[i + 1]]
<1>5. g[1] = a + w
  BY <1>1, <1>2
<1> HIDE DEF n, t, w
<1>6. h \in [0 .. n - 1 -> 0 .. b]
  BY <1>1, <1>2
<1>7. h[0] = a + w /\ h[n - 1] = b
  BY <1>1, <1>2, <1>5
<1>8. ASSUME NEW i \in 1 .. n - 1 PROVE h[i] = h[i - 1] + Weight(t[i])
  <2>1. h[i] = g[i + 1] /\ h[i - 1] = g[i] /\ i + 1 \in 1 .. n /\ (i + 1) - 1 = i
    BY <1>2
  <2>2. g[i + 1] = g[i] + Weight(f[i + 1])
    BY <1>1, <2>1
  <2> QED
    BY <1>3, <2>1, <2>2
<1>9. g[1] \in 0 .. b
  BY <1>1, <1>2
<1> HIDE DEF h
<1>10. Adds(t, a + w, b)
  BY <1>2, <1>3, <1>6, <1>7, <1>8 DEF Adds
<1> QED
  BY <1>2, <1>4, <1>5, <1>9, <1>10 DEF t, w

\* What the unit has said follows from the calls alone: the lemmas on SpokenInv
\* go through the steps of the PHP thread.
LEMMA EmitsSpeaks ==
  ASSUME UnitInv, SpokenInv, NEW h \in Limit, NEW k \in {"chunk", "file"}, NEW b \in Nat,
         NEW e \in BOOLEAN, Emission(h, k, b, e)
  PROVE  SpokenInv'
<1>1. /\ Plan(h, b, e, todo') /\ stage # "finalized" /\ php = "script" /\ sender
      /\ sent_body' = sent_body + b
      /\ php' \in {"script", "call"} /\ (php' = "call" => todo' # <<>>)
      /\ UNCHANGED <<bodiless, discarded, sender, died, said, reply>>
  BY Emitted DEF Emission
<1>2. /\ said.bytes \in Nat /\ sent_body \in Nat
      /\ IF head_sent THEN said.phase = "body" /\ (~bodiless => said.bytes = sent_body)
         ELSE said.phase = "start" /\ said.bytes = sent_body
  BY <1>1 DEF UnitInv, UnitTyped, ScriptInv
<1>3. DeadInv'
  BY <1>1 DEF SpokenInv, DeadInv
<1>4. StreamInv'
  BY <1>1 DEF Plan, SpokenInv, StreamInv, IsHead, Rest
<1>5. TellInv'
  BY <1>1, <1>2 DEF Plan, TellInv, IsHead, IsBody, Rest
<1>6. LeaveInv'
  BY <1>1 DEF LeaveInv
<1> QED
  BY <1>3, <1>4, <1>5, <1>6 DEF SpokenInv

LEMMA WriteHeadSpeaks ==
  ASSUME UnitInv, SpokenInv, WriteHead
  PROVE  SpokenInv'
<1>1. /\ php = "script" /\ php' = "script" /\ stage = "open" /\ todo = <<>> /\ todo' = <<>>
      /\ UNCHANGED <<discarded, died, said, reply>>
  BY DEF WriteHead, Takes, thread, UnitInv, PlaceInv
<1>2. said.phase = "start"
  BY <1>1 DEF UnitInv, PlaceInv, ScriptInv
<1> QED
  BY <1>1, <1>2 DEF SpokenInv, DeadInv, StreamInv, TellInv, LeaveInv, Rest

\* The sender drops.
LEMMA ClosedSpeaks ==
  ASSUME UnitInv, SpokenInv, CloseStream, bodiless' = bodiless, todo' = <<>>,
         php' \in {"script", "gone"}, DeadInv'
  PROVE  SpokenInv'
<1>1. /\ said.phase \in {"start", "body", "ended", "cut"}
      /\ said'.phase = (IF said.phase = "ended" THEN "ended" ELSE "cut")
      /\ said'.limit = said.limit /\ said'.bytes = said.bytes
  BY Closed DEF UnitInv, UnitTyped
<1>2. StreamInv'
  BY <1>1 DEF SpokenInv, StreamInv, Rest
<1> QED
  BY <1>2 DEF SpokenInv, TellInv, LeaveInv

LEMMA DiscardSpeaks ==
  ASSUME UnitInv, SpokenInv, DiscardUnit, stage # "finalized", Cancelled,
         php \in {"script", "call"}, php' = "script", todo' = <<>>, UNCHANGED <<died, reply>>
  PROVE  SpokenInv'
<1>1. CloseStream /\ bodiless' = bodiless /\ stage' = "finalized"
  BY DEF DiscardUnit
<1>2. reply = "none" /\ ~died
  BY DEF Cancelled, ReceiverGone, SpokenInv, DeadInv
<1>3. DeadInv'
  BY <1>1, <1>2 DEF DeadInv
<1> QED
  BY <1>1, <1>3, ClosedSpeaks

LEMMA ReleaseSpeaks ==
  ASSUME UnitInv, SpokenInv, Release
  PROVE  SpokenInv'
<1>1. /\ php = "script" /\ php' = "leaving"
      /\ UNCHANGED <<stage, head_sent, bodiless, discarded, sender, said, reply>>
      /\ died' \in BOOLEAN
      /\ todo' = (IF stage # "finalized" /\ ~died' THEN LastWords ELSE <<>>)
      /\ (died' => todo' = <<>>)
  BY DEF Release, unit
<1>2. (sender <=> stage # "finalized") /\ todo = <<>>
  BY <1>1 DEF UnitInv, PlaceInv
<1> DEFINE head == HeadFrame(IF bodiless THEN Unknown ELSE 0, bodiless, FALSE)
<1>3. /\ head.kind = "head" /\ head.bodiless = bodiless /\ (~bodiless => head.length = 0)
      /\ EndFrame(TRUE).kind = "end" /\ EndFrame(TRUE).truncated
      /\ EndFrame(FALSE).kind = "end"
  BY DEF HeadFrame, EndFrame
<1>4. \/ todo' = <<>>
      \/ sender /\ head_sent /\ todo' = <<EndFrame(TRUE)>>
      \/ sender /\ ~head_sent /\ todo' = <<head, EndFrame(FALSE)>>
  BY <1>1, <1>2 DEF LastWords
<1> HIDE DEF head
<1>5. DeadInv'
  BY <1>1 DEF SpokenInv, DeadInv
<1>6. StreamInv' /\ LeaveInv'
  <2>1. CASE todo' = <<>>
    BY <1>1, <2>1 DEF SpokenInv, StreamInv, LeaveInv, Rest
  <2>2. CASE todo' = <<EndFrame(TRUE)>>
    <3>1. Len(todo') = 1 /\ todo'[1] = EndFrame(TRUE)
      BY <2>2
    <3>2. todo'[1].kind = "end" /\ todo'[1].truncated
      BY <1>3, <3>1
    <3>3. \A i \in 1 .. Len(todo') : i = 1
      BY <3>1
    <3> QED
      BY <1>1, <3>2, <3>3 DEF SpokenInv, StreamInv, LeaveInv, IsHead, IsEnd, Rest
  <2>3. CASE todo' = <<head, EndFrame(FALSE)>>
    <3>1. /\ Len(todo') = 2 /\ todo'[1] = head /\ todo'[2] = EndFrame(FALSE)
          /\ \A i \in 1 .. 2 : i = 1 \/ i = 2
      BY <2>3
    <3>2. \A i \in 1 .. 2 : todo'[i].kind = "head" => todo'[i].bodiless = bodiless
      BY <1>3, <3>1
    <3>3. todo'[1].kind = "head" /\ (todo'[1].bodiless \/ todo'[1].length = 0)
      BY <1>3, <3>1
    <3> QED
      BY <1>1, <3>1, <3>2, <3>3 DEF SpokenInv, StreamInv, LeaveInv, IsHead, IsEnd, Rest
  <2> QED
    BY <1>4, <2>1, <2>2, <2>3
<1>7. TellInv'
  <2> SUFFICES ASSUME sender', ~died', said'.phase = "start"
               PROVE  todo' # <<>> /\ todo'[1].kind = "head"
    BY <1>1 DEF TellInv, IsHead
  <2>1. sender /\ stage # "finalized" /\ said.phase = "start" /\ ~head_sent
    BY <1>1, <1>2 DEF UnitInv, ScriptInv
  <2>2. todo' = <<head, EndFrame(FALSE)>>
    BY <1>1, <2>1 DEF LastWords, head
  <2> QED
    BY <1>3, <2>2
<1> QED
  BY <1>5, <1>6, <1>7 DEF SpokenInv

\* A frame joins the stream.
LEMMA PutStreams ==
  ASSUME UnitInv, SpokenInv, todo # <<>>, said' = Said(Head(todo)), bodiless' = bodiless,
         todo' \in {Tail(todo), <<>>},
         Head(todo).kind = "head" => said.phase = "start",
         Head(todo).kind = "end" => said.phase \in {"start", "body"} /\ (bodiless => said.phase = "body"),
         Head(todo).kind \in {"chunk", "file"} =>
           /\ said.phase = "body"
           /\ said.limit # Unknown => said.bytes + Head(todo).len <= said.limit
  PROVE  StreamInv'
<1> DEFINE f == Head(todo)
<1>1. /\ f \in Frames /\ f = todo[1] /\ Len(todo) \in Nat \ {0} /\ 1 \in Rest
      /\ f.kind \in {"head", "chunk", "file", "end"}
      /\ Tail(todo) \in Seq(Frames)
      /\ \A i \in 1 .. Len(Tail(todo)) : Tail(todo)[i] = todo[i + 1] /\ i + 1 \in Rest
  BY Next1 DEF UnitInv, Rest
<1>2. \A i \in Rest : IsHead(i) => todo[i].bodiless = bodiless
  BY DEF SpokenInv, StreamInv
<1>3. \A i \in 1 .. Len(todo') : todo'[i].kind = "head" => todo'[i].bodiless = bodiless
  BY <1>1, <1>2 DEF IsHead
<1>4. /\ said.bytes \in Nat /\ said.limit \in Limit
      /\ said.phase = "start" => said.bytes = 0 /\ said.limit = Unknown
      /\ said.limit # Unknown => said.bytes <= said.limit
      /\ bodiless /\ said.phase \in {"body", "ended"} => said.limit = 0
  BY DEF UnitInv, UnitTyped, SpokenInv, StreamInv
<1>5. CASE f.kind = "head"
  <2>1. /\ said'.phase = "body" /\ said'.bytes = 0 /\ f.bodiless = bodiless
        /\ said'.limit = IF f.bodiless THEN 0 ELSE f.length
    BY <1>1, <1>2, <1>4, <1>5, SaidOf DEF UnitInv, IsHead
  <2>2. f.length \in Limit
    BY <1>1, <1>5 DEF Frames, HeadFrames, BodyFrames, EndFrames, Limit
  <2>3. said'.limit # Unknown => 0 <= said'.limit
    BY <2>1, <2>2 DEF Limit
  <2> QED
    BY <1>3, <2>1, <2>3 DEF StreamInv, IsHead, Rest
<1>6. CASE f.kind = "end"
  <2>1. said'.phase = "ended" /\ said'.limit = said.limit /\ said'.bytes = said.bytes
    BY <1>1, <1>6, SaidOf DEF UnitInv
  <2> QED
    BY <1>3, <1>4, <1>6, <2>1 DEF StreamInv, IsHead, Rest
<1>7. CASE f.kind \in {"chunk", "file"}
  <2>1. said'.phase = "body" /\ said'.limit = said.limit /\ said'.bytes = said.bytes + f.len
    BY <1>1, <1>7, SaidOf DEF UnitInv
  <2> QED
    BY <1>3, <1>4, <1>7, <2>1 DEF StreamInv, IsHead, Rest
<1> QED
  BY <1>1, <1>5, <1>6, <1>7

LEMMA PutSpeaks ==
  ASSUME UnitInv, SpokenInv, php = "call", Head(todo).kind # "end", Put(Head(todo)),
         Sending(Tail(todo)), UNCHANGED <<unit, sender, died, reply>>
  PROVE  SpokenInv'
<1> DEFINE f == Head(todo)
           ts == Tail(todo)
<1>1. /\ sender /\ todo # <<>> /\ said' = Said(f) /\ todo' = ts
      /\ php' = (IF ts = <<>> THEN "script" ELSE "call")
      /\ UNCHANGED <<stage, sent_body, bodiless, discarded>>
  BY DEF UnitInv, PlaceInv, Put, Sending, unit
<1>2. /\ f \in Frames /\ f = todo[1] /\ Len(todo) \in Nat \ {0} /\ 1 \in Rest
      /\ f.kind \in {"head", "chunk", "file"}
      /\ ts \in Seq(Frames) /\ Len(ts) = Len(todo) - 1
      /\ \A i \in 1 .. Len(ts) : ts[i] = todo[i + 1] /\ i + 1 \in Rest
  BY <1>1, Next1 DEF UnitInv, Rest
<1>3. /\ f.kind = "head" => said.phase = "start"
      /\ f.kind \in {"chunk", "file"} =>
           /\ said.phase = "body"
           /\ said.limit # Unknown => said.bytes + f.len <= said.limit
           /\ \A j \in Rest : IsBody(j) => j = 1
  BY <1>1, <1>2 DEF UnitInv, OrderInv, RoomInv, IsHead, IsBody
<1>4. /\ said'.phase = "body"
      /\ f.kind = "head" => said'.bytes = said.bytes
      /\ f.kind \in {"chunk", "file"} => said'.bytes = said.bytes + f.len
  BY <1>1, <1>2, <1>3, SaidOf DEF UnitInv
<1>5. StreamInv'
  BY <1>1, <1>2, <1>3, PutStreams
<1>6. DeadInv' /\ LeaveInv'
  BY <1>1 DEF SpokenInv, DeadInv, LeaveInv
<1>7. TellInv'
  <2> SUFFICES ASSUME reply # "none", ~bodiless
               PROVE  /\ \A i \in 1 .. Len(ts) : ts[i].kind \in {"chunk", "file"} =>
                           said'.bytes + ts[i].len = sent_body
                      /\ (\A i \in 1 .. Len(ts) : ts[i].kind \notin {"chunk", "file"}) =>
                           said'.bytes = sent_body
    BY <1>1, <1>4 DEF TellInv, IsBody, Rest
  <2>1. /\ \A i \in Rest : IsBody(i) => said.bytes + todo[i].len = sent_body
        /\ (\A i \in Rest : ~IsBody(i)) => said.bytes = sent_body
    BY DEF SpokenInv, TellInv
  <2>2. CASE f.kind = "head"
    <3>1. \A i \in Rest : i = 1 \/ (i - 1 \in 1 .. Len(ts) /\ todo[i] = ts[i - 1])
      BY <1>2 DEF Rest
    <3>2. ~IsBody(1)
      BY <1>2, <2>2 DEF IsBody
    <3> QED
      BY <1>2, <1>4, <2>1, <2>2, <3>1, <3>2 DEF IsBody
  <2>3. CASE f.kind \in {"chunk", "file"}
    <3>1. said'.bytes = sent_body
      BY <1>2, <1>4, <2>1, <2>3 DEF IsBody
    <3>2. \A i \in 1 .. Len(ts) : i + 1 # 1 /\ i + 1 \in Rest /\ ts[i] = todo[i + 1]
      BY <1>2
    <3>3. \A i \in 1 .. Len(ts) : ts[i].kind \notin {"chunk", "file"}
      BY <1>3, <2>3, <3>2 DEF IsBody
    <3> QED
      BY <3>1, <3>3
  <2> QED
    BY <1>2, <2>2, <2>3
<1> QED
  BY <1>5, <1>6, <1>7 DEF SpokenInv

LEMMA SendFrameSpeaks ==
  ASSUME UnitInv, SpokenInv, SendFrame
  PROVE  SpokenInv'
<1>1. /\ php = "call" /\ Head(todo).kind # "end" /\ stage = "committed" /\ sender
      /\ UNCHANGED <<died, reply>>
  BY DEF SendFrame, UnitInv, PlaceInv
<1>2. CASE Put(Head(todo)) /\ Sending(Tail(todo)) /\ UNCHANGED <<unit, sender, handled>>
  BY <1>1, <1>2, PutSpeaks
<1>3. CASE ReceiverGone /\ DiscardUnit /\ Sending(<<>>)
  <2>1. Cancelled /\ todo' = <<>> /\ php' = "script"
    BY <1>1, <1>3 DEF Cancelled, Sending
  <2> QED
    BY <1>1, <1>3, <2>1, DiscardSpeaks
<1>4. CASE ReceiverGone /\ Sending(<<EndFrame(FALSE)>>) /\ UNCHANGED <<unit, sender, handled, said>>
  <2>1. EndFrame(FALSE) \in Frames /\ EndFrame(FALSE).kind = "end"
    BY DEF EndFrame, Frames, EndFrames
  <2>2. /\ Len(<<EndFrame(FALSE)>>) = 1 /\ <<EndFrame(FALSE)>>[1].kind = "end"
        /\ <<EndFrame(FALSE)>> # <<>>
    BY <2>1, One
  <2>3. todo' = <<EndFrame(FALSE)>> /\ php' = "call"
    BY <1>4, <2>2 DEF Sending
  <2>4. \A i \in 1 .. Len(todo') : todo'[i].kind = "end"
    <3>1. \A i \in 1 .. Len(todo') : i = 1
      BY <2>2, <2>3
    <3>2. todo'[1].kind = "end"
      BY <2>2, <2>3
    <3> QED
      BY <3>1, <3>2
  <2>5. reply' = "none" /\ ~died /\ UNCHANGED <<stage, bodiless, discarded, said>>
    BY <1>1, <1>4 DEF ReceiverGone, unit, SpokenInv, DeadInv
  <2>6. StreamInv'
    BY <2>4, <2>5 DEF SpokenInv, StreamInv, IsHead, Rest
  <2> QED
    BY <1>1, <2>3, <2>5, <2>6 DEF SpokenInv, DeadInv, TellInv, LeaveInv
<1> QED
  BY <1>2, <1>3, <1>4 DEF SendFrame

LEMMA SealSpeaks ==
  ASSUME UnitInv, SpokenInv, Seal
  PROVE  SpokenInv'
<1>1. /\ php = "call" /\ php' = "sealed" /\ sender /\ todo # <<>> /\ Head(todo).kind = "end"
      /\ stage # "finalized" /\ stage' = "finalized"
      /\ UNCHANGED <<sent_body, bodiless, discarded, sender, todo, died, said, reply>>
  BY DEF Seal, Sealed, UnitInv, PlaceInv
<1>2. Len(todo) = 1 /\ todo[1].kind = "end" /\ said.phase \in {"start", "body"}
  BY <1>1, EndIsLast
<1>3. \A i \in Rest : ~IsBody(i) /\ ~IsHead(i)
  BY <1>2 DEF Rest, IsBody, IsHead
<1>4. 1 \in Rest
  BY <1>2 DEF Rest
<1>5. TellInv'
  BY <1>1, <1>2, <1>3, <1>4 DEF SpokenInv, TellInv
<1>6. StreamInv' /\ DeadInv' /\ LeaveInv'
  BY <1>1 DEF SpokenInv, StreamInv, DeadInv, LeaveInv, IsHead, Rest
<1> QED
  BY <1>5, <1>6 DEF SpokenInv

LEMMA SendEndSpeaks ==
  ASSUME UnitInv, SpokenInv, SendEnd
  PROVE  SpokenInv'
<1>1. /\ php = "sealed" /\ php' = "closing" /\ todo' = <<>> /\ todo # <<>>
      /\ Head(todo).kind = "end" /\ said.phase \in {"start", "body"}
      /\ \/ reply # "none" /\ said' = Said(Head(todo))
         \/ reply = "none" /\ said' = said
      /\ UNCHANGED <<stage, bodiless, discarded, died, reply>>
  BY DEF SendEnd, Put, ReceiverGone, unit, UnitInv, PlaceInv
<1>2. DeadInv' /\ LeaveInv'
  BY <1>1 DEF SpokenInv, DeadInv, LeaveInv
<1>3. CASE reply # "none" /\ said' = Said(Head(todo))
  <2>1. said.phase = "body"
    BY <1>1, <1>3 DEF SpokenInv, TellInv
  <2>2. StreamInv'
    BY <1>1, <1>3, <2>1, PutStreams
  <2>3. Head(todo) \in Frames
    BY <1>1, Next1 DEF UnitInv
  <2>4. said'.phase = "ended"
    BY <1>1, <1>3, <2>3, SaidOf DEF UnitInv
  <2> QED
    BY <1>1, <1>2, <2>2, <2>4 DEF SpokenInv, TellInv
<1>4. CASE reply = "none" /\ said' = said
  BY <1>1, <1>2, <1>4 DEF SpokenInv, StreamInv, TellInv, Rest
<1> QED
  BY <1>1, <1>3, <1>4

LEMMA LeavesSpeaks ==
  ASSUME UnitInv, SpokenInv, DropSender \/ Leave
  PROVE  SpokenInv'
<1>1. /\ CloseStream /\ php \in {"closing", "leaving"} /\ php' \in {"script", "gone"}
      /\ php = "leaving" => php' = "gone"
      /\ todo = <<>> /\ todo' = <<>>
      /\ UNCHANGED <<stage, bodiless, discarded, died, reply>>
  BY DEF DropSender, Leave, unit, UnitInv, PlaceInv
<1>2. DeadInv'
  BY <1>1 DEF SpokenInv, DeadInv
<1> QED
  BY <1>1, <1>2, ClosedSpeaks

\* A full channel has taken the head.
LEMMA LastFrameSpeaks ==
  ASSUME UnitInv, SpokenInv, HeadInv, LastFrame
  PROVE  SpokenInv'
<1>1. /\ php = "leaving" /\ php' = "leaving" /\ todo # <<>> /\ sender
      /\ \/ reply # "none" /\ Put(Head(todo)) /\ todo' = Tail(todo)
         \/ (reply = "none" \/ Len(frames) = FrameCap) /\ todo' = <<>> /\ said' = said
      /\ UNCHANGED <<stage, bodiless, discarded, sender, died, reply>>
  BY DEF LastFrame, ReceiverGone, unit, UnitInv, PlaceInv
<1>2. /\ Head(todo) \in Frames /\ Head(todo) = todo[1] /\ Len(todo) \in Nat \ {0} /\ 1 \in Rest
      /\ Head(todo).kind \in {"head", "chunk", "file", "end"}
      /\ Len(Tail(todo)) = Len(todo) - 1
      /\ \A i \in 1 .. Len(Tail(todo)) : Tail(todo)[i] = todo[i + 1] /\ i + 1 \in Rest
      /\ Tail(todo) = <<>> <=> Len(todo) = 1
  BY <1>1, Next1 DEF UnitInv, Rest
<1>3. /\ \A i \in Rest : (IsHead(i) => i = 1 /\ said.phase = "start") /\ (IsEnd(i) => i = Len(todo))
                        /\ ~IsBody(i)
      /\ said.phase \in {"start", "body"}
  BY <1>1 DEF UnitInv, OrderInv
<1>4. DeadInv' /\ ~died
  BY <1>1 DEF SpokenInv, DeadInv
<1>5. CASE todo' = <<>> /\ said' = said /\ (reply = "none" \/ Len(frames) = FrameCap)
  <2>1. StreamInv' /\ LeaveInv'
    BY <1>1, <1>5 DEF SpokenInv, StreamInv, LeaveInv, Rest
  <2>2. Len(<<>>) = 0 /\ FrameCap # 0
    BY ExchangeConstants
  <2>3. reply # "none" => said.phase # "start"
    BY <1>5, <2>2 DEF HeadInv
  <2>4. TellInv'
    BY <1>1, <1>5, <2>3 DEF TellInv
  <2> QED
    BY <1>4, <2>1, <2>4 DEF SpokenInv
<1>6. CASE Put(Head(todo)) /\ todo' = Tail(todo) /\ reply # "none"
  <2>1. said' = Said(Head(todo))
    BY <1>6 DEF Put
  <2>2. /\ Head(todo).kind \in {"head", "end"}
        /\ Head(todo).kind = "head" => said.phase = "start"
        /\ Head(todo).kind = "end" => said.phase = "body"
    BY <1>1, <1>2, <1>3, <1>4, <1>6 DEF IsHead, IsEnd, IsBody, SpokenInv, TellInv
  <2>3. StreamInv'
    BY <1>1, <1>2, <1>6, <2>1, <2>2, PutStreams
  <2>4. /\ said'.phase \in {"body", "ended"}
        /\ Head(todo).kind = "head" =>
             said'.limit = IF Head(todo).bodiless THEN 0 ELSE Head(todo).length
    BY <1>2, <2>1, <2>2, SaidOf DEF UnitInv
  <2>5. TellInv'
    BY <1>1, <2>4 DEF TellInv
  <2>6. LeaveInv'
    <3> SUFFICES ASSUME NEW i \in 1 .. Len(Tail(todo)), Tail(todo)[i].kind = "end",
                        ~Tail(todo)[i].truncated
                 PROVE  Tail(todo)[1].kind # "head" /\ said'.limit = 0
      BY <1>6 DEF LeaveInv, IsHead, IsEnd, Rest
    <3>1. i + 1 \in Rest /\ IsEnd(i + 1) /\ ~todo[i + 1].truncated /\ i + 1 # 1
      BY <1>2 DEF IsEnd
    <3>2. Head(todo).kind = "head"
      <4>1. Len(todo) # 1
        BY <1>2
      <4> QED
        BY <1>2, <1>3, <2>2, <4>1 DEF IsEnd
    <3>3. todo[1].bodiless \/ todo[1].length = 0
      BY <1>1, <1>2, <3>1, <3>2 DEF SpokenInv, LeaveInv, IsHead
    <3>4. 1 \in 1 .. Len(Tail(todo))
      BY <1>2
    <3>5. Tail(todo)[1] = todo[2] /\ 2 \in Rest
      BY <1>2, <3>4
    <3> QED
      BY <1>2, <1>3, <2>4, <3>2, <3>3, <3>5 DEF IsHead
  <2> QED
    BY <1>4, <2>3, <2>5, <2>6 DEF SpokenInv
<1> QED
  BY <1>1, <1>5, <1>6

LEMMA SpokenSteps ==
  ASSUME UnitInv, SpokenInv, HeadInv, Call \/ Sends
  PROVE  SpokenInv'
<1>1. CASE SeeGone
  <2>1. /\ DiscardUnit /\ stage # "finalized" /\ Cancelled /\ php = "script" /\ php' = "script"
        /\ todo' = <<>> /\ UNCHANGED <<died, reply>>
    BY <1>1 DEF SeeGone, UnitInv, PlaceInv
  <2> QED
    BY <2>1, DiscardSpeaks
<1>2. CASE SomeEmission
  BY <1>2, EmitsSpeaks DEF SomeEmission
<1>3. CASE Call
  BY <1>1, <1>2, <1>3, CallCases, WriteHeadSpeaks, ReleaseSpeaks
<1>4. CASE Sends
  BY <1>4, SendFrameSpeaks, SealSpeaks, SendEndSpeaks, LeavesSpeaks, LastFrameSpeaks DEF Sends
<1> QED
  BY <1>3, <1>4

-----------------------------------------------------------------------------
(* What the PHP thread does to the channel.                                *)

\* A frame that is sent while somebody may receive it continues the stream,
\* and an End that claims a whole body follows all that PHP wrote.
LEMMA PutFits ==
  ASSUME UnitInv, SpokenInv, php \in {"call", "sealed", "leaving"}, sender, todo # <<>>,
         reply # "none", php = "call" => Head(todo).kind # "end"
  PROVE  /\ Head(todo).kind = "head" => said.phase = "start"
         /\ Head(todo).kind # "head" => said.phase = "body"
         /\ Head(todo).kind = "end" /\ ~Head(todo).truncated /\ said.limit = Unknown =>
              stage = "finalized" /\ said.bytes = sent_body
<1>1. /\ Head(todo) = todo[1] /\ 1 \in Rest
      /\ Head(todo).kind \in {"head", "chunk", "file", "end"}
  BY Next1 DEF UnitInv, Rest
<1>2. CASE php = "call"
  BY <1>1, <1>2 DEF UnitInv, OrderInv, IsHead, IsBody
<1>3. CASE php = "sealed"
  <2>1. said.phase = "body" /\ Head(todo).kind = "end" /\ stage = "finalized"
    BY <1>3 DEF UnitInv, PlaceInv, SpokenInv, TellInv
  <2>2. bodiless => said.limit = 0
    BY <2>1 DEF SpokenInv, StreamInv
  <2>3. ~bodiless => said.bytes = sent_body
    BY <1>3 DEF SpokenInv, TellInv
  <2> QED
    BY <2>1, <2>2, <2>3 DEF Unknown
<1>4. CASE php = "leaving"
  <2>1. ~died
    BY DEF SpokenInv, DeadInv
  <2>2. /\ IsHead(1) => said.phase = "start"
        /\ ~IsBody(1) /\ said.phase \in {"start", "body"}
    BY <1>1, <1>4 DEF UnitInv, OrderInv
  <2>3. said.phase = "start" => IsHead(1)
    BY <1>4, <2>1 DEF SpokenInv, TellInv
  <2>4. IsEnd(1) /\ ~todo[1].truncated => said.limit = 0
    BY <1>1, <1>4 DEF SpokenInv, LeaveInv, IsHead, IsEnd
  <2> QED
    BY <1>1, <2>2, <2>3, <2>4 DEF IsHead, IsEnd, IsBody, Unknown
<1> QED
  BY <1>2, <1>3, <1>4

\* What a step of the PHP thread leaves of a final unit.
Lasting ==
  /\ UNCHANGED <<reply, conn, body, wire, socket>>
  /\ died => died'
  /\ stage = "finalized" => /\ stage' = "finalized"
                            /\ UNCHANGED <<sent_body, discarded>>

\* Such a step sends a frame, or leaves the channel alone, and the sender drops
\* only where the stream is at its end.
Silent ==
  /\ frames' = frames
  /\ \/ UNCHANGED <<said, sender>>
     \/ /\ CloseStream
        /\ \/ reply = "none" \/ php = "closing"
           \/ php = "leaving" /\ todo = <<>>

Speaking ==
  /\ php \in {"call", "sealed", "leaving"} /\ sender /\ todo # <<>> /\ reply # "none"
  /\ php = "call" => Head(todo).kind # "end"
  /\ Put(Head(todo)) /\ sender' = sender

LEMMA CallLasts ==
  ASSUME UnitInv, SpokenInv, Call
  PROVE  Lasting /\ Silent
<1>1. CASE SeeGone
  <2>1. reply = "none"
    BY <1>1 DEF SeeGone, Cancelled, ReceiverGone, SpokenInv, DeadInv
  <2> QED
    BY <1>1, <2>1 DEF SeeGone, DiscardUnit, Lasting, Silent
<1>2. CASE WriteHead
  BY <1>2 DEF WriteHead, thread, Lasting, Silent
<1>3. CASE SomeEmission
  BY <1>3, Emitted DEF SomeEmission, Lasting, Silent
<1>4. CASE Release
  <2>1. ~died
    BY <1>4 DEF Release, SpokenInv, DeadInv
  <2> QED
    BY <1>4, <2>1 DEF Release, unit, Lasting, Silent
<1> QED
  BY <1>1, <1>2, <1>3, <1>4, CallCases

LEMMA SendsLast ==
  ASSUME UnitInv, SpokenInv, Sends
  PROVE  Lasting /\ (Silent \/ Speaking)
<1>1. CASE SendFrame
  <2>1. php = "call" /\ stage # "finalized" /\ sender /\ todo # <<>> /\ Head(todo).kind # "end"
    BY <1>1 DEF SendFrame, UnitInv, PlaceInv
  <2>2. Lasting
    BY <1>1, <2>1 DEF SendFrame, Lasting
  <2>3. Silent \/ Speaking
    BY <1>1, <2>1 DEF SendFrame, DiscardUnit, ReceiverGone, Silent, Speaking
  <2> QED
    BY <2>2, <2>3
<1>2. CASE Seal
  BY <1>2 DEF Seal, Lasting, Silent
<1>3. CASE SendEnd
  <2>1. php = "sealed" /\ sender /\ todo # <<>>
    BY <1>3 DEF SendEnd, UnitInv, PlaceInv
  <2> QED
    BY <1>3, <2>1 DEF SendEnd, ReceiverGone, unit, Lasting, Silent, Speaking
<1>4. CASE LastFrame
  <2>1. php = "leaving" /\ sender /\ todo # <<>>
    BY <1>4 DEF LastFrame, UnitInv, PlaceInv
  <2> QED
    BY <1>4, <2>1 DEF LastFrame, ReceiverGone, unit, Lasting, Silent, Speaking
<1>5. CASE DropSender \/ Leave
  BY <1>5 DEF DropSender, Leave, unit, Lasting, Silent
<1> QED
  BY <1>1, <1>2, <1>3, <1>4, <1>5 DEF Sends

LEMMA SilentKeeps ==
  ASSUME UnitInv, ReplyInv, SpokenInv, WireInv, Lasting, Silent
  PROVE  HeadInv' /\ PipeInv'
<1>1. /\ said.phase \in {"start", "body", "ended", "cut"}
      /\ said'.limit = said.limit /\ said'.bytes = said.bytes
      /\ said'.phase = said.phase \/ (said'.phase = "cut" /\ said.phase # "ended")
  BY Closed DEF Silent, UnitInv, UnitTyped
<1>2. /\ frames' = frames /\ (died => died')
      /\ stage = "finalized" => stage' = "finalized" /\ sent_body' = sent_body
      /\ UNCHANGED <<reply, conn, framed, staged, pump, encoded>>
  BY DEF Silent, Lasting, body, wire
<1>3. ASSUME conn = "head", frames = <<>>, ~sender'
      PROVE  died
  <2>1. reply # "none"
    BY <1>3 DEF ReplyInv, HolderInv
  <2>2. CASE ~sender
    BY <1>3, <2>2 DEF WireInv, HeadInv
  <2>3. CASE sender
    <3>0. sender' # sender
      BY <1>3, <2>3, Zenon
    <3>1. php = "closing" \/ (php = "leaving" /\ todo = <<>>)
      BY <2>1, <3>0 DEF Silent
    <3>2. said.phase \notin {"body", "ended"}
      BY <1>3 DEF WireInv, HeadInv
    <3>3. php # "closing"
      BY <2>1, <3>2 DEF SpokenInv, TellInv
    <3>4. said.phase # "cut"
      BY <2>3, <3>1, <3>3 DEF UnitInv, OrderInv
    <3> QED
      BY <1>1, <2>1, <2>3, <3>1, <3>2, <3>3, <3>4 DEF SpokenInv, TellInv
  <2> QED
    BY <2>2, <2>3
<1>4. HeadInv'
  BY <1>1, <1>2, <1>3 DEF WireInv, HeadInv
<1>5. PipeInv'
  BY <1>1, <1>2 DEF WireInv, PipeInv, TailInv, Live, Held
<1> QED
  BY <1>4, <1>5

LEMMA SpeakingKeeps ==
  ASSUME UnitInv, ReplyInv, SpokenInv, WireInv, Lasting, Speaking
  PROVE  HeadInv' /\ PipeInv'
<1> DEFINE f == Head(todo)
<1>1. /\ f.kind = "head" => said.phase = "start"
      /\ f.kind # "head" => said.phase = "body"
      /\ f.kind = "end" /\ ~f.truncated /\ said.limit = Unknown =>
           stage = "finalized" /\ said.bytes = sent_body
  BY PutFits DEF Speaking
<1>2. f \in Frames /\ f.kind \in {"head", "chunk", "file", "end"}
  BY Next1 DEF Speaking, UnitInv
<1>3. /\ frames' = Append(frames, f) /\ said' = Said(f) /\ reply # "none"
      /\ stage = "finalized" => stage' = "finalized" /\ sent_body' = sent_body
      /\ UNCHANGED <<reply, conn, framed, staged, pump, encoded>>
  BY DEF Speaking, Put, Lasting, body, wire
<1>4. /\ f.kind = "head" => /\ said'.phase = "body" /\ said'.bytes = said.bytes
                            /\ said'.limit = IF f.bodiless THEN 0 ELSE f.length
      /\ f.kind = "end" => /\ said'.phase = "ended" /\ said'.bytes = said.bytes
                           /\ said'.limit = said.limit
      /\ f.kind \in {"chunk", "file"} =>
           /\ said'.phase = "body" /\ said'.limit = said.limit
           /\ said'.bytes = said.bytes + f.len
  BY <1>1, <1>2, <1>3, SaidOf DEF UnitInv
<1>5. said.bytes \in Nat /\ said'.bytes = said.bytes + Weight(f)
  BY <1>2, <1>4 DEF UnitInv, UnitTyped, Weight
<1> HIDE DEF f
<1>6. /\ frames \in Seq(Frames) /\ Len(frames) \in Nat
      /\ Len(frames') = Len(frames) + 1 /\ frames' # <<>>
      /\ \A i \in 1 .. Len(frames) : frames'[i] = frames[i]
      /\ frames'[Len(frames) + 1] = f
  BY <1>2, <1>3, AppendProperties DEF ReplyInv, ReplyTyped
<1>7. HeadInv'
  <2>1. said'.phase # "start"
    BY <1>2, <1>4
  <2>2. ASSUME conn = "head"
        PROVE  /\ frames'[1].kind = "head"
               /\ said'.limit = IF frames'[1].bodiless THEN 0 ELSE frames'[1].length
    <3>1. CASE frames = <<>>
      <4>1. f.kind = "head" /\ Len(frames) = 0
        BY <1>1, <2>2, <3>1 DEF WireInv, HeadInv
      <4> QED
        BY <1>4, <1>6, <4>1
    <3>2. CASE frames # <<>>
      <4>1. f.kind # "head"
        BY <1>1, <1>3, <3>2 DEF WireInv, HeadInv
      <4>2. said'.limit = said.limit
        BY <1>2, <1>4, <4>1
      <4>3. 1 \in 1 .. Len(frames)
        BY <1>6, <3>2
      <4>4. frames'[1] = frames[1]
        BY <1>6, <4>3
      <4> QED
        BY <2>2, <3>2, <4>2, <4>4 DEF WireInv, HeadInv
    <3> QED
      BY <3>1, <3>2
  <2> QED
    BY <1>3, <1>6, <2>1, <2>2 DEF WireInv, HeadInv
<1>8. PipeInv'
  <2> SUFFICES ASSUME Live PROVE PipeInv'
    BY <1>3 DEF PipeInv, Live
  <2>1. conn # "head" => framed = said'.limit
    BY <1>1, <1>2, <1>3, <1>4 DEF WireInv, HeadInv, PipeInv
  <2>2. Adds(frames', encoded.bytes + pump + Held, said'.bytes)
    <3>1. Adds(frames, encoded.bytes + pump + Held, said.bytes)
      BY DEF WireInv, PipeInv
    <3>2. Adds(Append(frames, f), encoded.bytes + pump + Held, said.bytes + Weight(f))
      BY <1>2, <1>5, <1>6, <3>1, AddsPut
    <3> QED
      BY <1>3, <1>5, <3>2
  <2>3. ASSUME NEW i \in 1 .. Len(frames'), frames'[i].kind = "end"
        PROVE  /\ i = Len(frames') /\ said'.phase = "ended"
               /\ ~frames'[i].truncated /\ said'.limit = Unknown =>
                    stage' = "finalized" /\ said'.bytes = sent_body'
    <3>1. CASE i \in 1 .. Len(frames)
      <4>1. said.phase = "ended"
        BY <1>6, <2>3, <3>1 DEF WireInv, PipeInv, TailInv
      <4> QED
        BY <1>1, <4>1
    <3>2. CASE i = Len(frames) + 1
      <4>1. f.kind = "end" /\ frames'[i] = f
        BY <1>6, <2>3, <3>2
      <4> QED
        BY <1>1, <1>3, <1>4, <1>6, <3>2, <4>1
    <3> QED
      BY <1>6, <3>1, <3>2
  <2>4. staged # NoFrame => framed # Unknown
    BY DEF WireInv, PipeInv
  <2> QED
    BY <1>3, <2>1, <2>2, <2>3, <2>4 DEF PipeInv, TailInv, Held
<1> QED
  BY <1>7, <1>8

LEMMA WireSteps ==
  ASSUME UnitInv, ReplyInv, SpokenInv, WireInv, Call \/ Sends
  PROVE  WireInv'
<1>1. Lasting /\ (Silent \/ Speaking)
  BY CallLasts, SendsLast
<1>2. HeadInv' /\ PipeInv'
  BY <1>1, SilentKeeps, SpeakingKeeps
<1>3. LastInv' /\ CompleteIsWhole'
  BY <1>1 DEF Lasting, body, wire, WireInv, LastInv, CompleteIsWhole
<1> QED
  BY <1>2, <1>3 DEF WireInv

-----------------------------------------------------------------------------
(* What the connection, the drain and the client do to it.                 *)

\* A reply whose receiver is gone has none ever after.
LEMMA AnswersSpeak ==
  ASSUME UnitInv, ReplyInv, SpokenInv, Answers
  PROVE  SpokenInv'
<1>1. UNCHANGED producer
  BY AnswersKeep
<1>2. reply = "none" => reply' = "none"
  BY DEF Answers, Serve, TakeHead, BadGateway, HandOver, StageFrame, Respond, Poll, PollStaged,
         PollFrame, PollOver, PumpSlice, BodyDone, Drain, DrainFrame, DrainOver, DrainClosed,
         DropReply, DropBody, Draining, Polled, FlushSocket, WriteTimeout, EndConnection,
         MarkClosed, StopReading, ReplyInv, HolderInv
<1>3. UNCHANGED <<stage, sent_body, bodiless, discarded, sender, php, todo, died, said>>
  BY <1>1 DEF producer, unit, thread
<1>4. DeadInv' /\ StreamInv' /\ LeaveInv'
  BY <1>2, <1>3 DEF SpokenInv, DeadInv, StreamInv, LeaveInv, IsHead, IsEnd, Rest
<1>5. TellInv'
  BY <1>2, <1>3 DEF SpokenInv, TellInv, IsHead, IsBody, Rest
<1> QED
  BY <1>4, <1>5 DEF SpokenInv

\* The steps that touch neither channel nor body.
LEMMA PassiveKeeps ==
  ASSUME WireInv, FlushSocket \/ MarkClosed \/ StopReading \/ Finished \/ UNCHANGED vars
  PROVE  WireInv'
<1>1. /\ UNCHANGED <<stage, sent_body, discarded, sender, died, said, frames, reply, framed, staged,
                     pump, encoded>>
      /\ conn' = conn \/ (conn = "dropped" /\ conn' = "closed")
  BY DEF FlushSocket, MarkClosed, StopReading, Finished, vars, producer, unit, thread, body, wire,
         socket
<1>2. HeadInv'
  BY <1>1 DEF WireInv, HeadInv
<1>3. PipeInv'
  BY <1>1 DEF WireInv, PipeInv, TailInv, Live, Held
<1>4. LastInv' /\ CompleteIsWhole'
  BY <1>1 DEF WireInv, LastInv, CompleteIsWhole
<1> QED
  BY <1>2, <1>3, <1>4 DEF WireInv

\* The connection lets go of the reply, and hyper has what it had.
LEMMA LettingGo ==
  ASSUME WireInv, UNCHANGED <<producer, framed, encoded>>,
         ~Live', conn' \notin {"head", "staging"},
         reply' # "none" => reply # "none" /\ conn # "head"
  PROVE  WireInv'
<1>1. UNCHANGED <<stage, sent_body, discarded, died, said>>
  BY DEF producer, unit, thread
<1>2. HeadInv' /\ PipeInv' /\ LastInv'
  BY <1>1 DEF WireInv, HeadInv, PipeInv, LastInv
<1>3. CompleteIsWhole'
  BY <1>1 DEF WireInv, CompleteIsWhole
<1> QED
  BY <1>2, <1>3 DEF WireInv

LEMMA DropsKeep ==
  ASSUME ReplyInv, WireInv, HandOver \/ BodyDone \/ EndConnection \/ Drain
  PROVE  WireInv'
<1>1. CASE HandOver
  <2>1. reply' \in {"none", "drain"} /\ conn' = "respond" /\ conn = "hand_over" /\ reply = "serve"
    BY <1>1 DEF HandOver, SpawnDrain, ReplyInv, HolderInv
  <2>2. UNCHANGED <<producer, framed, encoded>>
    BY <1>1 DEF HandOver, body, wire
  <2> QED
    BY <2>1, <2>2, LettingGo DEF Live
<1>2. CASE BodyDone \/ EndConnection
  <2>1. /\ conn' \in {"done", "dropped"}
        /\ reply' \in {"none", "drain", "late"}
        /\ reply' # "none" => reply # "none" /\ conn # "head"
    BY <1>2 DEF BodyDone, EndConnection, DropBody, SpawnDrain, DropReply, ReplyInv, ReplyTyped,
                HolderInv
  <2>2. UNCHANGED <<producer, framed, encoded>>
    BY <1>2 DEF BodyDone, EndConnection, body, wire
  <2> QED
    BY <2>1, <2>2, LettingGo DEF Live
<1>3. CASE Drain
  <2>1. /\ conn' = conn /\ reply \in {"drain", "late"} /\ reply' \in {"none", "drain", "late"}
    BY <1>3 DEF Drain, DrainFrame, DrainOver, DrainClosed, DropReply, Draining
  <2>2. UNCHANGED <<producer, framed, encoded>>
    BY <1>3 DEF Drain, DrainFrame, DrainOver, DrainClosed, body, wire
  <2> QED
    BY <2>1, <2>2, LettingGo DEF Live, ReplyInv, HolderInv
<1> QED
  BY <1>1, <1>2, <1>3

\* The channel gives its first frame.
LEMMA TailShifts ==
  ASSUME ReplyInv, TailInv, frames # <<>>, frames' = Tail(frames),
         UNCHANGED <<stage, sent_body, said>>
  PROVE  TailInv'
<1>1. /\ frames \in Seq(Frames) /\ Len(frames) \in Nat \ {0}
  BY DEF ReplyInv, ReplyTyped
<1>2. /\ Len(frames') = Len(frames) - 1
      /\ \A i \in 1 .. Len(frames') : frames'[i] = frames[i + 1]
  BY <1>1, HeadTailProperties
<1>3. ASSUME NEW i \in 1 .. Len(frames'), frames'[i].kind = "end"
      PROVE  /\ i = Len(frames') /\ said.phase = "ended"
             /\ ~frames'[i].truncated /\ said.limit = Unknown =>
                  stage = "finalized" /\ said.bytes = sent_body
  <2>1. i \in Nat /\ i + 1 \in 1 .. Len(frames) /\ frames'[i] = frames[i + 1]
    BY <1>1, <1>2
  <2>2. i + 1 = Len(frames)
    BY <1>3, <2>1 DEF TailInv
  <2>3. i = Len(frames) - 1
    BY <1>1, <2>1, <2>2
  <2>4. i = Len(frames')
    BY <1>2, <2>3
  <2> QED
    BY <1>3, <2>1, <2>4 DEF TailInv
<1> QED
  BY <1>3 DEF TailInv

\* The frame that the connection takes adds its weight to what it holds.
LEMMA TakesFrame ==
  ASSUME UnitInv, ReplyInv, WireInv, Live, frames # <<>>
  PROVE  /\ Head(frames) \in Frames /\ Weight(Head(frames)) \in Nat /\ Head(frames) # NoFrame
         /\ Tail(frames) \in Seq(Frames)
         /\ Adds(Tail(frames), encoded.bytes + pump + Held + Weight(Head(frames)), said.bytes)
         /\ TailInv
<1>1. frames \in Seq(Frames) /\ said.bytes \in Nat
  BY DEF ReplyInv, ReplyTyped, UnitInv, UnitTyped
<1>2. Adds(frames, encoded.bytes + pump + Held, said.bytes) /\ TailInv
  BY DEF WireInv, PipeInv
<1>3. /\ Head(frames) \in Frames /\ Weight(Head(frames)) \in Nat
      /\ Adds(Tail(frames), encoded.bytes + pump + Held + Weight(Head(frames)), said.bytes)
  BY <1>1, <1>2, AddsTake
<1> QED
  BY <1>1, <1>2, <1>3, First, ExchangeConstants

LEMMA TakeHeadWires ==
  ASSUME UnitInv, ReplyInv, ReplyInv', WireInv, TakeHead
  PROVE  WireInv'
<1>1. /\ conn = "head" /\ reply = "serve" /\ reply' = reply /\ frames # <<>>
      /\ Head(frames).kind = "head" /\ frames' = Tail(frames)
      /\ framed' = (IF Head(frames).bodiless THEN 0 ELSE Head(frames).length)
      /\ conn' = (IF Head(frames).bodiless THEN "hand_over"
                  ELSE IF Head(frames).length = Unknown THEN "respond" ELSE "staging")
      /\ UNCHANGED <<staged, pump, encoded>>
  BY DEF TakeHead, HyperLength, wire, ReplyInv, HolderInv
<1>2. UNCHANGED <<stage, sent_body, discarded, sender, died, said>>
  BY DEF TakeHead, producer, unit, thread
<1>3. /\ Adds(Tail(frames), encoded.bytes + pump + Held + Weight(Head(frames)), said.bytes)
      /\ TailInv
  BY <1>1, TakesFrame DEF Live
<1>4. Head(frames) = frames[1]
  BY <1>1 DEF ReplyInv, ReplyTyped
<1>5. said.phase # "start" /\ framed' = said.limit /\ staged = NoFrame /\ pump = 0 /\ framed = Unknown
  BY <1>1, <1>4 DEF WireInv, HeadInv
<1>6. encoded.head = "none" /\ encoded.bytes = 0 /\ ~encoded.last
  BY <1>1 DEF ReplyInv, GivenInv, WireInv, LastInv
<1>7. HeadInv'
  BY <1>1, <1>2, <1>5 DEF HeadInv, Unknown
<1>8. PipeInv'
  <2>1. encoded.bytes + pump + Held + Weight(Head(frames)) = encoded'.bytes + pump' + Held'
    BY <1>1, <1>5, <1>6 DEF Held, Weight
  <2>2. Adds(frames', encoded'.bytes + pump' + Held', said'.bytes)
    BY <1>1, <1>2, <1>3, <2>1
  <2>3. TailInv'
    BY <1>1, <1>2, <1>3, TailShifts
  <2> QED
    BY <1>1, <1>2, <1>5, <2>2, <2>3 DEF PipeInv
<1>9. LastInv' /\ CompleteIsWhole'
  <2>1. framed' # Unknown => encoded'.bytes <= framed'
    BY <1>1, <1>6 DEF ReplyInv, ReplyTyped, Limit
  <2> QED
    BY <1>1, <1>6, <2>1 DEF LastInv, CompleteIsWhole
<1> QED
  BY <1>7, <1>8, <1>9 DEF WireInv

LEMMA BadGatewayWires ==
  ASSUME UnitInv, ReplyInv, WireInv, BadGateway
  PROVE  WireInv'
<1>1. /\ conn = "head" /\ reply = "serve" /\ NoHead /\ conn' = "body" /\ reply' = "none"
      /\ encoded' = [encoded EXCEPT !.head = "bad_gateway"] /\ framed' = 0
  BY DEF BadGateway, Answer, DropReply, ReplyInv, HolderInv
<1>2. UNCHANGED <<stage, sent_body, discarded, died, said>>
  BY DEF BadGateway, producer, unit, thread
<1>3. /\ encoded'.bytes = encoded.bytes /\ encoded'.last = encoded.last
      /\ encoded.bytes = 0 /\ ~encoded.last
  BY <1>1 DEF ReplyInv, ReplyTyped, Encoded, GivenInv, WireInv, LastInv
<1>4. died
  <2>1. CASE frames = <<>>
    BY <1>1, <2>1 DEF NoHead, WireInv, HeadInv
  <2>2. CASE frames # <<>>
    <3>1. Head(frames) = frames[1]
      BY <2>2 DEF ReplyInv, ReplyTyped
    <3> QED
      BY <1>1, <2>2, <3>1 DEF NoHead, WireInv, HeadInv
  <2> QED
    BY <2>1, <2>2
<1>5. HeadInv' /\ PipeInv' /\ LastInv'
  BY <1>1 DEF HeadInv, PipeInv, Live, LastInv
<1>6. CompleteIsWhole'
  BY <1>1, <1>2, <1>3, <1>4 DEF CompleteIsWhole, Unknown
<1> QED
  BY <1>5, <1>6 DEF WireInv

LEMMA StageFrameWires ==
  ASSUME UnitInv, ReplyInv, WireInv, StageFrame
  PROVE  WireInv'
<1>1. /\ conn = "staging" /\ reply = "serve" /\ conn' = "respond"
      /\ UNCHANGED <<reply, framed, pump, encoded>>
  BY DEF StageFrame, wire, ReplyInv, HolderInv
<1>2. UNCHANGED <<stage, sent_body, discarded, died, said>>
  BY DEF StageFrame, producer, unit, thread
<1>3. staged = NoFrame /\ framed # Unknown /\ framed = said.limit /\ said.phase # "start"
  BY <1>1 DEF WireInv, HeadInv, PipeInv, Live
<1>4. HeadInv'
  BY <1>1, <1>2, <1>3 DEF HeadInv
<1>5. LastInv' /\ CompleteIsWhole'
  BY <1>1, <1>2 DEF WireInv, LastInv, CompleteIsWhole
<1>6. Adds(frames', encoded'.bytes + pump' + Held', said'.bytes) /\ TailInv'
  <2>1. CASE frames # <<>> /\ staged' = Head(frames) /\ frames' = Tail(frames)
    <3>1. /\ Weight(Head(frames)) \in Nat /\ Head(frames) # NoFrame /\ TailInv
          /\ Adds(Tail(frames), encoded.bytes + pump + Held + Weight(Head(frames)), said.bytes)
      BY <1>1, <2>1, TakesFrame DEF Live
    <3>2. Held = 0 /\ Held' = Weight(Head(frames))
      BY <1>3, <2>1, <3>1 DEF Held
    <3>3. encoded.bytes \in Nat /\ pump \in Nat
      BY DEF ReplyInv, ReplyTyped, Encoded
    <3>4. encoded.bytes + pump + Held + Weight(Head(frames)) = encoded'.bytes + pump' + Held'
      BY <1>1, <3>1, <3>2, <3>3
    <3>5. TailInv'
      BY <1>2, <2>1, <3>1, TailShifts
    <3> QED
      BY <1>2, <2>1, <3>1, <3>4, <3>5
  <2>2. CASE UNCHANGED <<staged, frames>>
    BY <1>1, <1>2, <2>2 DEF WireInv, PipeInv, Live, TailInv, Held
  <2> QED
    BY <2>1, <2>2 DEF StageFrame
<1>7. PipeInv'
  BY <1>1, <1>2, <1>3, <1>6 DEF PipeInv
<1> QED
  BY <1>4, <1>5, <1>7 DEF WireInv

LEMMA RespondWires ==
  ASSUME UnitInv, ReplyInv, WireInv, Respond
  PROVE  WireInv'
<1>1. /\ conn = "respond" /\ conn' = "body" /\ encoded' = [encoded EXCEPT !.head = "php"]
      /\ reply' = (IF reply = "serve" THEN "body" ELSE reply)
      /\ UNCHANGED <<frames, framed, staged, pump>>
  BY DEF Respond, Answer, body
<1>2. UNCHANGED <<stage, sent_body, discarded, died, said>>
  BY DEF Respond, producer, unit, thread
<1>3. encoded'.bytes = encoded.bytes /\ encoded'.last = encoded.last /\ encoded'.head = "php"
  BY <1>1 DEF ReplyInv, ReplyTyped, Encoded
<1>4. HeadInv'
  BY <1>1, <1>2 DEF WireInv, HeadInv
<1>5. PipeInv'
  BY <1>1, <1>2, <1>3 DEF WireInv, PipeInv, TailInv, Live, Held
<1>6. LastInv' /\ CompleteIsWhole'
  BY <1>1, <1>2, <1>3 DEF WireInv, LastInv, CompleteIsWhole
<1> QED
  BY <1>4, <1>5, <1>6 DEF WireInv

\* What hyper has been given of a body, and what is on its way to it, are what
\* the stream has carried: so hyper never has more than the head announced.
LEMMA BodyMoves ==
  ASSUME UnitInv, ReplyInv', SpokenInv, WireInv, Polled,
         UNCHANGED <<producer, framed, reply, conn>>,
         encoded'.head = encoded.head, encoded'.last = encoded.last,
         staged' # NoFrame => framed # Unknown,
         Adds(frames', encoded'.bytes + pump' + Held', said.bytes), TailInv'
  PROVE  WireInv'
<1>1. conn = "body" /\ reply = "body" /\ UNCHANGED <<stage, sent_body, discarded, died, said>>
  BY DEF Polled, producer, unit, thread
<1>2. framed = said.limit /\ said.phase # "start"
  BY <1>1 DEF WireInv, PipeInv, Live, HeadInv
<1>3. HeadInv' /\ PipeInv'
  BY <1>1, <1>2 DEF HeadInv, PipeInv
<1>4. encoded'.bytes \in Nat /\ pump' \in Nat /\ Held' \in Nat
  BY Weighs DEF ReplyInv, ReplyTyped, Encoded, Held
<1>5. said.bytes \in Nat /\ frames' \in Seq(Frames)
  BY DEF UnitInv, UnitTyped, ReplyInv, ReplyTyped
<1>6. encoded'.bytes + pump' + Held' <= said.bytes
  BY <1>5, AddsUp
<1>7. framed' # Unknown => said.bytes <= framed' /\ framed' \in Nat
  BY <1>2 DEF SpokenInv, StreamInv, ReplyInv, ReplyTyped, Limit
<1>8. framed' # Unknown => encoded'.bytes <= framed'
  BY <1>4, <1>5, <1>6, <1>7
<1>9. LastInv' /\ CompleteIsWhole'
  BY <1>1, <1>8 DEF WireInv, LastInv, CompleteIsWhole
<1> QED
  BY <1>3, <1>9 DEF WireInv

\* The body of n bytes goes to hyper.
LEMMA YieldGives ==
  ASSUME ReplyInv, NEW n \in Nat, Yield(n)
  PROVE  /\ encoded'.head = encoded.head /\ encoded'.last = encoded.last
         /\ encoded'.bytes = encoded.bytes + n /\ encoded.bytes \in Nat
         /\ UNCHANGED <<reply, conn, framed>>
BY DEF Yield, ReplyInv, ReplyTyped, Encoded

LEMMA ErrorWires ==
  ASSUME WireInv, UNCHANGED producer, TerminalError
  PROVE  WireInv'
<1>1. UNCHANGED <<framed, encoded>> /\ reply' = "none" /\ conn' = "failed"
  BY DEF TerminalError, wire
<1> QED
  BY <1>1, LettingGo DEF Live

\* One frame, that was staged or is the first of the channel.
LEMMA ConsumeWires ==
  ASSUME UnitInv, ReplyInv, ReplyInv', SpokenInv, WireInv, Polled, pump = 0,
         UNCHANGED producer, NEW f \in Frames, Consume(f),
         staged' = NoFrame, TailInv',
         Adds(frames', encoded.bytes + Weight(f), said.bytes),
         framed = Unknown /\ f.kind = "end" /\ ~f.truncated =>
           stage = "finalized" /\ said.bytes = sent_body /\ encoded.bytes = said.bytes
  PROVE  WireInv'
<1>1. Held' = 0 /\ encoded.bytes \in Nat /\ reply = "body"
  BY DEF Held, ReplyInv, ReplyTyped, Encoded, Polled
<1>2. CASE f.kind = "chunk" /\ Yield(f.len) /\ UNCHANGED pump
  <2>1. f.len \in Nat /\ Weight(f) = f.len
    BY <1>2, Weighs DEF Weight
  <2>2. /\ encoded'.head = encoded.head /\ encoded'.last = encoded.last
        /\ encoded'.bytes = encoded.bytes + f.len /\ UNCHANGED <<reply, conn, framed>>
    BY <1>2, <2>1, YieldGives
  <2>3. encoded.bytes + Weight(f) = encoded'.bytes + pump' + Held'
    BY <1>1, <1>2, <2>1, <2>2
  <2> QED
    BY <2>2, <2>3, BodyMoves
<1>3. CASE f.kind = "file" /\ pump' = f.len /\ UNCHANGED <<reply, conn, framed, sent, wire>>
  <2>1. Weight(f) \in Nat /\ Weight(f) = f.len /\ encoded' = encoded
    BY <1>3, Weighs DEF Weight, wire
  <2>2. encoded.bytes + Weight(f) = encoded'.bytes + pump' + Held'
    BY <1>1, <1>3, <2>1
  <2> QED
    BY <1>3, <2>1, <2>2, BodyMoves
<1>4. CASE TerminalError
  BY <1>4, ErrorWires
<1>5. CASE /\ f.kind = "end" /\ ~CutShort(f.truncated)
           /\ encoded' = [encoded EXCEPT !.last = TRUE]
           /\ reply' = "none" /\ conn' = "done"
           /\ UNCHANGED <<framed, sent, pump, end_flush>>
  <2>1. encoded'.head = encoded.head /\ encoded'.bytes = encoded.bytes
    BY <1>5 DEF ReplyInv, ReplyTyped, Encoded
  <2>2. framed = Unknown /\ ~f.truncated
    BY <1>5 DEF CutShort, Polled, ReplyInv, GivenInv
  <2>3. stage = "finalized" /\ said.bytes = sent_body /\ encoded.bytes = said.bytes
    BY <1>5, <2>2
  <2>4. ~discarded
    BY <1>1 DEF SpokenInv, DeadInv
  <2>5. UNCHANGED <<stage, sent_body, discarded, died, said>>
    BY DEF producer, unit, thread
  <2>6. HeadInv' /\ PipeInv' /\ LastInv'
    BY <1>5 DEF HeadInv, PipeInv, Live, LastInv
  <2>7. CompleteIsWhole'
    BY <1>5, <2>1, <2>2, <2>3, <2>4, <2>5 DEF WireInv, CompleteIsWhole
  <2> QED
    BY <2>6, <2>7 DEF WireInv
<1> QED
  BY <1>2, <1>3, <1>4, <1>5 DEF Consume

LEMMA PollStagedWires ==
  ASSUME UnitInv, ReplyInv, ReplyInv', SpokenInv, WireInv, PollStaged
  PROVE  WireInv'
<1>1. /\ Polled /\ pump = 0 /\ staged # NoFrame /\ Consume(staged) /\ staged' = NoFrame
      /\ UNCHANGED <<producer, frames>>
  BY DEF PollStaged
<1>2. Live /\ staged \in Frames /\ encoded.bytes \in Nat
  BY <1>1 DEF Polled, Live, ReplyInv, ReplyTyped, Encoded
<1>3. framed # Unknown /\ TailInv /\ Adds(frames, encoded.bytes + pump + Held, said.bytes)
  BY <1>1, <1>2 DEF WireInv, PipeInv
<1>4. Adds(frames', encoded.bytes + Weight(staged), said.bytes)
  <2>1. Weight(staged) \in Nat
    BY <1>2, Weighs
  <2>2. encoded.bytes + pump + Held = encoded.bytes + Weight(staged)
    BY <1>1, <1>2, <2>1 DEF Held
  <2> QED
    BY <1>1, <1>3, <2>2
<1>5. TailInv'
  BY <1>1, <1>3 DEF TailInv, producer, unit
<1> QED
  BY <1>1, <1>2, <1>3, <1>4, <1>5, ConsumeWires

LEMMA PollFrameWires ==
  ASSUME UnitInv, ReplyInv, ReplyInv', SpokenInv, WireInv, PollFrame
  PROVE  WireInv'
<1> DEFINE f == Head(frames)
<1>1. /\ Polled /\ pump = 0 /\ staged = NoFrame /\ frames # <<>> /\ Consume(f)
      /\ frames' = Tail(frames) /\ UNCHANGED <<producer, staged>>
  BY DEF PollFrame
<1>2. Live /\ conn # "head" /\ encoded.bytes \in Nat
  BY <1>1 DEF Polled, Live, ReplyInv, ReplyTyped, Encoded
<1>3. /\ f \in Frames /\ Weight(f) \in Nat /\ TailInv /\ Tail(frames) \in Seq(Frames)
      /\ Adds(Tail(frames), encoded.bytes + pump + Held + Weight(f), said.bytes)
  BY <1>1, <1>2, TakesFrame
<1>4. Adds(frames', encoded.bytes + Weight(f), said.bytes)
  <2>1. encoded.bytes + pump + Held + Weight(f) = encoded.bytes + Weight(f)
    BY <1>1, <1>2, <1>3 DEF Held
  <2> QED
    BY <1>1, <1>3, <2>1
<1>5. TailInv'
  BY <1>1, <1>3, TailShifts DEF producer, unit
<1>6. ASSUME framed = Unknown, f.kind = "end", ~f.truncated
      PROVE  stage = "finalized" /\ said.bytes = sent_body /\ encoded.bytes = said.bytes
  <2>1. said.limit = Unknown
    BY <1>2, <1>6 DEF WireInv, PipeInv
  <2>2. frames \in Seq(Frames) /\ Len(frames) \in Nat /\ 1 \in 1 .. Len(frames) /\ f = frames[1]
    BY <1>1 DEF ReplyInv, ReplyTyped
  <2>3. Len(frames) = 1 /\ stage = "finalized" /\ said.bytes = sent_body
    BY <1>3, <1>6, <2>1, <2>2 DEF TailInv
  <2>4. Tail(frames) = <<>>
    <3>1. Tail(frames) \in Seq(Frames) /\ Len(Tail(frames)) = 0
      BY <2>2, <2>3, <1>1, HeadTailProperties
    <3> QED
      BY <3>1, EmptySeq
  <2>5. said.bytes \in Nat /\ Weight(f) = 0
    BY <1>6 DEF UnitInv, UnitTyped, Weight
  <2>6. encoded.bytes + Weight(f) = said.bytes
    BY <1>1, <1>3, <1>4, <2>4, <2>5, AddsUp
  <2> QED
    BY <1>2, <2>3, <2>5, <2>6
<1> HIDE DEF f
<1> QED
  BY <1>1, <1>3, <1>4, <1>5, <1>6, ConsumeWires

LEMMA PumpSliceWires ==
  ASSUME UnitInv, ReplyInv, ReplyInv', SpokenInv, WireInv, PumpSlice
  PROVE  WireInv'
<1>1. Polled /\ UNCHANGED <<producer, frames, staged>>
  BY DEF PumpSlice
<1>2. CASE TerminalError
  BY <1>1, <1>2, ErrorWires
<1>3. CASE \E n \in 1 .. pump : pump' = pump - n /\ Yield(n)
  <2>1. PICK n \in 1 .. pump : pump' = pump - n /\ Yield(n)
    BY <1>3
  <2>2. pump \in Nat /\ n \in Nat
    BY <2>1 DEF ReplyInv, ReplyTyped
  <2>3. /\ encoded'.head = encoded.head /\ encoded'.last = encoded.last
        /\ encoded'.bytes = encoded.bytes + n /\ encoded.bytes \in Nat
        /\ UNCHANGED <<reply, conn, framed>>
    BY <2>1, <2>2, YieldGives
  <2>4. /\ staged # NoFrame => framed # Unknown
        /\ Adds(frames, encoded.bytes + pump + Held, said.bytes) /\ TailInv
    BY <1>1 DEF WireInv, PipeInv, Live, Polled
  <2>5. Held' = Held /\ Held \in Nat
    BY <1>1, Weighs DEF Held, ReplyInv, ReplyTyped
  <2>6. encoded.bytes + pump + Held = encoded'.bytes + pump' + Held'
    BY <2>1, <2>2, <2>3, <2>5
  <2>7. TailInv'
    BY <1>1, <2>4 DEF TailInv, producer, unit
  <2> QED
    BY <1>1, <2>3, <2>4, <2>6, <2>7, BodyMoves
<1> QED
  BY <1>2, <1>3 DEF PumpSlice

LEMMA AnswersWire ==
  ASSUME UnitInv, ReplyInv, SpokenInv, WireInv, Answers
  PROVE  WireInv'
<1>1. ReplyInv'
  BY AnswersKeep
<1>2. CASE Serve
  BY <1>1, <1>2, TakeHeadWires, BadGatewayWires, DropsKeep, StageFrameWires, RespondWires DEF Serve
<1>3. CASE PollOver
  BY <1>3, ErrorWires DEF PollOver
<1>4. CASE Poll
  BY <1>1, <1>3, <1>4, PollStagedWires, PollFrameWires, PumpSliceWires, DropsKeep DEF Poll
<1>5. CASE Drain \/ EndConnection \/ WriteTimeout
  BY <1>5, DropsKeep DEF WriteTimeout
<1>6. CASE FlushSocket \/ MarkClosed \/ StopReading
  BY <1>6, PassiveKeeps
<1> QED
  BY <1>2, <1>4, <1>5, <1>6 DEF Answers

-----------------------------------------------------------------------------

WholeInv == SpokenInv /\ WireInv

LEMMA InitWires == Init => WholeInv
<1> SUFFICES ASSUME Init PROVE WholeInv
  OBVIOUS
<1>1. SpokenInv
  BY DEF Init, SpokenInv, DeadInv, StreamInv, TellInv, LeaveInv, Rest
<1>2. HeadInv
  BY DEF Init, HeadInv
<1>3. PipeInv
  <2>1. Adds(<<>>, 0, 0) /\ frames = <<>> /\ encoded.bytes + pump + Held = 0 /\ said.bytes = 0
    BY AddsNothing DEF Init, Held
  <2> QED
    BY <2>1 DEF Init, PipeInv, TailInv
<1>4. LastInv /\ CompleteIsWhole
  BY DEF Init, LastInv, CompleteIsWhole
<1> QED
  BY <1>1, <1>2, <1>3, <1>4 DEF WholeInv, WireInv

LEMMA NextWires == IInv /\ WholeInv /\ [Next]_vars => WholeInv'
<1> SUFFICES ASSUME UnitInv, ReplyInv, SpokenInv, WireInv, [Next]_vars
             PROVE  SpokenInv' /\ WireInv'
  BY DEF IInv, WholeInv
<1>1. CASE Call \/ Sends
  <2>1. SpokenInv'
    BY <1>1, SpokenSteps DEF WireInv
  <2>2. WireInv'
    BY <1>1, WireSteps
  <2> QED
    BY <2>1, <2>2
<1>2. CASE Answers
  BY <1>2, AnswersSpeak, AnswersWire
<1>3. CASE Finished \/ UNCHANGED vars
  <2>1. UNCHANGED <<stage, sent_body, bodiless, discarded, sender, php, todo, died, said, reply>>
    BY <1>3 DEF Finished, vars, unit, thread
  <2>2. SpokenInv'
    BY <2>1 DEF SpokenInv, DeadInv, StreamInv, TellInv, LeaveInv, IsHead, IsBody, IsEnd, Rest
  <2> QED
    BY <1>3, <2>2, PassiveKeeps
<1> QED
  BY <1>1, <1>2, <1>3 DEF Next, Answers

\* A response that the client sees as complete is complete, for every channel,
\* buffer and body: hyper never has more bytes than the head announced, the last
\* chunk follows all that PHP wrote to a unit that it sealed, and a 502 means that
\* the cycle died (bridge.rs, ReplyBody::poll_frame; handler.rs, serve_php;
\* php/respond.rs, seal).
THEOREM CompleteResponsesAreWhole == Spec => []CompleteIsWhole
<1>1. WholeInv => CompleteIsWhole
  BY DEF WholeInv, WireInv
<1> QED
  BY <1>1, InitWires, NextWires, ExchangeInvariance, PTL DEF Spec
=============================================================================
