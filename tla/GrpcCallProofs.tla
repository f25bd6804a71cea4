--------------------------- MODULE GrpcCallProofs ---------------------------
(***************************************************************************)
(* Proofs about GrpcCall, for every set of calls and every capacity: each  *)
(* call implements UnaryRpc, is counted once, its reply carries what the   *)
(* script added, and the bytes it reserved return.                         *)
(*                                                                         *)
(* A call's ends race, but its state stays in few combinations: the        *)
(* inductive invariant says what the stage of the task and the stage of    *)
(* the script's object allow of the two channel ends, the channel, what    *)
(* the script was told and what was counted.                               *)
(***************************************************************************)
EXTENDS GrpcCall, SumTheorems, TLAPS

TaskStage == {"new", "reading", "message", "slot", "reply", "closing", "done"}
ObjStage == {"none", "queued", "held", "sending", "freed", "swept"}
Verdicts == {"none", "unavailable", "read_error", "idle", "unimplemented", "invalid", "lost",
             "message", "undecodable", "status", "refused", "deadline", "left"}
Replies == [outcome : {"message", "status", "refused"}, fields : Nat]

TaskTyped ==
  /\ task \in [Calls -> TaskStage]
  /\ verdict \in [Calls -> Verdicts]
  /\ error \in [Calls -> {"none", "idle", "unavailable"}]
  /\ receiver \in [Calls -> BOOLEAN]

UnitTyped ==
  /\ obj \in [Calls -> ObjStage]
  /\ sender \in [Calls -> BOOLEAN]
  /\ chan \in [Calls -> Replies \cup {NoReply}]
  /\ discarded \in [Calls -> BOOLEAN]
  /\ fields \in [Calls -> Nat]
  /\ told \in [Calls -> {"nothing", "ok", "discarded"}]

CountTyped == handled \in [Calls -> Nat] /\ shed \in [Calls -> Nat]

QueueTyped == queue \in Seq(Calls) /\ stop \in 0 .. 2 /\ unit \in Calls \cup {NoCall}

Typed == TaskTyped /\ UnitTyped /\ CountTyped /\ QueueTyped

\* The entries of the channel are distinct queued calls.
QueueInv ==
  /\ \A i \in 1 .. Len(queue) : obj[queue[i]] = "queued"
  /\ \A i, j \in 1 .. Len(queue) : queue[i] = queue[j] => i = j

UnitInv == unit # NoCall => obj[unit] \in {"held", "sending"}

\* How far the task is, and what it owns there.
TaskInv(c) ==
  /\ receiver[c] <=> task[c] \in {"slot", "reply"}
  /\ verdict[c] = "none" <=> task[c] \notin {"closing", "done"}
  /\ task[c] \in {"new", "reading", "message", "slot"} => obj[c] = "none"
  /\ task[c] = "reply" => obj[c] # "none"
  /\ error[c] # "none" => /\ obj[c] = "none" /\ task[c] \in {"closing", "done"}
                          /\ verdict[c] \in {"read_error", error[c]}

SenderInv(c) ==
  /\ obj[c] = "none" => (sender[c] <=> task[c] = "slot")
  /\ obj[c] = "queued" => sender[c]
  /\ obj[c] \in {"sending", "freed", "swept"} => ~sender[c]

\* An answer is in the channel.
Answered(c) == chan[c] # NoReply /\ chan[c].outcome # "refused"

\* The script's answer, what it was told of it, and what the channel holds.
AnswerInv(c) ==
  /\ sender[c] \/ obj[c] \in {"none", "queued", "sending", "swept"} =>
       told[c] = "nothing" /\ chan[c] = NoReply /\ ~discarded[c]
  /\ obj[c] = "held" /\ ~sender[c] /\ ~discarded[c] => told[c] = "ok"
  /\ told[c] = "ok" <=> Answered(c)
  /\ Answered(c) => chan[c].fields = fields[c] /\ ~discarded[c]
  /\ chan[c] # NoReply /\ chan[c].outcome = "refused" => obj[c] = "freed"
  /\ told[c] = "discarded" => discarded[c]

\* Who finds the receiver gone finds it dropped by a deadline or a departure.
GoneInv(c) ==
  /\ discarded[c] => ~receiver[c]
  /\ obj[c] # "none" /\ ~receiver[c] /\ (sender[c] \/ obj[c] = "sending" \/ discarded[c]) =>
       verdict[c] \in {"deadline", "left"}

CountInv(c) ==
  handled[c] + shed[c] = IF obj[c] = "freed" \/ (obj[c] = "held" /\ ~sender[c]) THEN 1 ELSE 0

CallInv(c) == TaskInv(c) /\ SenderInv(c) /\ AnswerInv(c) /\ GoneInv(c) /\ CountInv(c)

IInv == Typed /\ QueueInv /\ UnitInv /\ \A c \in Calls : CallInv(c)

-----------------------------------------------------------------------------
(* A step moves one call at a time.                                        *)

Same(d) ==
  /\ task'[d] = task[d] /\ verdict'[d] = verdict[d] /\ error'[d] = error[d]
  /\ obj'[d] = obj[d] /\ sender'[d] = sender[d] /\ receiver'[d] = receiver[d]
  /\ chan'[d] = chan[d] /\ discarded'[d] = discarded[d] /\ fields'[d] = fields[d]
  /\ told'[d] = told[d] /\ handled'[d] = handled[d] /\ shed'[d] = shed[d]

OthersSame(c) == \A d \in Calls \ {c} : Same(d)

LEMMA SameKeeps ==
  ASSUME NEW d \in Calls, CallInv(d), Same(d)
  PROVE  CallInv(d)'
BY DEF Same, CallInv, TaskInv, SenderInv, AnswerInv, Answered, GoneInv, CountInv

LEMMA MoveKeeps ==
  ASSUME IInv, NEW c \in Calls, Typed', QueueInv', UnitInv', CallInv(c)',
         OthersSame(c)
  PROVE  IInv' /\ OthersSame(c)
BY SameKeeps DEF IInv, OthersSame

\* The channel and the unit slot look at the stage of an object only.
LEMMA QueueKeeps ==
  ASSUME IInv, NEW c \in Calls, queue' = queue, unit' = unit,
         \A d \in Calls \ {c} : obj'[d] = obj[d],
         obj'[c] = obj[c] \/ (obj[c] \in {"held", "sending"} /\ obj'[c] \in {"held", "sending"})
  PROVE  QueueInv' /\ UnitInv'
<1>1. \A i \in 1 .. Len(queue) : queue[i] \in Calls
  BY DEF IInv, Typed, TaskTyped, UnitTyped, CountTyped, QueueTyped
<1>2. QueueInv'
  BY <1>1 DEF IInv, QueueInv
<1>3. UnitInv'
  BY DEF IInv, Typed, TaskTyped, UnitTyped, CountTyped, QueueTyped, UnitInv
<1> QED
  BY <1>2, <1>3

\* A call that is put into the channel was not there.
LEMMA EnqueueKeeps ==
  ASSUME IInv, NEW c \in Calls, obj[c] = "none", obj' = [obj EXCEPT ![c] = "queued"],
         queue' = Append(queue, c), unit' = unit
  PROVE  QueueInv' /\ UnitInv'
<1>1. /\ queue' \in Seq(Calls) /\ Len(queue') = Len(queue) + 1
      /\ \A i \in 1 .. Len(queue) : queue'[i] = queue[i] /\ queue[i] \in Calls
      /\ queue'[Len(queue) + 1] = c
  BY DEF IInv, Typed, TaskTyped, UnitTyped, CountTyped, QueueTyped
<1>2. \A d \in Calls : obj'[d] = IF d = c THEN "queued" ELSE obj[d]
  BY DEF IInv, Typed, TaskTyped, UnitTyped, CountTyped, QueueTyped
<1>3. \A i \in 1 .. Len(queue) : queue[i] # c
  BY DEF IInv, QueueInv
<1>4. QueueInv'
  <2>1. Len(queue) \in Nat /\ \A i \in 1 .. Len(queue') : i \in 1 .. Len(queue) \/ i = Len(queue) + 1
    BY <1>1 DEF IInv, Typed, TaskTyped, UnitTyped, CountTyped, QueueTyped
  <2>2. \A i \in 1 .. Len(queue') : obj'[queue'[i]] = "queued"
    BY <1>1, <1>2, <2>1 DEF IInv, QueueInv
  <2>3. \A i, j \in 1 .. Len(queue') : queue'[i] = queue'[j] => i = j
    BY <1>1, <1>3, <2>1 DEF IInv, QueueInv
  <2> QED
    BY <2>2, <2>3 DEF QueueInv
<1>5. UnitInv'
  BY <1>2 DEF IInv, Typed, TaskTyped, UnitTyped, CountTyped, QueueTyped, UnitInv
<1> QED
  BY <1>4, <1>5

\* The head of the channel is a queued call, and only its head is that call.
LEMMA HeadOwned ==
  ASSUME IInv, NEW c \in Calls, Dequeue(c)
  PROVE  /\ obj[c] = "queued" /\ queue' \in Seq(Calls)
         /\ \A i \in 1 .. Len(queue') : i + 1 \in 1 .. Len(queue) /\ queue'[i] = queue[i + 1] /\ queue'[i] # c
<1>1. queue # <<>> /\ queue \in Seq(Calls) /\ c = queue[1] /\ queue' = Tail(queue)
  BY DEF Dequeue, IInv, Typed, TaskTyped, UnitTyped, CountTyped, QueueTyped
<1>2. Len(queue) \in Nat \ {0} /\ queue' \in Seq(Calls) /\ Len(queue') = Len(queue) - 1
  BY <1>1
<1>3. \A i \in 1 .. Len(queue') : i + 1 \in 1 .. Len(queue) /\ queue'[i] = queue[i + 1]
  BY <1>1, <1>2
<1>4. obj[c] = "queued"
  BY <1>1, <1>2 DEF IInv, QueueInv
<1>5. \A i \in 1 .. Len(queue') : queue'[i] # c
  BY <1>1, <1>2, <1>3 DEF IInv, QueueInv
<1> QED
  BY <1>2, <1>3, <1>4, <1>5

LEMMA DequeueKeeps ==
  ASSUME IInv, NEW c \in Calls, Dequeue(c), \A d \in Calls \ {c} : obj'[d] = obj[d],
         unit' = unit \/ (unit' = c /\ obj'[c] = "held")
  PROVE  QueueInv' /\ UnitInv'
<1>1. QueueInv'
  BY HeadOwned DEF IInv, QueueInv
<1>2. UnitInv'
  BY HeadOwned DEF IInv, Typed, TaskTyped, UnitTyped, CountTyped, QueueTyped, UnitInv
<1> QED
  BY <1>1, <1>2

-----------------------------------------------------------------------------
(* The listener.                                                           *)

LEMMA InitKeeps == Init => IInv
BY CallConstants
DEF Init, IInv, Typed, TaskTyped, UnitTyped, CountTyped, QueueTyped, QueueInv, UnitInv, CallInv,
    TaskInv, SenderInv, AnswerInv, Answered, GoneInv,
    CountInv, TaskStage, ObjStage, Verdicts

LEMMA ArriveKeeps ==
  ASSUME IInv, NEW c \in Calls, Arrive(c)
  PROVE  IInv' /\ OthersSame(c)
<1>1. Typed'
  BY CallConstants
  DEF Arrive, IInv, Typed, TaskTyped, UnitTyped, CountTyped, QueueTyped, Step, At, state,
      counts, TaskStage, Verdicts
<1>2. OthersSame(c)
  BY DEF Arrive, IInv, Typed, TaskTyped, UnitTyped, CountTyped, QueueTyped, OthersSame, Same,
         Step, At, state, counts, TaskStage, Verdicts
<1>3. CallInv(c)'
  <2>1. task[c] = "new" /\ obj[c] = "none" /\ error[c] = "none"
    BY DEF Arrive, At, IInv, CallInv, TaskInv
  <2>2. /\ \/ task'[c] = "reading" /\ verdict'[c] = verdict[c]
           \/ task'[c] = "done" /\ verdict'[c] = "unavailable"
        /\ UNCHANGED <<error, obj, receiver, chan, state, counts>>
    BY DEF Arrive, Step, IInv, Typed, TaskTyped, UnitTyped, CountTyped, QueueTyped
  <2> QED
    BY <2>1, <2>2
    DEF IInv, CallInv, TaskInv, SenderInv, AnswerInv, Answered, GoneInv, CountInv, state, counts
<1>4. QueueInv' /\ UnitInv'
  BY QueueKeeps DEF Arrive, Step, At, state, counts, TaskStage, Verdicts
<1> QED
  BY <1>1, <1>2, <1>3, <1>4, MoveKeeps

LEMMA FrameKeeps ==
  ASSUME IInv, NEW c \in Calls, Frame(c)
  PROVE  IInv' /\ OthersSame(c)
<1>1. Typed'
  BY CallConstants
  DEF Frame, IInv, Typed, TaskTyped, UnitTyped, CountTyped, QueueTyped, Step, At, Outcome,
      state, counts, TaskStage, Verdicts
<1>2. OthersSame(c)
  BY DEF Frame, IInv, Typed, TaskTyped, UnitTyped, CountTyped, QueueTyped, OthersSame, Same,
         Step, At, Outcome, state, counts, TaskStage, Verdicts
<1>3. CallInv(c)'
  BY CallConstants
  DEF Frame, IInv, Typed, TaskTyped, UnitTyped, CountTyped, QueueTyped, CallInv, TaskInv,
      SenderInv, AnswerInv, Answered, GoneInv, CountInv, Step, At, Outcome, state, counts,
      TaskStage, Verdicts
<1>4. QueueInv' /\ UnitInv'
  BY QueueKeeps DEF Frame, Step, At, Outcome, state, counts, TaskStage, Verdicts
<1> QED
  BY <1>1, <1>2, <1>3, <1>4, MoveKeeps

LEMMA ReadFailsKeeps ==
  ASSUME IInv, NEW c \in Calls, ReadFails(c)
  PROVE  IInv' /\ OthersSame(c)
<1>1. Typed'
  BY CallConstants
  DEF ReadFails, IInv, Typed, TaskTyped, UnitTyped, CountTyped, QueueTyped, Step, At, Outcome,
      state, counts, TaskStage, Verdicts
<1>2. OthersSame(c)
  BY DEF ReadFails, IInv, Typed, TaskTyped, UnitTyped, CountTyped, QueueTyped, OthersSame, Same,
         Step, At, Outcome, state, counts, TaskStage, Verdicts
<1>3. CallInv(c)'
  BY CallConstants
  DEF ReadFails, IInv, Typed, TaskTyped, UnitTyped, CountTyped, QueueTyped, CallInv, TaskInv,
      SenderInv, AnswerInv, Answered, GoneInv, CountInv, Step, At, Outcome, state, counts,
      TaskStage, Verdicts
<1>4. QueueInv' /\ UnitInv'
  BY QueueKeeps DEF ReadFails, Step, At, Outcome, state, counts, TaskStage, Verdicts
<1> QED
  BY <1>1, <1>2, <1>3, <1>4, MoveKeeps

LEMMA DispatchKeeps ==
  ASSUME IInv, NEW c \in Calls, Dispatch(c)
  PROVE  IInv' /\ OthersSame(c)
<1>1. Typed'
  BY CallConstants
  DEF Dispatch, IInv, Typed, TaskTyped, UnitTyped, CountTyped, QueueTyped, Step, At, Outcome,
      state, counts, TaskStage, Verdicts
<1>2. OthersSame(c)
  BY DEF Dispatch, IInv, Typed, TaskTyped, UnitTyped, CountTyped, QueueTyped, OthersSame, Same,
         Step, At, Outcome, state, counts, TaskStage, Verdicts
<1>3. CallInv(c)'
  BY CallConstants
  DEF Dispatch, IInv, Typed, TaskTyped, UnitTyped, CountTyped, QueueTyped, CallInv, TaskInv,
      SenderInv, AnswerInv, Answered, GoneInv, CountInv, Step, At, Outcome, state, counts,
      TaskStage, Verdicts
<1>4. QueueInv' /\ UnitInv'
  BY QueueKeeps DEF Dispatch, Step, At, Outcome, state, counts, TaskStage, Verdicts
<1> QED
  BY <1>1, <1>2, <1>3, <1>4, MoveKeeps

LEMMA TakeReplyKeeps ==
  ASSUME IInv, NEW c \in Calls, TakeReply(c)
  PROVE  IInv' /\ OthersSame(c)
<1>1. Typed'
  BY CallConstants
  DEF TakeReply, IInv, Typed, TaskTyped, UnitTyped, CountTyped, QueueTyped, Step, At, Outcome,
      VerdictOf, Settled, state, counts, TaskStage, Verdicts, Replies
<1>2. OthersSame(c)
  BY DEF TakeReply, IInv, Typed, TaskTyped, UnitTyped, CountTyped, QueueTyped, OthersSame, Same,
         Step, At, Outcome, VerdictOf, Settled, state, counts, TaskStage, Verdicts, Replies
<1>3. CallInv(c)'
  BY CallConstants
  DEF TakeReply, IInv, Typed, TaskTyped, UnitTyped, CountTyped, QueueTyped, CallInv, TaskInv,
      SenderInv, AnswerInv, Answered, GoneInv, CountInv, Step, At, Outcome, VerdictOf, Settled,
      state, counts, TaskStage, Verdicts, Replies
<1>4. QueueInv' /\ UnitInv'
  BY QueueKeeps
  DEF TakeReply, Step, At, Outcome, VerdictOf, Settled, state, counts, TaskStage, Verdicts,
      Replies
<1> QED
  BY <1>1, <1>2, <1>3, <1>4, MoveKeeps

LEMMA CloseKeeps ==
  ASSUME IInv, NEW c \in Calls, Close(c)
  PROVE  IInv' /\ OthersSame(c)
<1>1. Typed'
  BY CallConstants
  DEF Close, IInv, Typed, TaskTyped, UnitTyped, CountTyped, QueueTyped, Step, At, state, counts,
      TaskStage, Verdicts
<1>2. OthersSame(c)
  BY DEF Close, IInv, Typed, TaskTyped, UnitTyped, CountTyped, QueueTyped, OthersSame, Same,
         Step, At, state, counts, TaskStage, Verdicts
<1>3. CallInv(c)'
  BY CallConstants
  DEF Close, IInv, Typed, TaskTyped, UnitTyped, CountTyped, QueueTyped, CallInv, TaskInv,
      SenderInv, AnswerInv, Answered, GoneInv, CountInv, Step, At, state, counts, TaskStage,
      Verdicts
<1>4. QueueInv' /\ UnitInv'
  BY QueueKeeps DEF Close, Step, At, state, counts, TaskStage, Verdicts
<1> QED
  BY <1>1, <1>2, <1>3, <1>4, MoveKeeps

LEMMA UnaryKeeps ==
  ASSUME IInv, NEW c \in Calls, Unary(c)
  PROVE  IInv' /\ OthersSame(c)
<1>1. /\ task[c] = "message" /\ obj[c] = "none" /\ error[c] = "none"
      /\ UNCHANGED <<error, stop, chan, discarded, fields, told, counts, unit>>
  BY DEF Unary, At, IInv, CallInv, TaskInv
<1>2. \/ /\ \E v \in {"invalid", "unavailable"} : Outcome(c, v)
         /\ UNCHANGED <<queue, obj, sender, receiver>>
      \/ NewUnit(c) /\ Enqueue(c) /\ UNCHANGED verdict
      \/ NewUnit(c) /\ Step(c, "slot") /\ UNCHANGED <<verdict, queue, obj>>
  BY DEF Unary
<1>3. Typed'
  <2>1. TaskTyped' /\ CountTyped'
    BY <1>1, <1>2
    DEF IInv, Typed, TaskTyped, CountTyped, Outcome, NewUnit, Enqueue, Step, counts, TaskStage,
        Verdicts
  <2>2. UnitTyped'
    BY <1>1, <1>2 DEF IInv, Typed, UnitTyped, NewUnit, Enqueue, ObjStage
  <2>3. QueueTyped'
    BY <1>1, <1>2 DEF IInv, Typed, QueueTyped, Enqueue
  <2> QED
    BY <2>1, <2>2, <2>3 DEF Typed
<1>4. OthersSame(c)
  BY <1>1, <1>2
  DEF IInv, Typed, TaskTyped, UnitTyped, CountTyped, QueueTyped, OthersSame, Same, Outcome,
      NewUnit, Enqueue, Step, counts
<1>5. /\ \/ task'[c] = "closing" /\ verdict'[c] \in {"invalid", "unavailable"}
            /\ obj'[c] = "none" /\ sender'[c] = sender[c] /\ receiver'[c] = receiver[c]
         \/ task'[c] = "reply" /\ verdict'[c] = verdict[c] /\ obj'[c] = "queued" /\ sender'[c] /\ receiver'[c]
         \/ task'[c] = "slot" /\ verdict'[c] = verdict[c] /\ obj'[c] = "none" /\ sender'[c] /\ receiver'[c]
  BY <1>1, <1>2
  DEF IInv, Typed, TaskTyped, UnitTyped, CountTyped, QueueTyped, Outcome, NewUnit, Enqueue, Step
<1>6. CallInv(c)'
  BY <1>1, <1>5
  DEF IInv, CallInv, TaskInv, SenderInv, AnswerInv, Answered, GoneInv, CountInv, counts
<1>7. QueueInv' /\ UnitInv'
  BY <1>1, <1>2, QueueKeeps, EnqueueKeeps DEF Enqueue
<1> QED
  BY <1>3, <1>4, <1>6, <1>7, MoveKeeps

LEMMA SubmittedKeeps ==
  ASSUME IInv, NEW c \in Calls, Submitted(c)
  PROVE  IInv' /\ OthersSame(c)
<1>1. /\ task[c] = "slot" /\ obj[c] = "none" /\ error[c] = "none" /\ sender[c] /\ receiver[c]
      /\ UNCHANGED <<error, stop, chan, discarded, fields, told, counts, unit>>
  BY DEF Submitted, At, IInv, CallInv, TaskInv, SenderInv
<1>2. \/ Enqueue(c) /\ UNCHANGED <<verdict, sender, receiver>>
      \/ DropUnit(c) /\ Outcome(c, "unavailable") /\ UNCHANGED <<queue, obj>>
  BY DEF Submitted
<1>3. Typed'
  <2>1. TaskTyped' /\ CountTyped'
    BY <1>1, <1>2
    DEF IInv, Typed, TaskTyped, CountTyped, Outcome, DropUnit, Enqueue, Step, counts, TaskStage,
        Verdicts
  <2>2. UnitTyped'
    BY <1>1, <1>2 DEF IInv, Typed, UnitTyped, DropUnit, Enqueue, ObjStage
  <2>3. QueueTyped'
    BY <1>1, <1>2 DEF IInv, Typed, QueueTyped, Enqueue
  <2> QED
    BY <2>1, <2>2, <2>3 DEF Typed
<1>4. OthersSame(c)
  BY <1>1, <1>2
  DEF IInv, Typed, TaskTyped, UnitTyped, CountTyped, QueueTyped, OthersSame, Same, Outcome,
      DropUnit, Enqueue, Step, counts
<1>5. \/ task'[c] = "reply" /\ verdict'[c] = verdict[c] /\ obj'[c] = "queued" /\ sender'[c] /\ receiver'[c]
      \/ task'[c] = "closing" /\ verdict'[c] = "unavailable" /\ obj'[c] = "none" /\ ~sender'[c] /\ ~receiver'[c]
  BY <1>1, <1>2
  DEF IInv, Typed, TaskTyped, UnitTyped, CountTyped, QueueTyped, Outcome, DropUnit, Enqueue,
      Step
<1>6. CallInv(c)'
  BY <1>1, <1>5
  DEF IInv, CallInv, TaskInv, SenderInv, AnswerInv, Answered, GoneInv, CountInv, counts
<1>7. QueueInv' /\ UnitInv'
  BY <1>1, <1>2, QueueKeeps, EnqueueKeeps DEF Enqueue
<1> QED
  BY <1>3, <1>4, <1>6, <1>7, MoveKeeps

LEMMA DropKeeps ==
  ASSUME IInv, NEW c \in Calls, NEW v \in {"deadline", "left"}, DropFuture(c, v)
  PROVE  IInv' /\ OthersSame(c)
<1>1. /\ task[c] \in {"reading", "message", "slot", "reply"} /\ error[c] = "none"
      /\ UNCHANGED <<error, queue, stop, obj, chan, discarded, fields, told, counts, unit>>
  BY DEF DropFuture, IInv, CallInv, TaskInv
<1>2. /\ task'[c] = "closing" /\ verdict'[c] = v /\ ~receiver'[c]
      /\ sender'[c] <=> sender[c] /\ task[c] # "slot"
  BY <1>1
  DEF DropFuture, Outcome, Step, At, IInv, Typed, TaskTyped, UnitTyped, CountTyped, QueueTyped
<1>3. Typed'
  BY <1>1
  DEF DropFuture, Outcome, Step, At, IInv, Typed, TaskTyped, UnitTyped, CountTyped, QueueTyped,
      counts, TaskStage, Verdicts
<1>4. OthersSame(c)
  BY <1>1
  DEF DropFuture, Outcome, Step, At, IInv, Typed, TaskTyped, UnitTyped, CountTyped, QueueTyped,
      OthersSame, Same, counts
<1>5. CallInv(c)'
  BY <1>1, <1>2
  DEF IInv, CallInv, TaskInv, SenderInv, AnswerInv, Answered, GoneInv, CountInv, counts
<1>6. QueueInv' /\ UnitInv'
  BY <1>1, QueueKeeps
<1> QED
  BY <1>3, <1>4, <1>5, <1>6, MoveKeeps

-----------------------------------------------------------------------------
(* PHP.                                                                    *)

\* What a discard makes of a unit that is not settled and whose client is gone.
LEMMA DiscardKeeps ==
  ASSUME IInv, NEW c \in Calls, obj[c] = "held", ~Settles(c), Cancelled(c), Discard(c),
         told' = told \/ Tell(c, "discarded"),
         UNCHANGED <<task, verdict, error, queue, stop, obj, receiver, chan, fields, shed, unit>>
  PROVE  IInv' /\ OthersSame(c)
<1>1. /\ sender[c] /\ ~receiver[c] /\ verdict[c] \in {"deadline", "left"}
      /\ told[c] = "nothing" /\ chan[c] = NoReply /\ handled[c] + shed[c] = 0
  BY DEF Settles, Cancelled, IInv, CallInv, AnswerInv, GoneInv, CountInv
<1>2. /\ discarded'[c] /\ ~sender'[c] /\ handled'[c] = handled[c] + 1
      /\ told'[c] \in {"nothing", "discarded"}
  BY <1>1
  DEF Discard, CountHandled, Tell, IInv, Typed, TaskTyped, UnitTyped, CountTyped, QueueTyped
<1>3. Typed'
  <2>1. TaskTyped' /\ QueueTyped'
    BY DEF IInv, Typed, TaskTyped, QueueTyped
  <2>2. UnitTyped' /\ CountTyped'
    BY DEF Discard, CountHandled, Tell, IInv, Typed, UnitTyped, CountTyped
  <2> QED
    BY <2>1, <2>2 DEF Typed
<1>4. OthersSame(c)
  BY DEF Discard, CountHandled, Tell, IInv, Typed, TaskTyped, UnitTyped, CountTyped, QueueTyped,
         OthersSame, Same
<1>5. handled[c] \in Nat /\ shed[c] \in Nat
  BY DEF IInv, Typed, TaskTyped, UnitTyped, CountTyped, QueueTyped
<1>6. CallInv(c)'
  BY <1>1, <1>2, <1>5
  DEF IInv, CallInv, TaskInv, SenderInv, AnswerInv, Answered, GoneInv, CountInv
<1>7. QueueInv' /\ UnitInv'
  BY QueueKeeps
<1> QED
  BY <1>3, <1>4, <1>6, <1>7, MoveKeeps

LEMMA DiscardLeftKeeps == IInv /\ DiscardLeft => IInv'
<1> SUFFICES ASSUME IInv, DiscardLeft PROVE IInv'
  OBVIOUS
<1>1. unit \in Calls /\ sender[unit]
  BY DEF DiscardLeft, IInv, Typed, TaskTyped, UnitTyped, CountTyped, QueueTyped, Settles
<1>2. obj[unit] = "held"
  BY <1>1 DEF DiscardLeft, IInv, UnitInv, CallInv, SenderInv
<1> QED
  BY <1>1, <1>2, DiscardKeeps DEF DiscardLeft

LEMMA ReceiveKeeps ==
  ASSUME IInv, NEW c \in Calls, Receive(c)
  PROVE  IInv' /\ OthersSame(c)
<1>1. /\ obj[c] = "queued" /\ sender[c] /\ told[c] = "nothing" /\ chan[c] = NoReply /\ ~discarded[c]
      /\ handled[c] + shed[c] = 0 /\ queue' \in Seq(Calls)
      /\ UNCHANGED <<task, verdict, error, stop, receiver, chan, discarded, fields, told, handled>>
  BY HeadOwned DEF Receive, IInv, CallInv, SenderInv, AnswerInv, CountInv
<1>2. \/ /\ obj' = [obj EXCEPT ![c] = "freed"] /\ sender' = [sender EXCEPT ![c] = FALSE]
         /\ shed' = [shed EXCEPT ![c] = @ + 1] /\ unit' = unit
      \/ obj' = [obj EXCEPT ![c] = "held"] /\ unit' = c /\ UNCHANGED <<sender, shed>>
  BY DEF Receive
<1>3. Typed'
  <2>1. TaskTyped' /\ UnitTyped'
    BY <1>1, <1>2 DEF IInv, Typed, TaskTyped, UnitTyped, ObjStage
  <2>2. CountTyped' /\ QueueTyped'
    BY <1>1, <1>2 DEF IInv, Typed, CountTyped, QueueTyped
  <2> QED
    BY <2>1, <2>2 DEF Typed
<1>4. OthersSame(c)
  BY <1>1, <1>2 DEF IInv, Typed, TaskTyped, UnitTyped, CountTyped, QueueTyped, OthersSame, Same
<1>5. /\ \/ obj'[c] = "freed" /\ ~sender'[c] /\ shed'[c] = shed[c] + 1
         \/ obj'[c] = "held" /\ sender'[c] /\ shed'[c] = shed[c]
      /\ handled[c] \in Nat /\ shed[c] \in Nat
  BY <1>1, <1>2 DEF IInv, Typed, TaskTyped, UnitTyped, CountTyped, QueueTyped
<1>6. CallInv(c)'
  BY <1>1, <1>5 DEF IInv, CallInv, TaskInv, SenderInv, AnswerInv, Answered, GoneInv, CountInv
<1>7. QueueInv' /\ UnitInv'
  BY <1>2, <1>4, <1>5, DequeueKeeps DEF Receive, OthersSame, Same
<1> QED
  BY <1>3, <1>4, <1>6, <1>7, MoveKeeps

LEMMA AddKeeps ==
  ASSUME IInv, NEW c \in Calls, Add(c)
  PROVE  IInv' /\ OthersSame(c)
<1>1. /\ sender[c] /\ fields' = [fields EXCEPT ![c] = @ + 1]
      /\ UNCHANGED <<task, verdict, error, queue, stop, obj, receiver, chan, sender, discarded, told, counts, unit>>
  BY DEF Add, MayAdd, Settles, IInv, Typed, TaskTyped, UnitTyped, CountTyped, QueueTyped
<1>2. Typed' /\ OthersSame(c)
  BY <1>1
  DEF IInv, Typed, TaskTyped, UnitTyped, CountTyped, QueueTyped, OthersSame, Same, counts
<1>3. CallInv(c)'
  BY <1>1 DEF IInv, CallInv, TaskInv, SenderInv, AnswerInv, Answered, GoneInv, CountInv, counts
<1>4. QueueInv' /\ UnitInv'
  BY <1>1, QueueKeeps
<1> QED
  BY <1>2, <1>3, <1>4, MoveKeeps

LEMMA BeginFinishKeeps ==
  ASSUME IInv, NEW c \in Calls, BeginFinish(c)
  PROVE  IInv' /\ OthersSame(c)
<1>1. /\ obj[c] = "held" /\ (sender[c] => chan[c] = NoReply /\ told[c] = "nothing" /\ ~discarded[c])
      /\ UNCHANGED <<task, verdict, error, queue, stop, receiver, chan, fields, shed, unit>>
  BY DEF BeginFinish, IInv, CallInv, AnswerInv
<1>2. CASE Cancelled(c) /\ ~Settles(c)
  BY <1>1, <1>2, DiscardKeeps DEF BeginFinish
<1>3. CASE Cancelled(c) /\ Settles(c)
  <2>1. /\ Tell(c, "discarded") /\ UNCHANGED <<discarded, sender, handled, obj>>
        /\ discarded[c] /\ told[c] \in {"nothing", "discarded"}
    BY <1>1, <1>3
    DEF BeginFinish, Cancelled, Settles, IInv, Typed, UnitTyped, CallInv, AnswerInv, Answered
  <2>2. told' \in [Calls -> {"nothing", "ok", "discarded"}] /\ told'[c] = "discarded"
        /\ \A d \in Calls \ {c} : told'[d] = told[d]
    BY <2>1 DEF Tell, IInv, Typed, UnitTyped
  <2>3. Typed' /\ OthersSame(c)
    BY <1>1, <2>1, <2>2
    DEF IInv, Typed, TaskTyped, UnitTyped, CountTyped, QueueTyped, OthersSame, Same
  <2>4. CallInv(c)'
    BY <1>1, <1>3, <2>1, <2>2
    DEF Settles, IInv, CallInv, TaskInv, SenderInv, AnswerInv, Answered, GoneInv, CountInv
  <2>5. QueueInv' /\ UnitInv'
    BY <1>1, <2>1, QueueKeeps
  <2> QED
    BY <2>3, <2>4, <2>5, MoveKeeps
<1>4. CASE ~Cancelled(c)
  <2>1. /\ sender[c] /\ obj' = [obj EXCEPT ![c] = "sending"] /\ sender' = [sender EXCEPT ![c] = FALSE]
        /\ UNCHANGED <<discarded, told, handled>>
    BY <1>4 DEF BeginFinish, Settles, IInv, Typed, UnitTyped
  <2>2. Typed' /\ OthersSame(c)
    BY <1>1, <2>1
    DEF IInv, Typed, TaskTyped, UnitTyped, CountTyped, QueueTyped, ObjStage, OthersSame, Same
  <2>3. obj'[c] = "sending" /\ ~sender'[c] /\ receiver[c]
    BY <1>4, <2>1 DEF Cancelled, IInv, Typed, UnitTyped, TaskTyped
  <2>4. CallInv(c)'
    BY <1>1, <2>1, <2>3
    DEF IInv, CallInv, TaskInv, SenderInv, AnswerInv, Answered, GoneInv, CountInv
  <2>5. QueueInv' /\ UnitInv'
    BY <1>1, <2>2, <2>3, QueueKeeps DEF OthersSame, Same
  <2> QED
    BY <2>2, <2>4, <2>5, MoveKeeps
<1> QED
  BY <1>2, <1>3, <1>4

LEMMA SendKeeps ==
  ASSUME IInv, NEW c \in Calls, Send(c)
  PROVE  IInv' /\ OthersSame(c)
<1>1. /\ obj[c] = "sending" /\ ~sender[c] /\ told[c] = "nothing" /\ chan[c] = NoReply /\ ~discarded[c]
      /\ handled[c] + shed[c] = 0 /\ fields[c] \in Nat /\ handled[c] \in Nat /\ shed[c] \in Nat
      /\ obj' = [obj EXCEPT ![c] = "held"] /\ handled' = [handled EXCEPT ![c] = @ + 1]
      /\ UNCHANGED <<task, verdict, error, queue, stop, receiver, sender, fields, shed, unit>>
  BY DEF Send, CountHandled, IInv, Typed, UnitTyped, CountTyped, CallInv, SenderInv, AnswerInv,
         CountInv
<1>2. \/ /\ receiver[c] /\ discarded' = discarded /\ told' = [told EXCEPT ![c] = "ok"]
         /\ \E o \in Answers : chan' = [chan EXCEPT ![c] = [outcome |-> o, fields |-> fields[c]]]
      \/ /\ ~receiver[c] /\ discarded' = [discarded EXCEPT ![c] = TRUE]
         /\ told' = [told EXCEPT ![c] = "discarded"] /\ chan' = chan
  BY <1>1 DEF Send, Tell
<1>3. \A o \in Answers : [outcome |-> o, fields |-> fields[c]] \in Replies
  BY <1>1 DEF Answers, Replies
<1>4. Typed'
  <2>1. TaskTyped' /\ CountTyped' /\ QueueTyped'
    BY <1>1 DEF IInv, Typed, TaskTyped, CountTyped, QueueTyped
  <2>2. UnitTyped'
    BY <1>1, <1>2, <1>3 DEF IInv, Typed, UnitTyped, ObjStage
  <2> QED
    BY <2>1, <2>2 DEF Typed
<1>5. OthersSame(c)
  BY <1>1, <1>2 DEF IInv, Typed, UnitTyped, CountTyped, OthersSame, Same
<1>6. /\ obj'[c] = "held" /\ handled'[c] = handled[c] + 1
      /\ \/ receiver[c] /\ discarded'[c] = discarded[c] /\ told'[c] = "ok"
            /\ chan'[c] \in Replies /\ chan'[c].outcome \in Answers /\ chan'[c].fields = fields[c]
         \/ ~receiver[c] /\ discarded'[c] /\ told'[c] = "discarded" /\ chan'[c] = chan[c]
  BY <1>1, <1>2, <1>3 DEF IInv, Typed, UnitTyped, CountTyped
<1>7. CallInv(c)'
  BY <1>1, <1>6, CallConstants
  DEF IInv, CallInv, TaskInv, SenderInv, AnswerInv, Answered, Answers, Replies, GoneInv,
      CountInv
<1>8. QueueInv' /\ UnitInv'
  BY <1>1, <1>5, <1>6, QueueKeeps DEF OthersSame, Same
<1> QED
  BY <1>4, <1>5, <1>7, <1>8, MoveKeeps

LEMMA FreeKeeps ==
  ASSUME IInv, NEW c \in Calls, Free(c)
  PROVE  IInv' /\ OthersSame(c)
<1>1. /\ obj[c] = "held" /\ handled[c] \in Nat /\ shed[c] \in Nat
      /\ (sender[c] => chan[c] = NoReply /\ told[c] = "nothing" /\ ~discarded[c])
      /\ obj' = [obj EXCEPT ![c] = "freed"] /\ sender' = [sender EXCEPT ![c] = FALSE]
      /\ handled' = [handled EXCEPT ![c] = IF sender[c] THEN @ + 1 ELSE @]
      /\ unit' = (IF unit = c THEN NoCall ELSE unit)
      /\ UNCHANGED <<task, verdict, error, queue, stop, receiver, chan, discarded, fields, told, shed>>
  BY DEF Free, Forget, Settles, CountHandled, IInv, Typed, UnitTyped, CountTyped, CallInv,
         AnswerInv
<1>2. Typed'
  BY <1>1 DEF IInv, Typed, TaskTyped, UnitTyped, CountTyped, QueueTyped, ObjStage
<1>3. OthersSame(c)
  BY <1>1 DEF IInv, Typed, UnitTyped, CountTyped, OthersSame, Same
<1>4. obj'[c] = "freed" /\ ~sender'[c] /\ handled'[c] = IF sender[c] THEN handled[c] + 1 ELSE handled[c]
  BY <1>1 DEF IInv, Typed, UnitTyped, CountTyped
<1>5. CallInv(c)'
  BY <1>1, <1>4 DEF IInv, CallInv, TaskInv, SenderInv, AnswerInv, Answered, GoneInv, CountInv
<1>6. QueueInv'
  BY <1>1, <1>3 DEF IInv, Typed, QueueTyped, QueueInv, OthersSame, Same
<1>7. UnitInv'
  BY <1>1, <1>3 DEF IInv, Typed, QueueTyped, UnitInv, OthersSame, Same
<1> QED
  BY <1>2, <1>3, <1>5, <1>6, <1>7, MoveKeeps

LEMMA ShedKeeps ==
  ASSUME IInv, NEW c \in Calls, Shed(c)
  PROVE  IInv' /\ OthersSame(c)
<1>1. /\ obj[c] = "queued" /\ sender[c] /\ told[c] = "nothing" /\ chan[c] = NoReply /\ ~discarded[c]
      /\ handled[c] + shed[c] = 0 /\ queue' \in Seq(Calls) /\ handled[c] \in Nat /\ shed[c] \in Nat
      /\ obj' = [obj EXCEPT ![c] = "freed"] /\ sender' = [sender EXCEPT ![c] = FALSE]
      /\ shed' = [shed EXCEPT ![c] = @ + 1]
      /\ UNCHANGED <<task, verdict, error, stop, receiver, discarded, fields, told, handled, unit>>
  BY HeadOwned DEF Shed, IInv, Typed, CountTyped, CallInv, SenderInv, AnswerInv, CountInv
<1>2. chan' = chan \/ chan' = [chan EXCEPT ![c] = [outcome |-> "refused", fields |-> 0]]
  BY <1>1 DEF Shed, IInv, Typed, UnitTyped
<1>3. [outcome |-> "refused", fields |-> 0] \in Replies
  BY DEF Replies
<1>4. Typed'
  <2>1. TaskTyped' /\ CountTyped' /\ QueueTyped'
    BY <1>1 DEF IInv, Typed, TaskTyped, CountTyped, QueueTyped
  <2>2. UnitTyped'
    BY <1>1, <1>2, <1>3 DEF IInv, Typed, UnitTyped, ObjStage
  <2> QED
    BY <2>1, <2>2 DEF Typed
<1>5. OthersSame(c)
  BY <1>1, <1>2 DEF IInv, Typed, UnitTyped, CountTyped, OthersSame, Same
<1>6. /\ obj'[c] = "freed" /\ ~sender'[c] /\ shed'[c] = shed[c] + 1
      /\ chan'[c] = NoReply \/ chan'[c] = [outcome |-> "refused", fields |-> 0]
  BY <1>1, <1>2 DEF IInv, Typed, UnitTyped, CountTyped
<1>7. CallInv(c)'
  BY <1>1, <1>6 DEF IInv, CallInv, TaskInv, SenderInv, AnswerInv, Answered, GoneInv, CountInv
<1>8. QueueInv' /\ UnitInv'
  BY <1>1, <1>5, DequeueKeeps DEF Shed, OthersSame, Same
<1> QED
  BY <1>4, <1>5, <1>7, <1>8, MoveKeeps

\* The queue of the last thread is destroyed, with every call in it.
LEMMA EndThreadKeeps == IInv /\ EndThread => IInv'
<1> SUFFICES ASSUME IInv, EndThread PROVE IInv'
  OBVIOUS
<1>1. /\ obj' = [c \in Calls |-> IF obj[c] = "queued" THEN "swept" ELSE obj[c]]
      /\ sender' = [c \in Calls |-> sender[c] /\ obj[c] # "queued"]
      /\ queue' = <<>> /\ stop' = 2 /\ (\A c \in Calls : obj[c] \notin {"held", "sending"})
      /\ UNCHANGED <<task, verdict, error, receiver, chan, discarded, fields, told, handled, shed, unit>>
  BY DEF EndThread, Queued, counts
<1>2. Typed'
  BY <1>1 DEF IInv, Typed, TaskTyped, UnitTyped, CountTyped, QueueTyped, ObjStage
<1>3. QueueInv' /\ UnitInv'
  BY <1>1 DEF IInv, QueueInv, UnitInv, Typed, QueueTyped
<1>4. ASSUME NEW c \in Calls PROVE CallInv(c)'
  <2>1. CASE obj[c] # "queued"
    BY <1>1, <2>1, SameKeeps DEF IInv, Same, Typed, UnitTyped
  <2>2. CASE obj[c] = "queued"
    <3>1. obj'[c] = "swept" /\ ~sender'[c]
      BY <1>1, <2>2
    <3> QED
      BY <1>1, <2>2, <3>1
      DEF IInv, CallInv, TaskInv, SenderInv, AnswerInv, Answered, GoneInv, CountInv
  <2> QED
    BY <2>1, <2>2
<1> QED
  BY <1>2, <1>3, <1>4 DEF IInv

\* Steps of the thread that no call sees.
LEMMA ThreadKeeps ==
  ASSUME IInv, stop' = stop \/ stop' = 1,
         UNCHANGED <<task, verdict, error, queue, obj, receiver, chan, state, counts, unit>>
  PROVE  IInv'
<1>1. Typed'
  BY DEF IInv, Typed, TaskTyped, UnitTyped, CountTyped, QueueTyped, state, counts
<1>2. QueueInv' /\ UnitInv'
  BY DEF IInv, QueueInv, UnitInv
<1>3. ASSUME NEW c \in Calls PROVE CallInv(c)'
  BY SameKeeps DEF IInv, Same, state, counts
<1> QED
  BY <1>1, <1>2, <1>3 DEF IInv

\* The steps of one call.
CallStep(c) == Arrive(c) \/ Listener(c) \/ ReadFails(c) \/ Deadline(c) \/ Leave(c) \/ Script(c) \/ Shed(c)

LEMMA NextKeeps == IInv /\ [Next]_vars => IInv'
<1> SUFFICES ASSUME IInv, [Next]_vars PROVE IInv'
  OBVIOUS
<1>1. ASSUME NEW c \in Calls, CallStep(c) PROVE IInv'
  <2>1. CASE Arrive(c) \/ Listener(c) \/ ReadFails(c) \/ Deadline(c) \/ Leave(c)
    BY <2>1, ArriveKeeps, FrameKeeps, ReadFailsKeeps, DispatchKeeps, UnaryKeeps, SubmittedKeeps,
       TakeReplyKeeps, CloseKeeps, DropKeeps
    DEF Listener, Deadline, Leave
  <2>2. CASE Script(c) \/ Shed(c)
    BY <2>2, SendKeeps, ReceiveKeeps, AddKeeps, BeginFinishKeeps, FreeKeeps, ShedKeeps
    DEF Script
  <2> QED
    BY <1>1, <2>1, <2>2 DEF CallStep
<1>2. CASE BootFails \/ Boots \/ StopIntake \/ Finished \/ UNCHANGED vars
  <2>1. /\ stop' = stop \/ stop' = 1
        /\ UNCHANGED <<task, verdict, error, queue, obj, receiver, chan, state, counts, unit>>
    BY <1>2 DEF BootFails, Boots, StopIntake, Finished, vars
  <2> QED
    BY <2>1, ThreadKeeps
<1>3. CASE DiscardLeft \/ EndThread
  BY <1>3, DiscardLeftKeeps, EndThreadKeeps
<1> QED
  BY <1>1, <1>2, <1>3 DEF Next, CallStep

\* The inductive invariant holds of every behaviour: of the task of a call, of
\* its sender and of the script's object (crates/plugins/grpc/src/php/call.rs).
THEOREM CallInvariance == Spec => []IInv
<1> QED
  BY InitKeeps, NextKeeps, PTL DEF Spec

\* The reply carries what the script was told is accepted, for any number of calls
\* and fields (crates/plugins/grpc/src/php/call.rs, finish()).
THEOREM ReplyCarriesAll == Spec => []ReplyIsWhole
<1>1. IInv => ReplyIsWhole
  BY DEF IInv, CallInv, AnswerInv, Answered, ReplyIsWhole
<1> QED
  BY <1>1, CallInvariance, PTL

\* A call that left the queue is counted once, by whichever of its ends comes
\* first (crates/plugins/grpc/src/php/call.rs, finish() and discard();
\* crates/sapi/src/work.rs, release()).
THEOREM CallsCountOnce == Spec => []CountedOnce
<1>1. IInv => CountedOnce
  BY DEF IInv, CallInv, CountInv, CountedOnce, Settles
<1> QED
  BY <1>1, CallInvariance, PTL

-----------------------------------------------------------------------------
(* The bytes of the body budget.                                           *)

\* Who owns the permit of a call, up to its end.
OwnInv(c) ==
  /\ task[c] \in {"reading", "message", "slot"} => owned[c]
  /\ held[c] > 0 => owned[c]
  /\ owned[c] => obj[c] \in {"none", "queued"}
  /\ owned[c] /\ obj[c] = "none" => task[c] \notin {"new", "done"}

BudgetTyped == held \in [Calls -> Nat] /\ owned \in [Calls -> BOOLEAN] /\ free \in Nat

BudgetInv ==
  /\ BudgetTyped
  /\ free + SumFunctionOnSet(held, Calls) = Budget
  /\ \A c \in Calls : OwnInv(c)

LEMMA BudgetInit == Init => BudgetInv
<1> SUFFICES ASSUME Init PROVE BudgetInv
  OBVIOUS
<1>1. \A c \in Calls : held[c] = 0
  BY DEF Init
<1>2. SumFunctionOnSet(held, Calls) = 0
  BY <1>1, CallConstants, SumOfZeros
<1> QED
  BY <1>2, CallConstants DEF Init, BudgetInv, BudgetTyped, OwnInv

\* What changes hands between the budget and the permit of one call.
LEMMA PermitKeeps ==
  ASSUME BudgetInv, NEW c \in Calls,
         held' \in [Calls -> Nat], \A d \in Calls \ {c} : held'[d] = held[d],
         free' \in Nat, free' + held'[c] = free + held[c],
         owned' \in [Calls -> BOOLEAN], \A d \in Calls \ {c} : owned'[d] = owned[d],
         OthersSame(c), OwnInv(c)'
  PROVE  BudgetInv'
<1>1. /\ IsFiniteSet(Calls) /\ free \in Nat
      /\ \A d \in Calls : held[d] \in Int /\ held'[d] \in Int
  BY CallConstants DEF BudgetInv, BudgetTyped
<1>2. SumFunctionOnSet(held', Calls) = SumFunctionOnSet(held, Calls) + (held'[c] - held[c])
  BY <1>1, SumChange
<1>3. SumFunctionOnSet(held, Calls) \in Int
  BY <1>1, SumInt
<1>4. free' + SumFunctionOnSet(held', Calls) = Budget
  BY <1>1, <1>2, <1>3 DEF BudgetInv
<1>5. ASSUME NEW d \in Calls \ {c}
      PROVE  OwnInv(d)'
  BY DEF OwnInv, OthersSame, Same, BudgetInv
<1> QED
  BY <1>4, <1>5 DEF BudgetInv, BudgetTyped

LEMMA ReturnKeeps ==
  ASSUME BudgetInv, NEW c \in Calls, ReturnBytes(c), OthersSame(c),
         task'[c] \notin {"reading", "message", "slot"}
  PROVE  BudgetInv'
<1>1. held[c] \in Nat /\ free \in Nat /\ held \in [Calls -> Nat] /\ owned \in [Calls -> BOOLEAN]
  BY DEF BudgetInv, BudgetTyped
<1>2. /\ held' \in [Calls -> Nat] /\ \A d \in Calls \ {c} : held'[d] = held[d]
      /\ free' \in Nat /\ free' + held'[c] = free + held[c]
      /\ owned' \in [Calls -> BOOLEAN] /\ \A d \in Calls \ {c} : owned'[d] = owned[d]
  BY <1>1 DEF ReturnBytes
<1>3. held'[c] = 0 /\ owned'[c] = FALSE
  BY <1>1 DEF ReturnBytes
<1>4. OwnInv(c)'
  BY <1>3 DEF OwnInv
<1> QED
  BY <1>2, <1>4, PermitKeeps

\* A permit grows by what the budget has: an owned one, whose call goes on.
LEMMA GrowKeeps ==
  ASSUME BudgetInv, NEW c \in Calls, NEW n \in Nat, Grow(c, n), owned[c], OthersSame(c),
         obj'[c] \in {"none", "queued"}, task'[c] \notin {"new", "done"}
  PROVE  BudgetInv'
<1>1. held[c] \in Nat /\ free \in Nat /\ held \in [Calls -> Nat] /\ owned \in [Calls -> BOOLEAN]
  BY DEF BudgetInv, BudgetTyped
<1>2. Extra(c, n) \in Nat
  BY <1>1, CallConstants DEF Extra
<1>3. Extra(c, n) <= free
  BY <1>1, <1>2 DEF Grow, Grows
<1>4. /\ held' \in [Calls -> Nat] /\ \A d \in Calls \ {c} : held'[d] = held[d]
      /\ free' \in Nat /\ free' + held'[c] = free + held[c]
  BY <1>1, <1>2, <1>3 DEF Grow
<1>5. owned' = owned
  BY DEF Grow
<1>6. OwnInv(c)'
  BY <1>5 DEF OwnInv
<1> QED
  BY <1>1, <1>4, <1>5, <1>6, PermitKeeps

\* Nothing changes hands.
LEMMA HoldKeeps ==
  ASSUME BudgetInv, NEW c \in Calls, UNCHANGED budget, OthersSame(c), OwnInv(c)'
  PROVE  BudgetInv'
<1>1. held[c] \in Nat /\ free \in Nat /\ held \in [Calls -> Nat] /\ owned \in [Calls -> BOOLEAN]
  BY DEF BudgetInv, BudgetTyped
<1>2. held' = held /\ free' = free /\ owned' = owned
  BY DEF budget
<1> QED
  BY <1>1, <1>2, PermitKeeps

LEMMA ArriveBudget ==
  ASSUME IInv, BudgetInv, NEW c \in Calls, Arrive(c)
  PROVE  BudgetInv'
<1>1. OthersSame(c)
  BY ArriveKeeps
<1>2. held[c] \in Nat /\ free \in Nat /\ held \in [Calls -> Nat] /\ owned \in [Calls -> BOOLEAN]
  BY DEF BudgetInv, BudgetTyped
<1>3. task[c] = "new" /\ obj[c] = "none" /\ OwnInv(c)
  BY DEF Arrive, At, IInv, CallInv, TaskInv, BudgetInv
<1>4. /\ held' = held /\ free' = free /\ obj' = obj
      /\ \/ task'[c] = "reading" /\ owned' = [owned EXCEPT ![c] = TRUE]
         \/ task'[c] = "done" /\ owned' = owned
  BY DEF Arrive, Step, IInv, Typed, TaskTyped
<1>5. /\ owned' \in [Calls -> BOOLEAN] /\ \A d \in Calls \ {c} : owned'[d] = owned[d]
  BY <1>2, <1>4
<1>6. OwnInv(c)'
  BY <1>2, <1>3, <1>4 DEF OwnInv
<1> QED
  BY <1>1, <1>2, <1>4, <1>5, <1>6, PermitKeeps

\* While the body is read, the request body owns the permit.
LEMMA FrameBudget ==
  ASSUME IInv, BudgetInv, NEW c \in Calls, Frame(c)
  PROVE  BudgetInv'
<1>1. OthersSame(c)
  BY FrameKeeps
<1>2. /\ task[c] = "reading" /\ obj[c] = "none" /\ OwnInv(c) /\ owned[c]
      /\ held[c] + 1 \in Nat /\ obj' = obj
  BY DEF Frame, At, IInv, CallInv, TaskInv, BudgetInv, BudgetTyped, OwnInv
<1>3. CASE Grow(c, held[c] + 1) /\ UNCHANGED task
  BY <1>1, <1>2, <1>3, GrowKeeps
<1>4. CASE Outcome(c, "read_error") /\ UNCHANGED budget
  <2>1. task'[c] = "closing" /\ held' = held /\ owned' = owned
    BY <1>4 DEF Outcome, Step, IInv, Typed, TaskTyped, budget
  <2>2. OwnInv(c)'
    BY <1>2, <2>1 DEF OwnInv
  <2> QED
    BY <1>1, <1>4, <2>2, HoldKeeps
<1> QED
  BY <1>3, <1>4 DEF Frame

LEMMA ReadBudget ==
  ASSUME IInv, BudgetInv, NEW c \in Calls, ReadFails(c) \/ Dispatch(c)
  PROVE  BudgetInv'
<1>1. OthersSame(c)
  BY ReadFailsKeeps, DispatchKeeps
<1>2. /\ task[c] = "reading" /\ obj[c] = "none" /\ OwnInv(c) /\ owned[c]
      /\ obj' = obj /\ UNCHANGED budget
  BY DEF ReadFails, Dispatch, At, IInv, CallInv, TaskInv, BudgetInv, OwnInv
<1>3. task'[c] \in {"closing", "message"} /\ held' = held /\ owned' = owned
  BY <1>2 DEF ReadFails, Dispatch, Outcome, Step, IInv, Typed, TaskTyped, budget
<1>4. OwnInv(c)'
  BY <1>2, <1>3 DEF OwnInv
<1> QED
  BY <1>1, <1>2, <1>4, HoldKeeps

\* A unit that is queued or waits takes its permit along; a refusal returns it.
LEMMA UnaryBudget ==
  ASSUME IInv, BudgetInv, NEW c \in Calls, Unary(c)
  PROVE  BudgetInv'
<1>1. OthersSame(c)
  BY UnaryKeeps
<1>2. task[c] = "message" /\ obj[c] = "none" /\ OwnInv(c) /\ owned[c]
  BY DEF Unary, At, IInv, CallInv, TaskInv, BudgetInv, OwnInv
<1>3. CASE Outcome(c, "invalid") /\ UNCHANGED <<budget, queue, obj, sender, receiver>>
  <2>1. task'[c] = "closing" /\ held' = held /\ owned' = owned /\ obj' = obj
    BY <1>3 DEF Outcome, Step, IInv, Typed, TaskTyped, budget
  <2>2. OwnInv(c)'
    BY <1>2, <2>1 DEF OwnInv
  <2> QED
    BY <1>1, <1>3, <2>2, HoldKeeps
<1>4. CASE ReturnBytes(c) /\ Outcome(c, "unavailable")
  <2>1. task'[c] = "closing"
    BY <1>4 DEF Outcome, Step, IInv, Typed, TaskTyped
  <2> QED
    BY <1>1, <1>4, <2>1, ReturnKeeps
<1>5. ASSUME NEW n \in 0 .. MaxBody, Grow(c, n),
             Enqueue(c) \/ (Step(c, "slot") /\ UNCHANGED obj)
      PROVE  BudgetInv'
  <2>1. n \in Nat
    BY CallConstants
  <2>2. task'[c] \in {"reply", "slot"} /\ obj'[c] \in {"none", "queued"}
    BY <1>2, <1>5 DEF Enqueue, Step, IInv, Typed, TaskTyped, UnitTyped
  <2> QED
    BY <1>1, <1>2, <1>5, <2>1, <2>2, GrowKeeps
<1> QED
  BY <1>3, <1>4, <1>5 DEF Unary

LEMMA SubmittedBudget ==
  ASSUME IInv, BudgetInv, NEW c \in Calls, Submitted(c)
  PROVE  BudgetInv'
<1>1. OthersSame(c)
  BY SubmittedKeeps
<1>2. task[c] = "slot" /\ obj[c] = "none" /\ OwnInv(c) /\ owned[c]
  BY DEF Submitted, At, IInv, CallInv, TaskInv, BudgetInv, OwnInv
<1>3. CASE Enqueue(c) /\ UNCHANGED budget
  <2>1. task'[c] = "reply" /\ obj'[c] = "queued" /\ held' = held /\ owned' = owned
    BY <1>3 DEF Enqueue, Step, IInv, Typed, TaskTyped, UnitTyped, budget
  <2>2. OwnInv(c)'
    BY <1>2, <2>1 DEF OwnInv
  <2> QED
    BY <1>1, <1>3, <2>2, HoldKeeps
<1>4. CASE ReturnBytes(c) /\ Outcome(c, "unavailable")
  <2>1. task'[c] = "closing"
    BY <1>4 DEF Outcome, Step, IInv, Typed, TaskTyped
  <2> QED
    BY <1>1, <1>4, <2>1, ReturnKeeps
<1> QED
  BY <1>3, <1>4 DEF Submitted

\* A dropped future leaves the permit to the request body, which closing
\* drops, or to the queue entry; a waiting submission drops it at once.
LEMMA DropBudget ==
  ASSUME IInv, BudgetInv, NEW c \in Calls, NEW v \in {"deadline", "left"}, DropFuture(c, v)
  PROVE  BudgetInv'
<1>1. OthersSame(c)
  BY DropKeeps
<1>2. OwnInv(c) /\ obj' = obj
  BY DEF DropFuture, BudgetInv
<1>3. task'[c] = "closing"
  BY DEF DropFuture, Outcome, Step, IInv, Typed, TaskTyped
<1>4. CASE ReturnBytes(c)
  BY <1>1, <1>3, <1>4, ReturnKeeps
<1>5. CASE UNCHANGED budget
  <2>1. held' = held /\ owned' = owned
    BY <1>5 DEF budget
  <2>2. OwnInv(c)'
    BY <1>2, <1>3, <2>1 DEF OwnInv
  <2> QED
    BY <1>1, <1>5, <2>2, HoldKeeps
<1> QED
  BY <1>4, <1>5 DEF DropFuture

\* The service function returns what unary() did not take; what it took is
\* in the queue entry, or is gone with it.
LEMMA CloseBudget ==
  ASSUME IInv, BudgetInv, NEW c \in Calls, Close(c) \/ TakeReply(c)
  PROVE  BudgetInv'
<1>1. OthersSame(c)
  BY CloseKeeps, TakeReplyKeeps
<1>2. OwnInv(c) /\ obj' = obj
  BY DEF Close, TakeReply, BudgetInv
<1>3. CASE Close(c) /\ ReturnBytes(c)
  <2>1. task'[c] = "done"
    BY <1>3 DEF Close, Step, IInv, Typed, TaskTyped
  <2> QED
    BY <1>1, <1>3, <2>1, ReturnKeeps
<1>4. CASE Close(c) /\ ~(owned[c] /\ obj[c] = "none") /\ UNCHANGED budget
  <2>1. task'[c] = "done" /\ held' = held /\ owned' = owned
    BY <1>4 DEF Close, Step, IInv, Typed, TaskTyped, budget
  <2>2. OwnInv(c)'
    BY <1>2, <1>4, <2>1 DEF OwnInv
  <2> QED
    BY <1>1, <1>4, <2>2, HoldKeeps
<1>5. CASE TakeReply(c)
  <2>1. task'[c] = "closing" /\ held' = held /\ owned' = owned /\ UNCHANGED budget
    BY <1>5 DEF TakeReply, Outcome, Step, IInv, Typed, TaskTyped, budget
  <2>2. OwnInv(c)'
    BY <1>2, <2>1 DEF OwnInv
  <2> QED
    BY <1>1, <2>1, <2>2, HoldKeeps
<1> QED
  BY <1>3, <1>4, <1>5 DEF Close

\* A dequeued entry drops its permit; the script works without one.
LEMMA ScriptBudget ==
  ASSUME IInv, BudgetInv, NEW c \in Calls, Script(c) \/ Shed(c)
  PROVE  BudgetInv'
<1>1. OthersSame(c)
  BY SendKeeps, ReceiveKeeps, AddKeeps, BeginFinishKeeps, FreeKeeps, ShedKeeps DEF Script
<1>2. task' = task
  BY DEF Script, Shed, Send, Receive, Add, BeginFinish, Free
<1>3. CASE Dequeue(c)
  <2>1. obj[c] = "queued" /\ ReturnBytes(c)
    BY <1>3, HeadOwned DEF Dequeue
  <2>2. task'[c] \notin {"reading", "message", "slot"}
    BY <1>2, <2>1 DEF IInv, CallInv, TaskInv
  <2> QED
    BY <1>1, <2>1, <2>2, ReturnKeeps
<1>4. CASE Send(c) \/ Add(c) \/ BeginFinish(c) \/ Free(c)
  <2>1. obj[c] \in {"held", "sending"} /\ UNCHANGED budget
    BY <1>4 DEF Send, Add, BeginFinish, Free
  <2>2. held' = held /\ owned' = owned
    BY <2>1 DEF budget
  <2>3. OwnInv(c) /\ ~owned[c]
    BY <2>1 DEF BudgetInv, OwnInv
  <2>4. OwnInv(c)'
    BY <1>2, <2>2, <2>3 DEF OwnInv
  <2> QED
    BY <1>1, <2>1, <2>4, HoldKeeps
<1> QED
  BY <1>3, <1>4 DEF Script, Shed, Receive

\* The last thread sweeps the queue: every permit in it goes back at once.
LEMMA EndThreadBudget ==
  ASSUME IInv, BudgetInv, EndThread
  PROVE  BudgetInv'
<1>1. /\ task' = task /\ obj' = [c \in Calls |-> IF c \in Queued THEN "swept" ELSE obj[c]]
      /\ held' = [c \in Calls |-> IF c \in Queued THEN 0 ELSE held[c]]
      /\ owned' = [c \in Calls |-> owned[c] /\ c \notin Queued]
      /\ free' = free + SumFunctionOnSet(held, Queued)
  BY DEF EndThread
<1>2. held \in [Calls -> Nat] /\ owned \in [Calls -> BOOLEAN] /\ free \in Nat
  BY DEF BudgetInv, BudgetTyped
<1>3. Queued \in SUBSET Calls /\ \A c \in Calls : c \in Queued <=> obj[c] = "queued"
  BY DEF Queued
<1>4. \A c \in Calls : held[c] \in Int /\ held[c] \in Nat /\ held'[c] = IF c \in Queued THEN 0 ELSE held[c]
  BY <1>1, <1>2
<1>5. SumFunctionOnSet(held', Calls) =
        SumFunctionOnSet(held, Calls) - SumFunctionOnSet(held, Queued)
  BY <1>3, <1>4, CallConstants, SumCleared
<1>6. SumFunctionOnSet(held, Queued) \in Nat
  <2>1. IsFiniteSet(Queued) /\ \A c \in Queued : held[c] \in Nat
    BY <1>2, <1>3, CallConstants, FS_Subset
  <2> QED
    BY <2>1, SumNat
<1>7. SumFunctionOnSet(held, Calls) \in Nat
  BY <1>4, CallConstants, SumNat
<1>8. BudgetTyped'
  BY <1>1, <1>2, <1>6 DEF BudgetTyped
<1>9. free' + SumFunctionOnSet(held', Calls) = Budget
  BY <1>1, <1>2, <1>5, <1>6, <1>7 DEF BudgetInv
<1>10. ASSUME NEW c \in Calls
       PROVE  OwnInv(c)'
  <2>1. OwnInv(c) /\ (obj[c] = "queued" => task[c] \notin {"reading", "message", "slot"})
    BY DEF BudgetInv, IInv, CallInv, TaskInv
  <2>2. CASE c \in Queued
    <3>1. held'[c] = 0 /\ ~owned'[c]
      BY <1>1, <2>2
    <3> QED
      BY <1>1, <1>3, <2>1, <2>2, <3>1 DEF OwnInv
  <2>3. CASE c \notin Queued
    <3>1. held'[c] = held[c] /\ owned'[c] = owned[c] /\ obj'[c] = obj[c]
      BY <1>1, <1>2, <2>3
    <3> QED
      BY <1>1, <2>1, <3>1 DEF OwnInv
  <2> QED
    BY <2>2, <2>3
<1> QED
  BY <1>8, <1>9, <1>10 DEF BudgetInv

LEMMA BudgetKeeps ==
  ASSUME IInv, BudgetInv, [Next]_vars
  PROVE  BudgetInv'
<1>1. ASSUME NEW c \in Calls, CallStep(c) PROVE BudgetInv'
  BY <1>1, ArriveBudget, FrameBudget, ReadBudget, UnaryBudget, SubmittedBudget, DropBudget,
     CloseBudget, ScriptBudget
  DEF CallStep, Listener, Deadline, Leave
<1>2. CASE UNCHANGED <<budget, task, obj>>
  <2>1. held' = held /\ owned' = owned /\ free' = free /\ task' = task /\ obj' = obj
    BY <1>2 DEF budget
  <2> QED
    BY <2>1 DEF BudgetInv, BudgetTyped, OwnInv
<1>3. CASE DiscardLeft \/ BootFails \/ Boots \/ StopIntake \/ Finished \/ UNCHANGED vars
  BY <1>2, <1>3 DEF DiscardLeft, BootFails, Boots, StopIntake, Finished, vars
<1> QED
  BY <1>1, <1>3, EndThreadBudget DEF Next, CallStep

\* No byte of the body budget is lost or given twice, through growing bodies,
\* refusals, deadlines, departures, dequeues and the sweep of a stopped queue,
\* and every call is counted once (crates/plugins/grpc/src/serve.rs, dispatch.rs
\* and crates/sapi/src/intake.rs).
THEOREM CallsAreAccounted == Spec => []CallAccounted
<1>1. BudgetInv => BudgetReturned
  BY DEF BudgetInv, BudgetReturned, OwnInv
<1>2. Spec => []BudgetInv
  <2>1. IInv /\ BudgetInv /\ [Next]_vars => BudgetInv'
    BY BudgetKeeps
  <2> QED
    BY BudgetInit, <2>1, CallInvariance, PTL DEF Spec
<1> QED
  BY <1>1, <1>2, CallsCountOnce, PTL DEF CallAccounted

-----------------------------------------------------------------------------
(* The refinement: what the client has and what became of the answer.      *)

LEMMA SameShows ==
  ASSUME NEW d \in Calls, Same(d)
  PROVE  Shown(d)' = Shown(d) /\ AnswerOf(d)' = AnswerOf(d)
BY DEF Same, Shown, AnswerOf

LEMMA StutterMaps ==
  ASSUME NEW c \in Calls, OthersSame(c), Shown(c)' = Shown(c), AnswerOf(c)' = AnswerOf(c)
  PROVE  UNCHANGED Rpc!rvars
<1>1. \A d \in Calls : Shown(d)' = Shown(d) /\ AnswerOf(d)' = AnswerOf(d)
  BY SameShows DEF OthersSame
<1> QED
  BY <1>1 DEF Rpc!rvars

LEMMA DecideMaps ==
  ASSUME NEW c \in Calls, OthersSame(c), Shown(c) = "none", Shown(c)' # "none",
         AnswerOf(c)' = AnswerOf(c),
         Shown(c)' \in Rpc!FromAnswer => AnswerOf(c) = "given",
         Shown(c)' \in Rpc!OfNoAnswer => AnswerOf(c) = "never"
  PROVE  Rpc!RNext
<1>1. \A d \in Calls : /\ AnswerOf(d)' = AnswerOf(d)
                       /\ d # c => Shown(d)' = Shown(d)
  BY SameShows DEF OthersSame
<1>2. [d \in Calls |-> AnswerOf(d)]' = [d \in Calls |-> AnswerOf(d)]
  BY <1>1
<1>3. [d \in Calls |-> Shown(d)]' = [[d \in Calls |-> Shown(d)] EXCEPT ![c] = Shown(c)']
  BY <1>1
<1>4. Rpc!Decide(c, Shown(c)')
  BY <1>2, <1>3 DEF Rpc!Decide
<1>5. [d \in Calls |-> Shown(d)]'[c] = Shown(c)'
  OBVIOUS
<1> QED
  BY <1>4, <1>5 DEF Rpc!RNext

LEMMA BecomeMaps ==
  ASSUME NEW c \in Calls, OthersSame(c), Shown(c)' = Shown(c), AnswerOf(c) = "open",
         \/ AnswerOf(c)' = "given" /\ Shown(c) = "none"
         \/ AnswerOf(c)' = "denied" /\ Shown(c) \notin {"none", "lost"}
         \/ AnswerOf(c)' = "never"
  PROVE  Rpc!RNext
<1>1. \A d \in Calls : /\ Shown(d)' = Shown(d)
                       /\ d # c => AnswerOf(d)' = AnswerOf(d)
  BY SameShows DEF OthersSame
<1>2. [d \in Calls |-> Shown(d)]' = [d \in Calls |-> Shown(d)]
  BY <1>1
<1>3. [d \in Calls |-> AnswerOf(d)]' = [[d \in Calls |-> AnswerOf(d)] EXCEPT ![c] = AnswerOf(c)']
  BY <1>1
<1>4. Rpc!Become(c, AnswerOf(c)')
  BY <1>2, <1>3 DEF Rpc!Become
<1>5. Rpc!Give(c) \/ Rpc!Deny(c) \/ Rpc!Forgo(c)
  BY <1>4 DEF Rpc!Give, Rpc!Deny, Rpc!Forgo
<1> QED
  BY <1>5 DEF Rpc!RNext

\* The listener decides without an answer, or leaves the client waiting.
LEMMA EarlyMaps ==
  ASSUME IInv, NEW c \in Calls, OthersSame(c), verdict[c] = "none", error[c] = "none",
         told[c] = "nothing", obj[c] = "none", told'[c] = "nothing", obj'[c] \in {"none", "queued"},
         Shown(c)' \in {"none", "unavailable", "read_error", "idle", "unimplemented", "invalid"}
  PROVE  [Rpc!RNext]_(Rpc!rvars)
<1>1. Shown(c) = "none" /\ AnswerOf(c) = "open" /\ AnswerOf(c)' = "open"
  BY DEF Shown, AnswerOf
<1>2. CASE Shown(c)' = "none"
  BY <1>1, <1>2, StutterMaps
<1>3. CASE Shown(c)' # "none"
  BY <1>1, <1>3, DecideMaps DEF Rpc!FromAnswer, Rpc!OfNoAnswer
<1> QED
  BY <1>2, <1>3

LEMMA ListenerMaps ==
  ASSUME IInv, NEW c \in Calls, OthersSame(c),
         Arrive(c) \/ Frame(c) \/ ReadFails(c) \/ Dispatch(c) \/ Unary(c) \/ Submitted(c)
  PROVE  [Rpc!RNext]_(Rpc!rvars)
<1>1. task[c] \in {"new", "reading", "message", "slot"}
  BY DEF Arrive, Frame, ReadFails, Dispatch, Unary, Submitted, At
<1>2. /\ verdict[c] = "none" /\ error[c] = "none" /\ obj[c] = "none" /\ told[c] = "nothing"
  BY <1>1 DEF IInv, CallInv, TaskInv, AnswerInv
<1>3. told'[c] = "nothing" /\ obj'[c] \in {"none", "queued"}
  BY <1>2
  DEF Arrive, Frame, ReadFails, Dispatch, Unary, Submitted, state, Enqueue, IInv, Typed,
      UnitTyped
<1>4. /\ verdict'[c] \in {"none", "unavailable", "read_error", "unimplemented", "invalid"}
      /\ error'[c] \in {"none", "idle", "unavailable"}
  BY <1>2
  DEF Arrive, Frame, ReadFails, Dispatch, Unary, Submitted, Outcome, IInv, Typed, TaskTyped
<1> QED
  BY <1>2, <1>3, <1>4, EarlyMaps DEF Shown

\* What the task takes from the channel, or finds lost, is what became of the answer.
LEMMA TakeReplyMaps ==
  ASSUME IInv, NEW c \in Calls, OthersSame(c), TakeReply(c)
  PROVE  Rpc!RNext
<1>1. /\ task[c] = "reply" /\ verdict[c] = "none" /\ error[c] = "none" /\ receiver[c] /\ obj[c] # "none"
      /\ ~discarded[c] /\ told[c] # "discarded"
      /\ UNCHANGED <<told, obj, error>>
  BY DEF TakeReply, At, IInv, CallInv, TaskInv, AnswerInv, GoneInv, state
<1>2. verdict'[c] \in VerdictOf(c)
  BY DEF TakeReply, Outcome, IInv, Typed, TaskTyped
<1>3. chan[c] # NoReply => chan[c].outcome \in {"message", "status", "refused"}
  BY DEF IInv, Typed, UnitTyped, Replies
<1>4. CASE chan[c] = NoReply
  <2>1. verdict'[c] = "lost"
    BY <1>2, <1>4 DEF VerdictOf
  <2>2. told[c] = "nothing"
    BY <1>1, <1>4 DEF IInv, Typed, UnitTyped, CallInv, AnswerInv, Answered
  <2>3. obj[c] \in {"freed", "swept"}
    BY <1>1, <1>4, <2>2
    DEF TakeReply, Settled, IInv, Typed, UnitTyped, ObjStage, CallInv, SenderInv, AnswerInv
  <2> QED
    BY <1>1, <2>1, <2>2, <2>3, DecideMaps DEF Shown, AnswerOf, Rpc!FromAnswer, Rpc!OfNoAnswer
<1>5. CASE chan[c] # NoReply /\ chan[c].outcome = "refused"
  <2>1. verdict'[c] = "refused" /\ obj[c] = "freed"
    BY <1>2, <1>5 DEF VerdictOf, IInv, CallInv, AnswerInv
  <2>2. told[c] = "nothing"
    BY <1>1, <1>5 DEF IInv, Typed, UnitTyped, CallInv, AnswerInv, Answered
  <2> QED
    BY <1>1, <2>1, <2>2, DecideMaps DEF Shown, AnswerOf, Rpc!FromAnswer, Rpc!OfNoAnswer
<1>6. CASE chan[c] # NoReply /\ chan[c].outcome # "refused"
  <2>1. verdict'[c] \in {"message", "undecodable", "status"}
    BY <1>2, <1>3, <1>6 DEF VerdictOf
  <2>2. told[c] = "ok"
    BY <1>6 DEF IInv, CallInv, AnswerInv, Answered
  <2> QED
    BY <1>1, <2>1, <2>2, DecideMaps DEF Shown, AnswerOf, Rpc!FromAnswer, Rpc!OfNoAnswer
<1> QED
  BY <1>4, <1>5, <1>6

LEMMA DropMaps ==
  ASSUME IInv, NEW c \in Calls, OthersSame(c), NEW v \in {"deadline", "left"}, DropFuture(c, v)
  PROVE  Rpc!RNext
<1>1. verdict[c] = "none" /\ error[c] = "none" /\ verdict'[c] = v /\ UNCHANGED <<error, told, obj>>
  BY DEF DropFuture, Outcome, IInv, Typed, TaskTyped, CallInv, TaskInv
<1> QED
  BY <1>1, DecideMaps DEF Shown, AnswerOf, Rpc!FromAnswer, Rpc!OfNoAnswer

LEMMA CloseMaps ==
  ASSUME IInv, NEW c \in Calls, OthersSame(c), Close(c)
  PROVE  UNCHANGED Rpc!rvars
<1>1. /\ UNCHANGED <<error, told, obj>>
      /\ verdict'[c] = IF error[c] # "none" /\ verdict[c] # "left" THEN error[c] ELSE verdict[c]
  BY DEF Close, state, IInv, Typed, TaskTyped
<1>2. error[c] # "none" => verdict[c] \in {"read_error", error[c]} /\ error[c] \in {"idle", "unavailable"}
  BY DEF IInv, Typed, TaskTyped, CallInv, TaskInv
<1>3. Shown(c)' = Shown(c) /\ AnswerOf(c)' = AnswerOf(c)
  BY <1>1, <1>2 DEF Shown, AnswerOf
<1> QED
  BY <1>3, StutterMaps

-----------------------------------------------------------------------------
\* A verdict of the listener's future that no error of the body replaces.
LEMMA GoneShows ==
  ASSUME IInv, NEW c \in Calls, obj[c] # "none"
  PROVE  Shown(c) = verdict[c]
BY DEF IInv, CallInv, TaskInv, Shown

LEMMA ReceiveMaps ==
  ASSUME IInv, NEW c \in Calls, OthersSame(c), Receive(c)
  PROVE  [Rpc!RNext]_(Rpc!rvars)
<1>1. /\ obj[c] = "queued" /\ told[c] = "nothing" /\ UNCHANGED <<verdict, error, told>>
      /\ obj'[c] \in {"freed", "held"}
  BY HeadOwned DEF Receive, IInv, Typed, UnitTyped, CallInv, AnswerInv
<1>2. Shown(c)' = Shown(c) /\ AnswerOf(c) = "open"
  BY <1>1 DEF Shown, AnswerOf
<1>3. CASE obj'[c] = "freed"
  BY <1>1, <1>2, <1>3, BecomeMaps DEF AnswerOf
<1>4. CASE obj'[c] = "held"
  BY <1>1, <1>2, <1>4, StutterMaps DEF AnswerOf
<1> QED
  BY <1>1, <1>3, <1>4

LEMMA BeginFinishMaps ==
  ASSUME IInv, NEW c \in Calls, OthersSame(c), BeginFinish(c)
  PROVE  [Rpc!RNext]_(Rpc!rvars)
<1>1. obj[c] = "held" /\ Shown(c)' = Shown(c) /\ UNCHANGED <<verdict, error>>
  BY DEF BeginFinish, Shown
<1>2. CASE Cancelled(c) /\ told[c] = "nothing"
  <2>1. told'[c] = "discarded" /\ obj'[c] = "held"
    BY <1>1, <1>2 DEF BeginFinish, Tell, IInv, Typed, UnitTyped
  <2>2. verdict[c] \in {"deadline", "left"}
    BY <1>1, <1>2 DEF Cancelled, IInv, CallInv, GoneInv
  <2>3. AnswerOf(c) = "open" /\ AnswerOf(c)' = "denied"
    BY <1>1, <1>2, <2>1 DEF AnswerOf
  <2> QED
    BY <1>1, <2>2, <2>3, GoneShows, BecomeMaps
<1>3. CASE ~(Cancelled(c) /\ told[c] = "nothing")
  <2>1. told'[c] = told[c] /\ obj'[c] \in {"held", "sending"}
    BY <1>1, <1>3 DEF BeginFinish, Tell, IInv, Typed, UnitTyped
  <2> QED
    BY <1>1, <2>1, StutterMaps DEF AnswerOf
<1> QED
  BY <1>2, <1>3

\* finish() tells the script the truth: the receiver is there or it is not.
LEMMA SendMaps ==
  ASSUME IInv, NEW c \in Calls, OthersSame(c), Send(c)
  PROVE  Rpc!RNext
<1>1. obj[c] = "sending" /\ told[c] = "nothing" /\ obj'[c] = "held" /\ UNCHANGED <<verdict, error>>
  BY DEF Send, IInv, Typed, UnitTyped, CallInv, AnswerInv
<1>2. \/ receiver[c] /\ told'[c] = "ok"
      \/ ~receiver[c] /\ told'[c] = "discarded"
  BY <1>1 DEF Send, Tell, IInv, Typed, UnitTyped
<1>3. IF receiver[c] THEN verdict[c] = "none" ELSE verdict[c] \in {"deadline", "left"}
  BY <1>1 DEF IInv, CallInv, TaskInv, GoneInv
<1>4. Shown(c)' = Shown(c) /\ AnswerOf(c) = "open"
  BY <1>1 DEF Shown, AnswerOf
<1>5. AnswerOf(c)' = IF receiver[c] THEN "given" ELSE "denied"
  BY <1>2 DEF AnswerOf
<1> QED
  BY <1>1, <1>3, <1>4, <1>5, GoneShows, BecomeMaps

LEMMA ReleaseMaps ==
  ASSUME IInv, NEW c \in Calls, OthersSame(c), Free(c) \/ Shed(c)
  PROVE  [Rpc!RNext]_(Rpc!rvars)
<1>1. /\ obj[c] \in {"held", "queued"} /\ obj'[c] = "freed" /\ UNCHANGED <<verdict, error, told>>
  BY HeadOwned DEF Free, Shed, IInv, Typed, UnitTyped
<1>2. Shown(c)' = Shown(c) /\ told[c] \in {"nothing", "ok", "discarded"}
  BY <1>1 DEF Shown, IInv, Typed, UnitTyped
<1>3. CASE told[c] = "nothing"
  BY <1>1, <1>2, <1>3, BecomeMaps DEF AnswerOf
<1>4. CASE told[c] # "nothing"
  BY <1>1, <1>2, <1>4, StutterMaps DEF AnswerOf
<1> QED
  BY <1>3, <1>4

\* A step that tells the script nothing and moves no object.
LEMMA QuietMaps ==
  ASSUME UNCHANGED <<verdict, error, obj, told>>
  PROVE  UNCHANGED Rpc!rvars
<1>1. \A d \in Calls : Shown(d)' = Shown(d) /\ AnswerOf(d)' = AnswerOf(d)
  BY DEF Shown, AnswerOf
<1> QED
  BY <1>1 DEF Rpc!rvars

LEMMA EndThreadMaps == IInv /\ EndThread => Rpc!RNext
<1> SUFFICES ASSUME IInv, EndThread PROVE Rpc!RNext
  OBVIOUS
<1>1. /\ \A c \in Calls : obj'[c] = IF obj[c] = "queued" THEN "swept" ELSE obj[c]
      /\ UNCHANGED <<verdict, error, told>>
  BY DEF EndThread, Queued
<1>2. \A c \in Queued : told[c] = "nothing" /\ obj[c] = "queued"
  BY DEF Queued, IInv, CallInv, AnswerInv
<1>3. /\ \A c \in Calls : Shown(c)' = Shown(c)
      /\ \A c \in Queued : AnswerOf(c) = "open" /\ AnswerOf(c)' = "never"
      /\ \A c \in Calls \ Queued : AnswerOf(c)' = AnswerOf(c)
  BY <1>1, <1>2 DEF Shown, AnswerOf, Queued
<1>4. Queued \in SUBSET Calls
  BY DEF Queued
<1>5. [d \in Calls |-> Shown(d)]' = [d \in Calls |-> Shown(d)]
  BY <1>3
<1>6. [d \in Calls |-> AnswerOf(d)]'
        = [d \in Calls |-> IF d \in Queued THEN "never" ELSE [e \in Calls |-> AnswerOf(e)][d]]
  BY <1>3
<1>7. Rpc!ForgoAll
  BY <1>3, <1>4, <1>5, <1>6 DEF Rpc!ForgoAll
<1> QED
  BY <1>7 DEF Rpc!RNext

LEMMA StepMaps == IInv /\ [Next]_vars => [Rpc!RNext]_(Rpc!rvars)
<1> SUFFICES ASSUME IInv, [Next]_vars PROVE [Rpc!RNext]_(Rpc!rvars)
  OBVIOUS
<1>1. ASSUME NEW c \in Calls, CallStep(c) PROVE [Rpc!RNext]_(Rpc!rvars)
  <2>1. CASE Arrive(c) \/ Frame(c) \/ ReadFails(c) \/ Dispatch(c) \/ Unary(c) \/ Submitted(c)
    BY <2>1, ListenerMaps, ArriveKeeps, FrameKeeps, ReadFailsKeeps, DispatchKeeps, UnaryKeeps,
       SubmittedKeeps
  <2>2. CASE TakeReply(c) \/ Close(c)
    BY <2>2, TakeReplyMaps, CloseMaps, TakeReplyKeeps, CloseKeeps
  <2>3. CASE Deadline(c) \/ Leave(c)
    BY <2>3, DropMaps, DropKeeps DEF Deadline, Leave
  <2>4. CASE Receive(c) \/ BeginFinish(c) \/ Send(c)
    BY <2>4, ReceiveMaps, BeginFinishMaps, SendMaps, ReceiveKeeps, BeginFinishKeeps, SendKeeps
  <2>5. CASE Free(c) \/ Shed(c)
    BY <2>5, ReleaseMaps, FreeKeeps, ShedKeeps
  <2>6. CASE Add(c)
    BY <2>6, QuietMaps DEF Add
  <2> QED
    BY <1>1, <2>1, <2>2, <2>3, <2>4, <2>5, <2>6 DEF CallStep, Listener, Script
<1>2. CASE BootFails \/ Boots \/ StopIntake \/ Finished \/ DiscardLeft \/ UNCHANGED vars
  <2>1. UNCHANGED <<verdict, error, obj, told>>
    BY <1>2 DEF BootFails, Boots, StopIntake, Finished, DiscardLeft, vars, state
  <2> QED
    BY <2>1, QuietMaps
<1>3. CASE EndThread
  BY <1>3, EndThreadMaps
<1> QED
  BY <1>1, <1>2, <1>3 DEF Next, CallStep

\* Every call is a UnaryRpc: the client gets one verdict, and the script is told
\* truly whether its answer was in time (crates/plugins/grpc/src/php/call.rs,
\* finish(); dispatch.rs, unary()).
THEOREM CallsAreRpcs == Spec => ImplementsRpc
<1>1. Init => Rpc!RInit
  BY DEF Init, Rpc!RInit, Shown, AnswerOf
<1> QED
  BY <1>1, StepMaps, CallInvariance, PTL DEF Spec, ImplementsRpc, Rpc!RSpec
=============================================================================
