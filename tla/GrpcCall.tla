------------------------------- MODULE GrpcCall -------------------------------
(***************************************************************************)
(* Unary gRPC calls from the listener to PHP and back (crates/plugins/     *)
(* grpc/src: serve.rs, dispatch.rs, php/call.rs; receive_into and          *)
(* release() of crates/sapi/src).  The task of a call buffers the request  *)
(* under a share of the pool's body budget, queues a unit, and awaits one  *)
(* message on a oneshot channel.  connectrpc drops the task's future at    *)
(* its deadline or when the client leaves; the dropped receiver is what    *)
(* PHP sees as a cancellation.  Intake models the queue itself.            *)
(*                                                                         *)
(* task: new      not arrived            obj: none    not built            *)
(*       reading  RequestBody is polled       queued  in the intake        *)
(*       message  the body is complete        held    attached to an       *)
(*       slot     waits in submit()                   object of the script *)
(*       reply    awaits the channel          sending finish() has taken   *)
(*       closing  has its outcome, may                its sender           *)
(*                hold its budget             freed   its Box is dropped   *)
(*       done     answered                    swept   the queue took it    *)
(*                                                    along                *)
(***************************************************************************)
EXTENDS Integers, Sequences, FiniteSets, Functions

CONSTANTS Calls,
          Budget,    \* BODY_BUDGET
          Slots,     \* INTAKE_SLOTS
          MaxBody,   \* bound: bytes of a request message
          MaxFields, \* bound: metadata fields that the script adds to a call
          NoCall, NoReply

ASSUME CallConstants ==
  /\ IsFiniteSet(Calls)
  /\ Budget \in Nat /\ Slots \in Nat \ {0}
  /\ MaxBody \in Nat /\ MaxFields \in Nat
  /\ NoCall \notin Calls
  /\ NoReply \notin [outcome : {"message", "status", "refused"}, fields : Nat]

VARIABLES
  task,
  verdict,   \* what the client got, or why it gets nothing
  held,      \* RequestBudget.held, then Entry._bytes: reserved bytes
  owned,     \* the permit exists: it is in the budget, the entry or the task
  error,     \* RequestBudget.error
  free,      \* Intake.budget
  queue,     \* the intake's channel
  stop,      \* 0, 1: the intake is closed, 2: its receivers are gone
  obj,
  sender,    \* GrpcState.reply is Some
  receiver,  \* the task holds the other end
  chan,      \* the message in the channel
  discarded, \* GrpcState.discarded
  fields,    \* GrpcState.headers and trailers, counted
  told,      \* history: what the first finalize call returned
  handled, shed, \* slot counters of this call's events
  unit,      \* exchange::UNIT
  thread     \* serving, shedding (the boot failed) or gone

budget == <<held, owned, free>>
state  == <<sender, discarded, fields, told>>
counts == <<handled, shed>>
vars   == <<task, verdict, budget, error, queue, stop, obj, receiver, chan, state, counts, unit,
            thread>>

Init ==
  /\ task = [c \in Calls |-> "new"]
  /\ verdict = [c \in Calls |-> "none"]
  /\ held = [c \in Calls |-> 0] /\ owned = [c \in Calls |-> FALSE]
  /\ error = [c \in Calls |-> "none"]
  /\ free = Budget
  /\ queue = <<>> /\ stop = 0
  /\ obj = [c \in Calls |-> "none"]
  /\ sender = [c \in Calls |-> FALSE] /\ receiver = [c \in Calls |-> FALSE]
  /\ chan = [c \in Calls |-> NoReply]
  /\ discarded = [c \in Calls |-> FALSE]
  /\ fields = [c \in Calls |-> 0]
  /\ told = [c \in Calls |-> "nothing"]
  /\ handled = [c \in Calls |-> 0] /\ shed = [c \in Calls |-> 0]
  /\ unit = NoCall /\ thread = "serving"

Step(c, t) == task' = [task EXCEPT ![c] = t]
At(c, t) == task[c] = t

-----------------------------------------------------------------------------
(* The listener.  A Broken... operator stands for one plausible bug of the *)
(* operator after it; no specification uses it.                            *)

\* The permit is dropped, with every byte that was merged into it.
ReturnBytes(c) ==
  /\ free' = free + held[c]
  /\ held' = [held EXCEPT ![c] = 0]
  /\ owned' = [owned EXCEPT ![c] = FALSE]

\* Intake::grow_body, to n bytes in all.
Extra(c, n) == LET wanted == IF n < Budget THEN n ELSE Budget
               IN IF wanted > held[c] THEN wanted - held[c] ELSE 0

Grows(c, n) == Extra(c, n) > 0 => stop = 0 /\ Extra(c, n) <= free

Grow(c, n) ==
  /\ Grows(c, n)
  /\ held' = [held EXCEPT ![c] = @ + Extra(c, n)]
  /\ free' = free - Extra(c, n)
  /\ UNCHANGED owned

\* The outcome of the service future; the budget is still to be looked at.
Outcome(c, v) == Step(c, "closing") /\ verdict' = [verdict EXCEPT ![c] = v]

\* A request arrives: an empty reservation, refused once the intake is closed.
Arrive(c) ==
  /\ At(c, "new")
  /\ IF stop = 0
     THEN Step(c, "reading") /\ owned' = [owned EXCEPT ![c] = TRUE] /\ UNCHANGED verdict
     ELSE /\ Step(c, "done") /\ verdict' = [verdict EXCEPT ![c] = "unavailable"]
          /\ UNCHANGED owned
  /\ UNCHANGED <<held, free, error, queue, stop, obj, receiver, chan, state, counts, unit, thread>>

\* RequestBody::poll_frame with a data frame: the reservation grows with it.
Frame(c) ==
  /\ At(c, "reading") /\ held[c] < MaxBody
  /\ \/ Grow(c, held[c] + 1) /\ UNCHANGED <<task, verdict, error>>
     \/ /\ ~Grows(c, held[c] + 1)
        /\ error' = [error EXCEPT ![c] = "unavailable"]
        /\ Outcome(c, "read_error")
        /\ UNCHANGED budget
  /\ UNCHANGED <<queue, stop, obj, receiver, chan, state, counts, unit, thread>>

\* The idle timer of the body, or the transport's own error.
ReadFails(c) ==
  /\ At(c, "reading")
  /\ \E e \in {"idle", "none"} : error' = [error EXCEPT ![c] = e]
  /\ Outcome(c, "read_error")
  /\ UNCHANGED <<budget, queue, stop, obj, receiver, chan, state, counts, unit, thread>>

\* The body is complete, and lookup() knows the method or not.
Dispatch(c) ==
  /\ At(c, "reading")
  /\ \/ Step(c, "message") /\ UNCHANGED verdict
     \/ Outcome(c, "unimplemented")
  /\ UNCHANGED <<budget, error, queue, stop, obj, receiver, chan, state, counts, unit, thread>>

-----------------------------------------------------------------------------
(* unary(): the future that a deadline or a departing client drops.         *)

\* The unit and its two channel ends are built; submit() queues it or waits.
Enqueue(c) ==
  /\ queue' = Append(queue, c)
  /\ obj' = [obj EXCEPT ![c] = "queued"]
  /\ Step(c, "reply")

NewUnit(c) ==
  /\ sender' = [sender EXCEPT ![c] = TRUE]
  /\ receiver' = [receiver EXCEPT ![c] = TRUE]

\* A message that JSON transcoding has made longer reserves the rest first.
Unary(c) ==
  /\ At(c, "message")
  /\ \/ Outcome(c, "invalid") \* the JSON does not decode
        /\ UNCHANGED <<budget, queue, obj, sender, receiver>>
     \/ \E n \in 0 .. MaxBody :
          \/ ~Grows(c, n) /\ ReturnBytes(c) /\ Outcome(c, "unavailable")
             /\ UNCHANGED <<queue, obj, sender, receiver>>
          \/ /\ stop = 0 /\ Len(queue) < Slots
             /\ Grow(c, n) /\ NewUnit(c) /\ Enqueue(c) /\ UNCHANGED verdict
          \/ /\ stop = 0 /\ Len(queue) = Slots
             /\ Grow(c, n) /\ NewUnit(c) /\ Step(c, "slot") /\ UNCHANGED <<verdict, queue, obj>>
          \/ stop # 0 /\ Grows(c, n) /\ ReturnBytes(c) /\ Outcome(c, "unavailable")
             /\ UNCHANGED <<queue, obj, sender, receiver>>
  /\ UNCHANGED <<error, stop, chan, discarded, fields, told, counts, unit, thread>>

DropUnit(c) == sender' = [sender EXCEPT ![c] = FALSE] /\ receiver' = [receiver EXCEPT ![c] = FALSE]

\* submit() has waited for a slot: it gets one, times out, or is stopped.
Submitted(c) ==
  /\ At(c, "slot")
  /\ \/ /\ stop = 0 /\ Len(queue) < Slots
        /\ Enqueue(c)
        /\ UNCHANGED <<verdict, budget, sender, receiver>>
     \/ /\ ReturnBytes(c) /\ DropUnit(c) /\ Outcome(c, "unavailable")
        /\ UNCHANGED <<queue, obj>>
  /\ UNCHANGED <<error, stop, chan, discarded, fields, told, counts, unit, thread>>

\* The reply of the script, unless it does not decode as JSON; else it was lost.
VerdictOf(c) ==
  IF chan[c] = NoReply THEN {"lost"}
  ELSE IF chan[c].outcome = "message" THEN {"message", "undecodable"} ELSE {chan[c].outcome}

BrokenSettled(c) == chan[c] # NoReply

Settled(c) == chan[c] # NoReply \/ (~sender[c] /\ obj[c] # "sending")

\* The channel holds the outcome, or the sender is dropped.
TakeReply(c) ==
  /\ At(c, "reply") /\ Settled(c)
  /\ \E v \in VerdictOf(c) : Outcome(c, v)
  /\ receiver' = [receiver EXCEPT ![c] = FALSE]
  /\ UNCHANGED <<budget, error, queue, stop, obj, chan, state, counts, unit, thread>>

\* connectrpc drops the future: what it owns goes with it, but not a queued unit.
DropFuture(c, v) ==
  /\ task[c] \in {"reading", "message", "slot", "reply"}
  /\ IF At(c, "slot") THEN ReturnBytes(c) ELSE UNCHANGED budget
  /\ sender' = [sender EXCEPT ![c] = @ /\ ~At(c, "slot")]
  /\ receiver' = [receiver EXCEPT ![c] = FALSE]
  /\ Outcome(c, v)
  /\ UNCHANGED <<error, queue, stop, obj, chan, discarded, fields, told, counts, unit, thread>>

Deadline(c) == DropFuture(c, "deadline")
Leave(c) == DropFuture(c, "left")

\* The service function takes back a budget that unary() did not take, and an
\* error of the body replaces whatever connectrpc made of it.
Close(c) ==
  /\ At(c, "closing")
  /\ Step(c, "done")
  /\ verdict' = [verdict EXCEPT ![c] = IF error[c] # "none" /\ @ # "left" THEN error[c] ELSE @]
  /\ IF owned[c] /\ obj[c] = "none" THEN ReturnBytes(c) ELSE UNCHANGED budget
  /\ UNCHANGED <<error, queue, stop, obj, receiver, chan, state, counts, unit, thread>>

-----------------------------------------------------------------------------
(* PHP.  GrpcState lives in the queue, then in the script's object.         *)

Settles(c) == ~sender[c]
Cancelled(c) == discarded[c] \/ (sender[c] /\ ~receiver[c])

CountHandled(c) == handled' = [handled EXCEPT ![c] = @ + 1]

BrokenDiscard(c) == discarded' = [discarded EXCEPT ![c] = TRUE] /\ CountHandled(c) /\ UNCHANGED sender

\* Held::discard of a unit that is not settled.
Discard(c) ==
  /\ discarded' = [discarded EXCEPT ![c] = TRUE]
  /\ sender' = [sender EXCEPT ![c] = FALSE]
  /\ CountHandled(c)

\* The first answer that a finalize call gives the script.
Tell(c, what) == told' = [told EXCEPT ![c] = IF @ = "nothing" THEN what ELSE @]

\* receive() looks at the unit it gave out before it takes another.
DiscardLeft ==
  /\ thread = "serving" /\ unit # NoCall
  /\ ~Settles(unit) /\ Cancelled(unit)
  /\ Discard(unit)
  /\ UNCHANGED <<task, verdict, budget, error, queue, stop, obj, receiver, chan, fields, told, shed,
                 unit, thread>>

\* A dequeued entry drops its permits; a cancelled unit is dropped and counted.
Dequeue(c) ==
  /\ queue # <<>> /\ c = Head(queue)
  /\ queue' = Tail(queue)
  /\ ReturnBytes(c)

Receive(c) ==
  /\ thread = "serving" /\ stop < 2
  /\ unit # NoCall => Settles(unit)
  /\ Dequeue(c)
  /\ IF Cancelled(c)
     THEN /\ obj' = [obj EXCEPT ![c] = "freed"]
          /\ sender' = [sender EXCEPT ![c] = FALSE]
          /\ shed' = [shed EXCEPT ![c] = @ + 1]
          /\ UNCHANGED unit
     ELSE /\ obj' = [obj EXCEPT ![c] = "held"]
          /\ unit' = c
          /\ UNCHANGED <<sender, shed>>
  /\ UNCHANGED <<task, verdict, error, stop, receiver, chan, discarded, fields, told, handled,
                 thread>>

BrokenMayAdd(c) == fields[c] < MaxFields

\* Metadata that passed the checks of add_core, on a call that is not settled.
MayAdd(c) == fields[c] < MaxFields /\ ~Settles(c)

Add(c) ==
  /\ obj[c] = "held" /\ MayAdd(c)
  /\ fields' = [fields EXCEPT ![c] = @ + 1]
  /\ UNCHANGED <<task, verdict, budget, error, queue, stop, obj, receiver, chan, sender, discarded,
                 told, counts, unit, thread>>

\* finish(), for respond() with a message or fail() with a status: a call that
\* the plugin closed is discarded, else the sender is taken.
BeginFinish(c) ==
  /\ obj[c] = "held"
  /\ IF Cancelled(c)
     THEN /\ Tell(c, "discarded")
          /\ IF Settles(c) THEN UNCHANGED <<discarded, sender, handled>> ELSE Discard(c)
          /\ UNCHANGED obj
     ELSE /\ ~Settles(c)
          /\ obj' = [obj EXCEPT ![c] = "sending"]
          /\ sender' = [sender EXCEPT ![c] = FALSE]
          /\ UNCHANGED <<discarded, told, handled>>
  /\ UNCHANGED <<task, verdict, budget, error, queue, stop, receiver, chan, fields, shed, unit, thread>>

\* respond() gives a message, fail() a status with its details.
Answers == {"message", "status"}

BrokenSend(c) ==
  /\ obj[c] = "sending"
  /\ obj' = [obj EXCEPT ![c] = "held"]
  /\ CountHandled(c)
  /\ Tell(c, "ok")
  /\ \E o \in Answers :
       chan' = [chan EXCEPT ![c] = IF receiver[c] THEN [outcome |-> o, fields |-> fields[c]] ELSE @]
  /\ UNCHANGED discarded
  /\ UNCHANGED <<task, verdict, budget, error, queue, stop, receiver, sender, fields, shed, unit, thread>>

\* The send, which fails if the receiver went after finish() had looked.
Send(c) ==
  /\ obj[c] = "sending"
  /\ obj' = [obj EXCEPT ![c] = "held"]
  /\ CountHandled(c)
  /\ IF receiver[c]
     THEN /\ \E o \in Answers :
                chan' = [chan EXCEPT ![c] = [outcome |-> o, fields |-> fields[c]]]
          /\ Tell(c, "ok") /\ UNCHANGED discarded
     ELSE /\ discarded' = [discarded EXCEPT ![c] = TRUE]
          /\ Tell(c, "discarded") /\ UNCHANGED chan
  /\ UNCHANGED <<task, verdict, budget, error, queue, stop, receiver, sender, fields, shed, unit, thread>>

\* forget_held: the cycle slot is cleared if it points at this unit.
Forget(c) == unit' = IF unit = c THEN NoCall ELSE unit

\* free_obj, or the end of the cycle, releases the state.
Free(c) ==
  /\ obj[c] = "held"
  /\ obj' = [obj EXCEPT ![c] = "freed"]
  /\ Forget(c)
  /\ IF Settles(c) THEN UNCHANGED handled ELSE CountHandled(c)
  /\ sender' = [sender EXCEPT ![c] = FALSE]
  /\ UNCHANGED <<task, verdict, budget, error, queue, stop, receiver, chan, discarded, fields, told,
                 shed, thread>>

\* A cycle whose boot fails sheds what waits; all its objects are freed.
BootFails ==
  /\ thread = "serving" /\ \A c \in Calls : obj[c] \notin {"held", "sending"}
  /\ thread' = "shedding"
  /\ UNCHANGED <<task, verdict, budget, error, queue, stop, obj, receiver, chan, state, counts, unit>>

Boots ==
  /\ thread = "shedding" /\ thread' = "serving"
  /\ UNCHANGED <<task, verdict, budget, error, queue, stop, obj, receiver, chan, state, counts, unit>>

\* Work::shed answers UNAVAILABLE without metadata.
Shed(c) ==
  /\ thread = "shedding" /\ stop = 0
  /\ Dequeue(c)
  /\ obj' = [obj EXCEPT ![c] = "freed"]
  /\ sender' = [sender EXCEPT ![c] = FALSE]
  /\ chan' = [chan EXCEPT ![c] = IF receiver[c] THEN [outcome |-> "refused", fields |-> 0] ELSE @]
  /\ shed' = [shed EXCEPT ![c] = @ + 1]
  /\ UNCHANGED <<task, verdict, error, stop, receiver, discarded, fields, told, handled, unit, thread>>

-----------------------------------------------------------------------------
\* Intake::close, then the end of the last thread, which destroys the queue.
StopIntake ==
  /\ stop = 0 /\ stop' = 1
  /\ UNCHANGED <<task, verdict, budget, error, queue, obj, receiver, chan, state, counts, unit, thread>>

Queued == {c \in Calls : obj[c] = "queued"}

EndThread ==
  /\ stop = 1 /\ \A c \in Calls : obj[c] \notin {"held", "sending"}
  /\ stop' = 2 /\ thread' = "gone" /\ queue' = <<>>
  /\ obj' = [c \in Calls |-> IF c \in Queued THEN "swept" ELSE obj[c]]
  /\ sender' = [c \in Calls |-> sender[c] /\ c \notin Queued]
  /\ free' = free + SumFunctionOnSet(held, Queued)
  /\ held' = [c \in Calls |-> IF c \in Queued THEN 0 ELSE held[c]]
  /\ owned' = [c \in Calls |-> owned[c] /\ c \notin Queued]
  /\ UNCHANGED <<task, verdict, error, receiver, chan, discarded, fields, told, counts, unit>>

Finished ==
  /\ \A c \in Calls : task[c] \in {"new", "done"} /\ obj[c] \in {"none", "freed", "swept"}
  /\ stop = 2
  /\ UNCHANGED vars

Listener(c) == Frame(c) \/ Dispatch(c) \/ Unary(c) \/ Submitted(c) \/ TakeReply(c) \/ Close(c)
\* One thread runs the script: nothing else of it happens inside finish().
Idle == \A c \in Calls : obj[c] # "sending"

Script(c) == Send(c) \/ (Idle /\ (Receive(c) \/ Add(c) \/ BeginFinish(c) \/ Free(c)))

Next ==
  \/ \E c \in Calls : Arrive(c) \/ Listener(c) \/ ReadFails(c) \/ Deadline(c) \/ Leave(c)
                      \/ Script(c) \/ Shed(c)
  \/ Idle /\ DiscardLeft
  \/ BootFails \/ Boots \/ StopIntake \/ EndThread \/ Finished

Spec == Init /\ [][Next]_vars

\* Tasks with something to do are polled, the timer of an idle body fires, and
\* submit() ends its wait.  Of the application: a script receives, and lets go
\* of what it holds; a stopped pool's thread ends.
Fairness ==
  /\ \A c \in Calls :
       /\ WF_vars(ReadFails(c) \/ Dispatch(c))
       /\ WF_vars(Unary(c)) /\ WF_vars(Submitted(c)) /\ WF_vars(TakeReply(c)) /\ WF_vars(Close(c))
       /\ WF_vars((Idle /\ Receive(c)) \/ Shed(c)) /\ WF_vars(Idle /\ Free(c)) /\ WF_vars(Send(c))
  /\ WF_vars(Idle /\ DiscardLeft) /\ WF_vars(EndThread) /\ WF_vars(Boots)

FairSpec == Spec /\ Fairness

-----------------------------------------------------------------------------
(* Properties.                                                             *)

\* Each byte of the body budget is free or in a permit that something owns: the
\* request body, a waiting submission or a queue entry; a finished call has none.
BudgetReturned ==
  /\ free + SumFunctionOnSet(held, Calls) = Budget
  /\ \A c \in Calls : /\ held[c] > 0 => owned[c]
                      /\ owned[c] => task[c] \notin {"new", "done"} \/ obj[c] = "queued"

\* A call that a thread took off the queue is counted once: shed if no script saw
\* it, else handled, by its answer, its discard or its release, in any order.
CountedOnce ==
  \A c \in Calls :
    handled[c] + shed[c] =
      IF obj[c] = "freed" \/ (obj[c] = "held" /\ Settles(c)) THEN 1 ELSE 0

\* Nothing of a call is lost or counted twice, however its ends race: its bytes
\* return and an operator's counters name it once.
CallAccounted == BudgetReturned /\ CountedOnce

\* The reply carries every metadata field that the script was told is accepted.
ReplyIsWhole ==
  \A c \in Calls :
    chan[c] # NoReply /\ chan[c].outcome # "refused" => chan[c].fields = fields[c]

\* What the client has, with the error of the body that Close() puts in.
Shown(c) == IF verdict[c] = "read_error" /\ error[c] # "none" THEN error[c] ELSE verdict[c]

\* What became of the script's answer.
AnswerOf(c) ==
  IF told[c] # "nothing" THEN IF told[c] = "ok" THEN "given" ELSE "denied"
  ELSE IF obj[c] \in {"freed", "swept"} THEN "never" ELSE "open"

Rpc == INSTANCE UnaryRpc WITH verdict <- [c \in Calls |-> Shown(c)],
                              answer <- [c \in Calls |-> AnswerOf(c)]

\* Each call is a UnaryRpc: one verdict, and a script that is told truly whether
\* its answer was in time, however the deadline and the answer race.
ImplementsRpc == Rpc!RSpec

\* Every call that arrives is answered, dropped by its deadline or left by its
\* client, through full queues, failed boots, lost objects and a stop.
CallEnds == \A c \in Calls : At(c, "reading") ~> At(c, "done")
=============================================================================
