------------------------------- MODULE Intake -------------------------------
(***************************************************************************)
(* The queue between a plugin's tasks and the PHP threads of its pool      *)
(* (crates/sapi/src/work.rs, and the receiving side in start.rs).          *)
(*                                                                         *)
(* A request reserves body bytes while it is read, arms the pending gauge, *)
(* takes one of the intake slots (at once, or by waiting at most           *)
(* INTAKE_WAIT), and sends one Entry that owns both permits.  A PHP thread *)
(* dequeues the entry, decrements the gauge and drops the permits, in that *)
(* order and not atomically.  Rapira::stop() closes the semaphores and     *)
(* wakes the threads in four steps; the queue is destroyed with the last   *)
(* receiver.                                                               *)
(*                                                                         *)
(* phase[r] says where request r is, and therefore which permits it owns:  *)
(*   new        not read yet            queued     its Entry is in the     *)
(*   buffering  its body is being read             channel                 *)
(*   armed      in submit(), counted    taken      dequeued, still counted *)
(*   waiting    in the slot wait list   uncounted  dequeued, not counted,  *)
(*   granted    the semaphore assigned             permits still owned     *)
(*              it a slot, not polled   delivered  a PHP thread owns it    *)
(*   slotted    owns a slot, not sent   destroyed  dropped with the queue  *)
(*   dropping   refused, guard armed    refused    the plugin was told     *)
(***************************************************************************)
EXTENDS Integers, Sequences, FiniteSets, Functions

CONSTANTS Requests, \* requests that reach the plugin
          Workers,  \* PHP threads of the pool
          Slots,    \* INTAKE_SLOTS
          Budget,   \* BODY_BUDGET
          Bodies,   \* the body sizes a request may have read so far
          NoUnit    \* an empty hand

ASSUME IntakeConstants ==
  /\ IsFiniteSet(Requests)
  /\ Workers # {}
  /\ Slots \in Nat \ {0}
  /\ Budget \in Nat \ {0}
  /\ Bodies \subseteq Nat
  /\ NoUnit \notin Requests

VARIABLES
  phase,        \* [Requests -> Phase]
  verdict,      \* [Requests -> Verdict], why the request was refused
  held,         \* [Requests -> Nat], body bytes its budget permit holds
  found_full,   \* [Requests -> BOOLEAN], PendingGuard.found_full
  budget,       \* free permits of the body budget
  slots,        \* free permits of the slot semaphore
  queue,        \* the channel, a sequence of requests
  wstate,       \* [Workers -> WState]
  hand,         \* [Workers -> Requests \cup {NoUnit}]
  late,         \* [Workers -> Nat], units dequeued after `stopping` was set
  pending, shed, failed_on_full_queue, \* the Pool gauges
  stop          \* how far Rapira::stop() has come, 0..4

admission == <<phase, verdict, held, found_full, budget, slots>>
receivers == <<wstate, hand, late>>
gauges    == <<pending, shed, failed_on_full_queue>>
vars      == <<admission, queue, receivers, gauges, stop>>

Phase == {"new", "buffering", "armed", "waiting", "granted", "slotted",
          "dropping", "queued", "taken", "uncounted", "delivered",
          "destroyed", "refused"}
Verdict == {"none", "Stopped", "OverBudget", "Saturated", "Cancelled"}
WState == {"php", "receiving", "counting", "releasing", "exited"}

\* The prefixes of Rapira::stop(): the flag, the two closed semaphores, and
\* the dropped stop channel.
Stopping     == stop >= 1
BudgetClosed == stop >= 2
SlotsClosed  == stop >= 3
StopDropped  == stop >= 4

\* Every receiver is gone: a send fails, and the channel drops what it holds.
ReceiversGone == \A w \in Workers : wstate[w] = "exited"

InPhase(S) == {r \in Requests : phase[r] \in S}

\* The requests that own a slot permit, and the requests the gauge counts.
OwnerPhases   == {"granted", "slotted", "queued", "taken", "uncounted"}
CountedPhases == {"armed", "waiting", "granted", "slotted", "dropping",
                  "queued", "taken", "destroyed"}
SlotOwners == InPhase(OwnerPhases)
Counted    == InPhase(CountedPhases)

Init ==
  /\ phase = [r \in Requests |-> "new"]
  /\ verdict = [r \in Requests |-> "none"]
  /\ held = [r \in Requests |-> 0]
  /\ found_full = [r \in Requests |-> FALSE]
  /\ budget = Budget
  /\ slots = Slots
  /\ queue = <<>>
  /\ wstate = [w \in Workers |-> "php"]
  /\ hand = [w \in Workers |-> NoUnit]
  /\ late = [w \in Workers |-> 0]
  /\ pending = 0
  /\ shed = 0
  /\ failed_on_full_queue = 0
  /\ stop = 0

-----------------------------------------------------------------------------
(* Steps shared by the operations.  A Broken... operator stands for one     *)
(* plausible bug of the operator after it; no specification uses it: it     *)
(* shows that a property below can fail.                                    *)

\* Dropping r's body permit.
DropBytes(r) == budget' = budget + held[r] /\ held' = [held EXCEPT ![r] = 0]

\* Dropping a slot permit while the phases become `next`: an open semaphore
\* hands the permit to a waiter, a closed one only counts it.
DropSlot(next) ==
  \/ /\ ~SlotsClosed
     /\ \E h \in InPhase({"waiting"}) : phase' = [next EXCEPT ![h] = "granted"]
     /\ slots' = slots
  \/ /\ SlotsClosed \/ InPhase({"waiting"}) = {}
     /\ phase' = next
     /\ slots' = slots + 1

\* An error return of submit(): the guard is still to be dropped.
Refuse(r, why) ==
  /\ phase' = [phase EXCEPT ![r] = "dropping"]
  /\ verdict' = [verdict EXCEPT ![r] = why]

BrokenRefuseBody(r, why) ==
  /\ phase' = [phase EXCEPT ![r] = "refused"]
  /\ verdict' = [verdict EXCEPT ![r] = why]
  /\ UNCHANGED <<held, budget>>

\* An error or an early end before submit(): nothing but the body is held.
RefuseBody(r, why) ==
  /\ phase' = [phase EXCEPT ![r] = "refused"]
  /\ verdict' = [verdict EXCEPT ![r] = why]
  /\ DropBytes(r)

-----------------------------------------------------------------------------
(* The plugin's side: Intake.                                              *)

\* reserve_body(0) before the first frame of the body.
Reserve(r) ==
  /\ phase[r] = "new"
  /\ \/ BudgetClosed /\ RefuseBody(r, "Stopped")
     \/ /\ ~BudgetClosed
        /\ phase' = [phase EXCEPT ![r] = "buffering"]
        /\ UNCHANGED <<verdict, held, budget>>
  /\ UNCHANGED <<found_full, slots, queue, receivers, gauges, stop>>

\* The part of a body of n bytes that the held permit does not cover yet.
Extra(r, n) == (IF n < Budget THEN n ELSE Budget) - held[r]

\* grow_body: merge the missing bytes, or refuse without waiting.
GrowBody(r, n) ==
  /\ phase[r] = "buffering"
  /\ Extra(r, n) > 0
  /\ \/ /\ ~BudgetClosed /\ Extra(r, n) <= budget
        /\ budget' = budget - Extra(r, n)
        /\ held' = [held EXCEPT ![r] = @ + Extra(r, n)]
        /\ UNCHANGED <<phase, verdict, shed>>
     \/ /\ ~BudgetClosed /\ Extra(r, n) > budget
        /\ shed' = shed + 1
        /\ RefuseBody(r, "OverBudget")
     \/ BudgetClosed /\ RefuseBody(r, "Stopped") /\ UNCHANGED shed
  /\ UNCHANGED <<found_full, slots, queue, receivers, pending,
                 failed_on_full_queue, stop>>

\* The plugin gives a body up while it reads it: the client left, was too
\* slow, or sent too much.
Abandon(r) ==
  /\ phase[r] = "buffering"
  /\ RefuseBody(r, "Cancelled")
  /\ UNCHANGED <<found_full, slots, queue, receivers, gauges, stop>>

\* submit: PendingGuard::arm.
Arm(r) ==
  /\ phase[r] = "buffering"
  /\ phase' = [phase EXCEPT ![r] = "armed"]
  /\ pending' = pending + 1
  /\ UNCHANGED <<verdict, held, found_full, budget, slots, queue, receivers,
                 shed, failed_on_full_queue, stop>>

\* submit: try_acquire_owned on the slots.
TakeSlot(r) ==
  /\ phase[r] = "armed"
  /\ \/ SlotsClosed /\ Refuse(r, "Stopped") /\ UNCHANGED <<slots, found_full>>
     \/ /\ ~SlotsClosed /\ slots > 0
        /\ phase' = [phase EXCEPT ![r] = "slotted"]
        /\ slots' = slots - 1
        /\ UNCHANGED <<verdict, found_full>>
     \/ /\ ~SlotsClosed /\ slots = 0
        /\ phase' = [phase EXCEPT ![r] = "waiting"]
        /\ found_full' = [found_full EXCEPT ![r] = TRUE]
        /\ UNCHANGED <<verdict, slots>>
  /\ UNCHANGED <<held, budget, queue, receivers, gauges, stop>>

BrokenPollAcquireDeaf(r) ==
  /\ phase[r] = "granted"
  /\ phase' = [phase EXCEPT ![r] = "slotted"]
  /\ UNCHANGED <<verdict, slots, held, found_full, budget, queue, receivers, gauges, stop>>

\* submit: the acquire future is polled with a slot assigned, or closed.  A
\* closed semaphore refuses even an assigned waiter, and takes the slot back.
PollAcquire(r) ==
  /\ \/ /\ phase[r] = "granted" /\ ~SlotsClosed
        /\ phase' = [phase EXCEPT ![r] = "slotted"]
        /\ UNCHANGED <<verdict, slots>>
     \/ /\ phase[r] = "granted" /\ SlotsClosed
        /\ DropSlot([phase EXCEPT ![r] = "dropping"])
        /\ verdict' = [verdict EXCEPT ![r] = "Stopped"]
     \/ phase[r] = "waiting" /\ SlotsClosed /\ Refuse(r, "Stopped") /\ UNCHANGED slots
  /\ UNCHANGED <<held, found_full, budget, queue, receivers, gauges, stop>>

\* submit: INTAKE_WAIT elapsed.  timeout() polls the acquire first, so only a
\* waiter with no slot and an open semaphore times out.
TimeOut(r) ==
  /\ phase[r] = "waiting" /\ ~SlotsClosed
  /\ Refuse(r, "Saturated")
  /\ shed' = shed + 1
  /\ UNCHANGED <<held, found_full, budget, slots, queue, receivers, pending,
                 failed_on_full_queue, stop>>

BrokenCancel(r) ==
  /\ phase[r] \in {"waiting", "granted"}
  /\ phase' = [phase EXCEPT ![r] = "dropping"]
  /\ slots' = slots + (IF phase[r] = "granted" THEN 1 ELSE 0)
  /\ verdict' = [verdict EXCEPT ![r] = "Cancelled"]
  /\ UNCHANGED <<held, found_full, budget, queue, receivers, gauges, stop>>

\* The plugin drops the submit future in the slot wait: the client left.  A
\* slot that was already assigned goes back to the semaphore.
Cancel(r) ==
  /\ \/ phase[r] = "waiting" /\ phase' = [phase EXCEPT ![r] = "dropping"] /\ UNCHANGED slots
     \/ phase[r] = "granted" /\ DropSlot([phase EXCEPT ![r] = "dropping"])
  /\ verdict' = [verdict EXCEPT ![r] = "Cancelled"]
  /\ UNCHANGED <<held, found_full, budget, queue, receivers, gauges, stop>>

Enqueue(r) == queue' = Append(queue, r)

\* submit: tx.send(entry), then disarm().  A failed send drops the Entry, and
\* with it both permits.
Send(r) ==
  /\ phase[r] = "slotted"
  /\ \/ /\ ~ReceiversGone
        /\ phase' = [phase EXCEPT ![r] = "queued"]
        /\ Enqueue(r)
        /\ UNCHANGED <<verdict, held, budget, slots>>
     \/ /\ ReceiversGone
        /\ DropSlot([phase EXCEPT ![r] = "dropping"])
        /\ verdict' = [verdict EXCEPT ![r] = "Stopped"]
        /\ DropBytes(r)
        /\ UNCHANGED queue
  /\ UNCHANGED <<found_full, receivers, gauges, stop>>

BrokenCountsFull(r) == verdict[r] = "Saturated"

\* The guard counts a full queue, whatever ended the submission.
CountsFull(r) == found_full[r]

\* PendingGuard::drop, then the body permit that submit() was given.
DropGuard(r) ==
  /\ phase[r] = "dropping"
  /\ phase' = [phase EXCEPT ![r] = "refused"]
  /\ pending' = pending - 1
  /\ failed_on_full_queue' = failed_on_full_queue + (IF CountsFull(r) THEN 1 ELSE 0)
  /\ DropBytes(r)
  /\ UNCHANGED <<verdict, found_full, slots, queue, receivers, shed, stop>>

-----------------------------------------------------------------------------
(* The pool's side: UnitRx::recv, pull_unit_try and the end of a thread.   *)

BrokenMayReceive == TRUE

\* A set `stopping` flag returns Closed at once.
MayReceive == ~Stopping

\* recv: past the check of the flag.
StartRecv(w) ==
  /\ wstate[w] = "php" /\ MayReceive
  /\ wstate' = [wstate EXCEPT ![w] = "receiving"]
  /\ UNCHANGED <<admission, queue, hand, late, gauges, stop>>

BrokenRecvUnit(w) ==
  /\ wstate[w] = "receiving"
  /\ queue # <<>>
  /\ queue' = Tail(queue)
  /\ \/ /\ ~Stopping
        /\ wstate' = [wstate EXCEPT ![w] = "counting"]
        /\ hand' = [hand EXCEPT ![w] = Head(queue)]
        /\ phase' = [phase EXCEPT ![Head(queue)] = "taken"]
        /\ UNCHANGED <<held, budget, slots>>
     \/ /\ Stopping
        /\ wstate' = [wstate EXCEPT ![w] = "php"]
        /\ DropSlot([phase EXCEPT ![Head(queue)] = "destroyed"])
        /\ DropBytes(Head(queue))
        /\ UNCHANGED hand
  /\ UNCHANGED <<verdict, found_full, late, gauges, stop>>

\* recv: the select, or try_recv, takes the head of the queue.  The select
\* prefers the stop channel, but a stop may come after it looked there.
RecvUnit(w) ==
  /\ wstate[w] = "receiving"
  /\ queue # <<>>
  /\ wstate' = [wstate EXCEPT ![w] = "counting"]
  /\ hand' = [hand EXCEPT ![w] = Head(queue)]
  /\ queue' = Tail(queue)
  /\ phase' = [phase EXCEPT ![Head(queue)] = "taken"]
  /\ late' = [late EXCEPT ![w] = @ + (IF Stopping THEN 1 ELSE 0)]
  /\ UNCHANGED <<verdict, held, found_full, budget, slots, gauges, stop>>

\* A timeout or an empty try_recv, or the stop channel disconnected.
NothingToTake == queue = <<>> \/ StopDropped

RecvNothing(w) ==
  /\ wstate[w] = "receiving" /\ NothingToTake
  /\ wstate' = [wstate EXCEPT ![w] = "php"]
  /\ UNCHANGED <<admission, queue, hand, late, gauges, stop>>

\* recv: pending.fetch_sub.
CountOut(w) ==
  /\ wstate[w] = "counting"
  /\ pending' = pending - 1
  /\ phase' = [phase EXCEPT ![hand[w]] = "uncounted"]
  /\ wstate' = [wstate EXCEPT ![w] = "releasing"]
  /\ UNCHANGED <<verdict, held, found_full, budget, slots, queue, hand, late,
                 shed, failed_on_full_queue, stop>>

\* recv: `unit.unit` moves out and the rest of the Entry drops.
ReleaseEntry(w) ==
  /\ wstate[w] = "releasing"
  /\ DropSlot([phase EXCEPT ![hand[w]] = "delivered"])
  /\ DropBytes(hand[w])
  /\ hand' = [hand EXCEPT ![w] = NoUnit]
  /\ wstate' = [wstate EXCEPT ![w] = "php"]
  /\ UNCHANGED <<verdict, found_full, queue, late, gauges, stop>>

\* worker_main returns: the pool stops, or the interpreter could not be built.
Exit(w) ==
  /\ wstate[w] = "php"
  /\ wstate' = [wstate EXCEPT ![w] = "exited"]
  /\ UNCHANGED <<admission, queue, hand, late, gauges, stop>>

\* The channel drops what it holds when its last receiver is gone; only the
\* threads own receivers.
Destroyed == ReceiversGone

\* One entry of the destroyed channel drops; nothing decrements the gauge.
DestroyHead ==
  /\ Destroyed /\ queue # <<>>
  /\ queue' = Tail(queue)
  /\ DropSlot([phase EXCEPT ![Head(queue)] = "destroyed"])
  /\ DropBytes(Head(queue))
  /\ UNCHANGED <<verdict, found_full, receivers, gauges, stop>>

\* Rapira::stop(), one effect at a time.
StopStep ==
  /\ stop < 4
  /\ stop' = stop + 1
  /\ UNCHANGED <<admission, queue, receivers, gauges>>

\* Nothing is left to do.
Finished ==
  /\ ReceiversGone
  /\ queue = <<>>
  /\ \A r \in Requests : phase[r] \in {"delivered", "destroyed", "refused"}
  /\ UNCHANGED vars

Submission(r) ==
  \/ Reserve(r) \/ (\E n \in Bodies : GrowBody(r, n)) \/ Abandon(r) \/ Arm(r)
  \/ TakeSlot(r) \/ PollAcquire(r) \/ TimeOut(r) \/ Cancel(r) \/ Send(r)
  \/ DropGuard(r)

Receive(w) ==
  \/ StartRecv(w) \/ RecvUnit(w) \/ RecvNothing(w) \/ CountOut(w)
  \/ ReleaseEntry(w) \/ Exit(w)

Next ==
  \/ \E r \in Requests : Submission(r)
  \/ \E w \in Workers : Receive(w)
  \/ DestroyHead \/ StopStep \/ Finished

Spec == Init /\ [][Next]_vars

(***************************************************************************)
(* Fairness.  A submit() task is polled whenever it can move, and its      *)
(* timer fires; a PHP thread that is inside recv() keeps running; a        *)
(* stopping thread leaves its loop; the destructor of the channel runs to  *)
(* its end; stop() runs to its end once called.  That a handler returns to *)
(* receive() is assumed of the application (StartRecv), never of a body    *)
(* that is being read.                                                     *)
(***************************************************************************)
Fairness ==
  /\ \A r \in Requests :
       /\ WF_vars(TakeSlot(r)) /\ WF_vars(PollAcquire(r)) /\ WF_vars(TimeOut(r))
       /\ WF_vars(Send(r)) /\ WF_vars(DropGuard(r))
  /\ \A w \in Workers :
       /\ WF_vars(RecvUnit(w)) /\ WF_vars(RecvNothing(w)) /\ WF_vars(CountOut(w))
       /\ WF_vars(ReleaseEntry(w)) /\ WF_vars(StartRecv(w))
       /\ WF_vars(Stopping /\ Exit(w))
  /\ WF_vars(DestroyHead)
  /\ WF_vars(Stopping /\ StopStep)

FairSpec == Spec /\ Fairness

-----------------------------------------------------------------------------
(* The queue that the intake implements.                                   *)

\* A unit is inside from the send to the drop of its slot permit.
StatusOf(r) ==
  CASE phase[r] = "queued"               -> "admitted"
    [] phase[r] \in {"taken", "uncounted"} -> "taken"
    [] phase[r] = "delivered"            -> "handed"
    [] phase[r] = "destroyed"            -> "lost"
    [] phase[r] = "refused"              -> "refused"
    [] OTHER                             -> "outside"

Promise == INSTANCE WorkQueue WITH
             status <- [r \in Requests |-> StatusOf(r)],
             fifo   <- queue,
             left   <- ReceiversGone

\* The intake implements the bounded queue: order, capacity, one hand-over per
\* unit, no refusal of a unit that runs, losses only after the last thread.
ImplementsQueue == Promise!QSpec

-----------------------------------------------------------------------------
(* Properties.                                                             *)

\* The types of the variables, with the gauge as any number.
Typed ==
  /\ phase \in [Requests -> Phase]
  /\ verdict \in [Requests -> Verdict]
  /\ held \in [Requests -> 0 .. Budget]
  /\ found_full \in [Requests -> BOOLEAN]
  /\ budget \in Nat
  /\ slots \in 0 .. Slots
  /\ queue \in Seq(Requests)
  /\ wstate \in [Workers -> WState]
  /\ hand \in [Workers -> Requests \cup {NoUnit}]
  /\ late \in [Workers -> Nat]
  /\ pending \in Int
  /\ shed \in Nat
  /\ failed_on_full_queue \in Nat
  /\ stop \in 0 .. 4

\* The variables keep their types; `pending` is unsigned, so no order of
\* submissions, refusals and dequeues may take it below zero.
TypeOK == Typed /\ pending \in Nat

\* Every slot permit has one owner or is free: none is lost when a waiter is
\* cancelled or refused with a slot already assigned, when a send fails or
\* when the queue is destroyed, and none is minted.
SlotsConserved == slots + Cardinality(SlotOwners) = Slots

\* Every byte of the body budget is free or held by one request, and a
\* request past the intake holds none.
BytesConserved ==
  /\ budget + SumFunctionOnSet(held, Requests) = Budget
  /\ \A r \in InPhase({"new", "refused", "delivered", "destroyed"}) : held[r] = 0

\* The pending gauge is the submissions and entries it should count at every
\* step, so its unsigned decrements never wrap ("Increment pending before send
\* because the consumer can wake immediately").  Entries destroyed with the
\* queue stay counted.
PendingExact == pending = Cardinality(Counted)

\* A body-budget refusal and an intake timeout each count once as shed, and
\* nothing else does.
ShedExact ==
  shed = Cardinality({r \in Requests : verdict[r] \in {"OverBudget", "Saturated"}})

\* failed_on_full_queue counts exactly the submissions that found the queue
\* full and never entered it, whatever ended them.
FullQueueExact ==
  failed_on_full_queue =
    Cardinality({r \in InPhase({"refused"}) : found_full[r]})

\* The three counters an operator reads of a pool are exact in every state:
\* pending, the shed count and the full-queue count each name exactly the
\* submissions they are about, whatever ended them.
CountersExact == PendingExact /\ ShedExact /\ FullQueueExact

\* Nobody waits for a slot while one is free and the semaphore is open.
NoLostSlotWakeup == ~SlotsClosed /\ InPhase({"waiting"}) # {} => slots = 0

\* A slot that is given up always reaches the next submission: no permit is
\* lost, and none lies free beside a waiter.
SlotsHandedOn == SlotsConserved /\ NoLostSlotWakeup

\* A PHP thread that raced stop() takes at most one more unit.
AtMostOneLateUnit == \A w \in Workers : late[w] <= 1

\* A submission always ends: it is refused, reaches a PHP thread, or is destroyed
\* with the queue; a unit is never stranded, not even one that was sent while
\* the last thread left.
SubmissionEnds ==
  \A r \in Requests :
    phase[r] \in {"armed", "waiting", "granted", "slotted", "dropping", "queued", "taken", "uncounted"} ~>
      phase[r] \in {"delivered", "destroyed", "refused"}
=============================================================================
