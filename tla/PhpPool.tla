------------------------------ MODULE PhpPool ------------------------------
(***************************************************************************)
(* The PHP threads of one pool (crates/sapi/src/start.rs, rapira_worker.rs,*)
(* classic_worker.rs, quota.rs, scoreboard.rs).                            *)
(*                                                                         *)
(* A thread builds an interpreter, runs its worker until the interpreter   *)
(* is spent, restarted or closed, drops it, and builds the next one.  In   *)
(* worker and dispatcher mode one interpreter runs the entrypoint in       *)
(* cycles; the script of a cycle asks for units.  A cycle that ends without*)
(* having received one is a failed boot: the thread then sheds at most one *)
(* unit or waits, and boots again; UnhealthyAfter failed boots in a row    *)
(* end the interpreter.                                                    *)
(*                                                                         *)
(* The queue is the count `backlog`; Intake models it in full.             *)
(*                                                                         *)
(* pc[w]:                                                                  *)
(*   new      the top of worker_main's loop   ended    the script is over  *)
(*   cycle    the top of run_cycle            shed     a failed boot       *)
(*   script   PHP runs between two receives   shedding waits for a unit to *)
(*   pull     about to ask for a unit                  refuse              *)
(*   polling  the slot is idle, the stop      exit     the worker returned *)
(*            flag not read yet               dropped  the interpreter is  *)
(*   waiting  waits for a unit                         gone                *)
(*   unit     handles a unit (classic and     decide   an unhealthy end    *)
(*            worker mode)                    scan     reads the slots     *)
(*   gone     the thread is over              backoff  waits to rebuild    *)
(***************************************************************************)
EXTENDS Integers, FiniteSets, Functions

CONSTANTS Threads,        \* PHP threads of the pool: 1 .. Threads
          Modes,          \* the modes the pool may run in
          MaxRequests,    \* max_requests, 0 for no quota
          UnhealthyAfter, \* UNHEALTHY_AFTER
          Units           \* bound: units that reach the queue

ASSUME PoolConstants ==
  /\ Threads \in Nat \ {0}
  /\ Modes \subseteq {"classic", "worker", "dispatcher"}
  /\ MaxRequests \in Nat
  /\ UnhealthyAfter \in Nat \ {0}
  /\ Units \in Nat

VARIABLES
  mode,        \* the mode of the pool
  pc,          \* where each thread is
  slot,        \* SharedSlot.state
  drained,     \* the thread's DRAINING flag, which keeps the slot draining
  quota,       \* QuotaState.max, 0 for no quota
  served,      \* QuotaState.served
  draining,    \* QuotaState.draining: the interpreter is spent
  unhealthy,   \* QuotaState.unhealthy
  failures,    \* failed boots in a row
  seen,        \* what the cycle has seen: CLOSED_SEEN, RECEIVED, RECYCLE
  why,         \* why the worker returned
  next_slot,   \* the slot that a scan reads next
  hand,        \* the thread owns an unsettled unit
  handled,     \* SharedSlot.handled
  job_handled, \* UnitRx.handled: the pool has handled a unit
  boot_failed, \* the server must exit with code 70
  backlog,     \* queued units
  submitted,   \* units that were ever queued
  lost,        \* units that a caught panic dropped
  stop,        \* 0 running, 1 `stopping` is set, 2 the stop channel is dropped
  worked       \* history: an interpreter of the pool was done with a unit

interpreter == <<quota, served, draining, unhealthy>>
cycle       == <<failures, seen, why, next_slot>>
board       == <<slot, drained>>
queue       == <<backlog, submitted>>
counts      == <<handled, job_handled, lost>>
state       == <<mode, pc, interpreter, cycle, board, hand, counts, boot_failed, queue, stop>>
vars        == <<state, worked>>

Workers == 1 .. Threads

PC == {"new", "cycle", "script", "pull", "polling", "waiting", "unit", "ended", "shed",
       "shedding", "exit", "dropped", "decide", "scan", "backoff", "gone"}
Slot == {"free", "starting", "idle", "active", "draining"}

Serving(w) == slot[w] \in {"idle", "active"}

\* effective_quota: max plus one, plus up to half of max by the thread's hash.
EffectiveQuotas ==
  IF MaxRequests = 0 THEN {0}
  ELSE {MaxRequests + 1 + h : h \in 0 .. (IF MaxRequests >= 4 THEN MaxRequests \div 2 ELSE 1) - 1}

Init ==
  /\ mode \in Modes
  /\ pc = [w \in Workers |-> "new"]
  /\ slot = [w \in Workers |-> "starting"]
  /\ drained = [w \in Workers |-> FALSE]
  /\ quota = [w \in Workers |-> 0]
  /\ served = [w \in Workers |-> 0]
  /\ draining = [w \in Workers |-> FALSE]
  /\ unhealthy = [w \in Workers |-> FALSE]
  /\ failures = [w \in Workers |-> 0]
  /\ seen = [w \in Workers |-> {}]
  /\ why = [w \in Workers |-> "none"]
  /\ next_slot = [w \in Workers |-> 1]
  /\ hand = [w \in Workers |-> FALSE]
  /\ handled = [w \in Workers |-> 0]
  /\ job_handled = FALSE
  /\ boot_failed = FALSE
  /\ backlog = 0
  /\ submitted = 0
  /\ lost = 0
  /\ stop = 0
  /\ worked = FALSE

-----------------------------------------------------------------------------
(* Steps shared by the operations.  A Broken... operator stands for one     *)
(* plausible bug of the operator after it; no specification uses it.        *)

BrokenDrainingOr(w, s) == s

\* draining_or: once the thread drains, its slot stays draining.
DrainingOr(w, s) == IF drained'[w] THEN "draining" ELSE s

Show(w, s) == slot' = [slot EXCEPT ![w] = DrainingOr(w, s)]

\* Event::Draining.
MarkDraining(w) ==
  /\ drained' = [drained EXCEPT ![w] = TRUE]
  /\ slot' = [slot EXCEPT ![w] = "draining"]

\* quota::tick: the unit that exhausts the quota drains the interpreter.
Exhausts(w) == quota[w] # 0 /\ ~draining[w] /\ served[w] + 1 = quota[w]

Tick(w) ==
  /\ served' = [served EXCEPT ![w] = IF quota[w] = 0 \/ draining[w] THEN @ ELSE @ + 1]
  /\ draining' = [draining EXCEPT ![w] = @ \/ Exhausts(w)]
  /\ drained' = [drained EXCEPT ![w] = @ \/ Exhausts(w)]

BrokenCountHandled(w) ==
  /\ handled' = [handled EXCEPT ![w] = @ + 1]
  /\ UNCHANGED job_handled
  /\ Tick(w)

\* Event::Handled, without its effect on the slot.
CountHandled(w) ==
  /\ handled' = [handled EXCEPT ![w] = @ + 1]
  /\ job_handled' = TRUE
  /\ Tick(w)

BrokenCountShed(w) == UNCHANGED handled

\* Event::Shed: counted, but neither against the quota nor as proof of health.
CountShed(w) == handled' = [handled EXCEPT ![w] = @ + 1]

\* quota::fire_unhealthy.
FireUnhealthy(w) ==
  /\ unhealthy' = [unhealthy EXCEPT ![w] = TRUE]
  /\ draining' = [draining EXCEPT ![w] = TRUE]
  /\ drained' = [drained EXCEPT ![w] = TRUE]

At(w, p) == pc[w] = p
Goto(w, p) == pc' = [pc EXCEPT ![w] = p]

\* exchange::reclaim_current: a unit that the cycle left behind is handled.
ReclaimCurrent(w) ==
  IF hand[w]
  THEN CountHandled(w) /\ hand' = [hand EXCEPT ![w] = FALSE]
  ELSE UNCHANGED <<handled, job_handled, served, draining, drained, hand>>

\* The worker returns; its last act is to reclaim what it holds.
Return(w, reason) ==
  /\ Goto(w, "exit")
  /\ why' = [why EXCEPT ![w] = reason]
  /\ seen' = [seen EXCEPT ![w] = {}]
  /\ ReclaimCurrent(w)
  /\ Show(w, slot[w])

\* A receive told the thread that there is no more work for it.
Closed(w) ==
  IF mode = "classic"
  THEN Goto(w, "exit") /\ why' = [why EXCEPT ![w] = "closed"] /\ UNCHANGED seen
  ELSE Goto(w, "script") /\ seen' = [seen EXCEPT ![w] = @ \cup {"closed"}] /\ UNCHANGED why

-----------------------------------------------------------------------------
(* One interpreter after another: worker_main.                             *)

\* The top of the loop: a fresh interpreter, or none can be built.
Build(w) ==
  /\ At(w, "new")
  /\ \/ /\ Goto(w, IF mode = "classic" THEN "pull" ELSE "cycle")
        /\ \E q \in EffectiveQuotas : quota' = [quota EXCEPT ![w] = q]
        /\ served' = [served EXCEPT ![w] = 0]
        /\ draining' = [draining EXCEPT ![w] = FALSE]
        /\ unhealthy' = [unhealthy EXCEPT ![w] = FALSE]
        /\ failures' = [failures EXCEPT ![w] = 0]
        /\ seen' = [seen EXCEPT ![w] = {}]
        /\ why' = [why EXCEPT ![w] = "none"]
        /\ drained' = [drained EXCEPT ![w] = FALSE]
        /\ slot' = [slot EXCEPT ![w] = "starting"]
        /\ UNCHANGED boot_failed
     \/ /\ Goto(w, "gone")
        /\ boot_failed' = TRUE
        /\ drained' = [drained EXCEPT ![w] = FALSE]
        /\ slot' = [slot EXCEPT ![w] = "free"]
        /\ UNCHANGED <<interpreter, failures, seen, why>>
  /\ UNCHANGED <<mode, next_slot, hand, counts, queue, stop>>

\* The worker has returned, or panicked: the slot drains, the interpreter goes.
DropInterpreter(w) ==
  /\ At(w, "exit")
  /\ MarkDraining(w)
  /\ Goto(w, "dropped")
  /\ UNCHANGED <<mode, interpreter, cycle, hand, counts, boot_failed, queue, stop>>

BrokenMustLeave(w) == stop >= 1 \/ why[w] = "closed"

\* The thread is over when the pool stops: a worker that was told Closed
\* without a spent interpreter was told by the stop.
MustLeave(w) == stop >= 1 \/ (why[w] = "closed" /\ ~draining[w])

NextInterpreter(w) ==
  /\ At(w, "dropped")
  /\ \/ /\ MustLeave(w)
        /\ Goto(w, "gone")
        /\ slot' = [slot EXCEPT ![w] = "free"]
     \/ ~MustLeave(w) /\ unhealthy[w] /\ Goto(w, "decide") /\ UNCHANGED slot
     \/ ~MustLeave(w) /\ ~unhealthy[w] /\ Goto(w, "new") /\ UNCHANGED slot
  /\ UNCHANGED <<mode, interpreter, cycle, drained, hand, counts, boot_failed, queue, stop>>

\* An unhealthy end: first the pool's flag is read, then the slots, one by
\* one; a pool that never handled a unit and serves nowhere has failed to boot.
ReadHandled(w) ==
  /\ At(w, "decide")
  /\ Goto(w, IF job_handled THEN "backoff" ELSE "scan")
  /\ UNCHANGED <<mode, interpreter, cycle, board, hand, counts, boot_failed, queue, stop>>

\* The scan of w goes on past its next slot.
PassesOver(w) == ~Serving(next_slot[w])

Scan(w) ==
  /\ At(w, "scan")
  /\ \/ /\ PassesOver(w) /\ next_slot[w] < Threads
        /\ next_slot' = [next_slot EXCEPT ![w] = @ + 1]
        /\ UNCHANGED <<pc, boot_failed>>
     \/ /\ PassesOver(w) /\ next_slot[w] = Threads
        /\ boot_failed' = TRUE
        /\ Goto(w, "backoff")
        /\ next_slot' = [next_slot EXCEPT ![w] = 1]
     \/ /\ ~PassesOver(w)
        /\ Goto(w, "backoff")
        /\ next_slot' = [next_slot EXCEPT ![w] = 1]
        /\ UNCHANGED boot_failed
  /\ UNCHANGED <<mode, interpreter, failures, seen, why, board, hand, counts, queue, stop>>

\* The backoff ends by its timer, or at once by the dropped stop channel.
Backoff(w) ==
  /\ At(w, "backoff")
  /\ \/ stop < 2 /\ Goto(w, "new") /\ UNCHANGED slot
     \/ stop = 2 /\ Goto(w, "gone") /\ slot' = [slot EXCEPT ![w] = "free"]
  /\ UNCHANGED <<mode, interpreter, cycle, drained, hand, counts, boot_failed, queue, stop>>

-----------------------------------------------------------------------------
(* One cycle after another: rapira_worker and run_cycle.                   *)

\* The top of run_cycle; the boot request starts, or fails to.
BeginCycle(w) ==
  /\ At(w, "cycle")
  /\ \/ Goto(w, "script") \/ Goto(w, "ended")
  /\ seen' = [seen EXCEPT ![w] = {}]
  /\ ReclaimCurrent(w)
  /\ Show(w, "starting")
  /\ UNCHANGED <<mode, quota, unhealthy, failures, why, next_slot, boot_failed, lost, queue, stop>>

\* The script returns, or dies.
EndScript(w) ==
  /\ At(w, "script")
  /\ Goto(w, "ended")
  /\ UNCHANGED <<mode, interpreter, cycle, board, hand, counts, boot_failed, queue, stop>>

\* The first handle_request() of a cycle bails out of the boot's teardown.
FirstCallBails(w) ==
  /\ mode = "worker" /\ At(w, "script") /\ "called" \notin seen[w]
  /\ seen' = [seen EXCEPT ![w] = @ \cup {"called", "recycle"}]
  /\ Goto(w, "ended")
  /\ UNCHANGED <<mode, interpreter, failures, why, next_slot, board, hand, counts, boot_failed,
                 queue, stop>>

\* The script asks for a unit: handle_request(), or receive() with no unit
\* that is still unsettled.
CallReceive(w) ==
  /\ At(w, "script") /\ ~hand[w]
  /\ Goto(w, "pull")
  /\ seen' = [seen EXCEPT ![w] = IF mode = "worker" THEN @ \cup {"called"} ELSE @]
  /\ UNCHANGED <<mode, interpreter, failures, why, next_slot, board, hand, counts, boot_failed,
                 queue, stop>>

\* Dispatcher mode: the script settles its unit, or its object is freed, or
\* receive() discards it because the client left.
Settle(w) ==
  /\ mode = "dispatcher" /\ hand[w] /\ pc[w] \in {"script", "ended"}
  /\ hand' = [hand EXCEPT ![w] = FALSE]
  /\ CountHandled(w)
  /\ Show(w, slot[w])
  /\ UNCHANGED <<mode, pc, quota, unhealthy, cycle, lost, boot_failed, queue, stop>>

\* The end of run_cycle, when the request shutdown bails out.
ShutdownBails(w) ==
  /\ At(w, "ended")
  /\ Return(w, "restart")
  /\ UNCHANGED <<mode, quota, unhealthy, failures, next_slot, lost, boot_failed, queue, stop>>

\* Cycle::Stop.
CycleStops(w) ==
  /\ At(w, "ended") /\ "closed" \in seen[w]
  /\ Return(w, "closed")
  /\ UNCHANGED <<mode, quota, unhealthy, failures, next_slot, lost, boot_failed, queue, stop>>

\* Cycle::Recycle.
CycleRecycles(w) ==
  /\ At(w, "ended") /\ "closed" \notin seen[w]
  /\ seen[w] \cap {"recycle", "received"} # {}
  /\ failures' = [failures EXCEPT ![w] = 0]
  /\ Goto(w, "cycle")
  /\ UNCHANGED <<mode, interpreter, seen, why, next_slot, board, hand, counts, boot_failed,
                 queue, stop>>

\* Cycle::Failed: nothing was received, so PHP cannot accept work.
CycleFails(w) ==
  /\ At(w, "ended") /\ seen[w] \cap {"closed", "recycle", "received"} = {}
  /\ failures' = [failures EXCEPT ![w] = @ + 1]
  /\ IF failures[w] + 1 = UnhealthyAfter
     THEN FireUnhealthy(w)
     ELSE UNCHANGED <<unhealthy, draining, drained>>
  /\ Show(w, "starting")
  /\ Goto(w, "shed")
  /\ UNCHANGED <<mode, quota, served, seen, why, next_slot, hand, counts, boot_failed, queue, stop>>

\* An interpreter that is spent sheds nothing; nor does a stopped pool.
RefusesToShed(w) == draining[w] \/ stop >= 1

\* pull_unit_to_shed, up to the wait.
EnterShed(w) ==
  /\ At(w, "shed")
  /\ \/ RefusesToShed(w) /\ Return(w, "closed")
     \/ /\ ~RefusesToShed(w)
        /\ Goto(w, "shedding")
        /\ UNCHANGED <<seen, why, served, draining, board, hand, handled, job_handled>>
  /\ UNCHANGED <<mode, quota, unhealthy, failures, next_slot, lost, boot_failed, queue, stop>>

\* A unit that arrives during the wait is refused with 503 or UNAVAILABLE.
ShedUnit(w) ==
  /\ At(w, "shedding") /\ backlog > 0
  /\ backlog' = backlog - 1
  /\ CountShed(w)
  /\ Goto(w, "cycle")
  /\ UNCHANGED <<mode, interpreter, cycle, board, hand, job_handled, lost, boot_failed, submitted,
                 stop>>

BrokenBootRetry(w) == stop = 2

\* BOOT_RETRY elapses, or the stop channel is dropped.
BootRetry(w) == TRUE

EndShed(w) ==
  /\ At(w, "shedding") /\ BootRetry(w)
  /\ \/ /\ stop < 2
        /\ Goto(w, "cycle")
        /\ UNCHANGED <<seen, why, served, draining, board, hand, handled, job_handled>>
     \/ stop = 2 /\ Return(w, "closed")
  /\ UNCHANGED <<mode, quota, unhealthy, failures, next_slot, lost, boot_failed, queue, stop>>

-----------------------------------------------------------------------------
(* Units: pull_unit_wait and the handlers.                                 *)

BrokenSpent(w) == FALSE

\* An interpreter that drains is told Closed before the queue is looked at.
Spent(w) == draining[w]

\* pull_unit_wait, up to UnitRx::recv: the slot turns idle.
Pull(w) ==
  /\ At(w, "pull")
  /\ UNCHANGED drained
  /\ Show(w, "idle")
  /\ \/ Spent(w) /\ Closed(w)
     \/ ~Spent(w) /\ Goto(w, "polling") /\ UNCHANGED <<seen, why>>
  /\ UNCHANGED <<mode, interpreter, failures, next_slot, hand, counts, boot_failed, queue, stop>>

\* recv: the stop flag.
Poll(w) ==
  /\ At(w, "polling")
  /\ \/ stop >= 1 /\ MarkDraining(w) /\ Closed(w)
     \/ stop = 0 /\ Goto(w, "waiting") /\ UNCHANGED <<board, seen, why>>
  /\ UNCHANGED <<mode, interpreter, failures, next_slot, hand, counts, boot_failed, queue, stop>>

\* recv: a unit; one whose client left is skipped.
TakeUnit(w) ==
  /\ At(w, "waiting") /\ backlog > 0
  /\ backlog' = backlog - 1
  /\ slot' = [slot EXCEPT ![w] = "active"]
  /\ \/ CountShed(w) /\ Goto(w, "pull") /\ UNCHANGED <<hand, seen>>
     \/ /\ hand' = [hand EXCEPT ![w] = TRUE]
        /\ Goto(w, IF mode = "dispatcher" THEN "script" ELSE "unit")
        /\ seen' = [seen EXCEPT ![w] = IF mode = "classic" THEN @ ELSE @ \cup {"received"}]
        /\ UNCHANGED handled
  /\ UNCHANGED <<mode, interpreter, failures, why, next_slot, drained, job_handled, lost,
                 boot_failed, submitted, stop>>

\* recv: a timeout, or tryReceive() with an empty queue.
NoUnit(w) ==
  /\ mode = "dispatcher" /\ At(w, "waiting")
  /\ slot' = [slot EXCEPT ![w] = "active"]
  /\ Goto(w, "script")
  /\ UNCHANGED <<mode, interpreter, cycle, drained, hand, counts, boot_failed, queue, stop>>

BrokenStopWakes(w) == stop = 2 /\ backlog > 0

\* A receive waits for the queue and for the stop channel at once.
StopWakes(w) == stop = 2

\* recv: the stop channel is disconnected.
SeeStop(w) ==
  /\ At(w, "waiting") /\ StopWakes(w)
  /\ MarkDraining(w)
  /\ Closed(w)
  /\ UNCHANGED <<mode, interpreter, failures, next_slot, hand, counts, boot_failed, queue, stop>>

\* The handler of a classic or worker unit is over.
Finish(w) ==
  /\ At(w, "unit")
  /\ hand' = [hand EXCEPT ![w] = FALSE]
  /\ CountHandled(w)
  /\ Show(w, slot[w])
  /\ \/ mode = "classic" /\ Goto(w, "pull") /\ UNCHANGED seen
     \/ mode = "worker" /\ Goto(w, "script") /\ UNCHANGED seen
     \/ /\ mode = "worker"
        /\ Goto(w, "ended")
        /\ seen' = [seen EXCEPT ![w] = @ \cup {"recycle"}]
  /\ UNCHANGED <<mode, quota, unhealthy, failures, why, next_slot, lost, boot_failed, queue, stop>>

\* A panic drops the unit: a guard ends the cycle in worker mode; elsewhere it
\* reaches worker_main, and the interpreter is unhealthy.
Panic(w) ==
  /\ lost' = lost + 1
  /\ \/ At(w, "unit") /\ hand' = [hand EXCEPT ![w] = FALSE] /\ UNCHANGED backlog
     \/ At(w, "shedding") /\ backlog > 0 /\ backlog' = backlog - 1 /\ UNCHANGED hand
  /\ IF At(w, "unit") /\ mode = "worker"
     THEN Goto(w, "ended") /\ UNCHANGED <<why, unhealthy, draining, board>>
     ELSE /\ Goto(w, "exit")
          /\ why' = [why EXCEPT ![w] = "panicked"]
          /\ FireUnhealthy(w)
          /\ Show(w, "draining")
  /\ UNCHANGED <<mode, quota, served, failures, seen, next_slot, handled, job_handled, boot_failed,
                 submitted, stop>>

-----------------------------------------------------------------------------
\* A plugin queues a unit.
Submit ==
  /\ submitted < Units
  /\ submitted' = submitted + 1
  /\ backlog' = backlog + 1
  /\ UNCHANGED <<mode, pc, interpreter, cycle, board, hand, counts, boot_failed, stop>>

\* Rapira::stop(): the flag, then the stop channel.
StopStep ==
  /\ stop < 2
  /\ stop' = stop + 1
  /\ UNCHANGED <<mode, pc, interpreter, cycle, board, hand, counts, boot_failed, queue>>

Finished ==
  /\ \A w \in Workers : At(w, "gone")
  /\ UNCHANGED state

Lifecycle(w) ==
  \/ Build(w) \/ DropInterpreter(w) \/ NextInterpreter(w)
  \/ ReadHandled(w) \/ Scan(w) \/ Backoff(w)

Boot(w) ==
  \/ BeginCycle(w) \/ ShutdownBails(w) \/ CycleStops(w) \/ CycleRecycles(w) \/ CycleFails(w)
  \/ EnterShed(w) \/ ShedUnit(w) \/ EndShed(w)

Script(w) == EndScript(w) \/ FirstCallBails(w) \/ CallReceive(w) \/ Settle(w)

Receive(w) ==
  \/ Pull(w) \/ Poll(w) \/ TakeUnit(w) \/ NoUnit(w) \/ SeeStop(w) \/ Finish(w) \/ Panic(w)

Step ==
  \/ \E w \in Workers : Lifecycle(w) \/ Boot(w) \/ Script(w) \/ Receive(w)
  \/ Submit \/ StopStep \/ Finished

\* The history: a unit left a thread, and not by a panic that dropped it.  No
\* action reads it.
LetsGo(w) == hand[w] /\ ~hand'[w] /\ lost' = lost

Remember == worked' = (worked \/ \E w \in Workers : LetsGo(w))

Next == Step /\ Remember

Spec == Init /\ [][Next]_vars

(***************************************************************************)
(* Fairness.  The Rust code of a thread keeps running, a wait ends when    *)
(* its reason is there, and stop() runs to its end.  Of the application:   *)
(* a handler returns, a script does not run forever between two receives,  *)
(* and a script that was told Closed ends; the teardown of its boot        *)
(* request does not bail out every time (that loop has no exit, see the    *)
(* README).  The subscript is the program's state, without the history.    *)
(***************************************************************************)
Fairness ==
  /\ \A w \in Workers :
       /\ WF_state(Lifecycle(w)) /\ WF_state(Boot(w))
       /\ WF_state(EndShed(w))
       /\ WF_state(Pull(w)) /\ WF_state(Poll(w))
       /\ WF_state(TakeUnit(w) \/ SeeStop(w)) /\ WF_state(Finish(w))
       /\ WF_state(Settle(w))
       /\ SF_state(CallReceive(w) \/ EndScript(w))
       /\ SF_state("closed" \in seen[w] /\ EndScript(w))
  /\ WF_state(stop >= 1 /\ StopStep)

FairSpec == Spec /\ Fairness

-----------------------------------------------------------------------------
(* Properties.                                                             *)

\* The types of the program's variables.
TypeOK ==
  /\ mode \in {"classic", "worker", "dispatcher"}
  /\ pc \in [Workers -> PC]
  /\ slot \in [Workers -> Slot]
  /\ drained \in [Workers -> BOOLEAN]
  /\ quota \in [Workers -> Nat]
  /\ served \in [Workers -> Nat]
  /\ draining \in [Workers -> BOOLEAN]
  /\ unhealthy \in [Workers -> BOOLEAN]
  /\ failures \in [Workers -> 0 .. UnhealthyAfter]
  /\ seen \in [Workers -> SUBSET {"closed", "received", "recycle", "called"}]
  /\ why \in [Workers -> {"none", "closed", "restart", "panicked"}]
  /\ next_slot \in [Workers -> Workers]
  /\ hand \in [Workers -> BOOLEAN]
  /\ handled \in [Workers -> Nat]
  /\ job_handled \in BOOLEAN
  /\ boot_failed \in BOOLEAN
  /\ backlog \in Nat /\ submitted \in Nat /\ lost \in Nat
  /\ stop \in 0 .. 2

\* Every unit that left the queue is counted once: by the thread that handled,
\* shed or reclaimed it, through restarts, discards and failed boots.
UnitsCountedOnce ==
  submitted = backlog + lost
              + Cardinality({w \in Workers : hand[w]})
              + SumFunctionOnSet(handled, Workers)

\* A slot that drains shows nothing else until the next interpreter: no event
\* of the old one, in any order, reports it idle or active (/readyz) again.
DrainedStaysDrained ==
  \A w \in Workers : drained[w] /\ pc[w] # "gone" => slot[w] = "draining"

\* A slot reads idle or active only while its interpreter lives and can still
\* be given a unit.
ServingIsAlive ==
  \A w \in Workers :
    Serving(w) => /\ pc[w] \in {"script", "pull", "polling", "waiting", "unit", "ended", "cycle",
                                "exit"}
                  /\ ~draining[w]

\* What /readyz and /metrics read of a slot is true of its interpreter, across
\* every order of its events and of a recycle's (scoreboard.rs).
SlotsTell == DrainedStaysDrained /\ ServingIsAlive

\* A thread ends only with the pool, or with a failed build that shuts the
\* server down: no recycle, quota, failed boot or panic shrinks a running pool.
PoolKeepsItsThreads ==
  \A w \in Workers : pc[w] = "gone" => stop >= 1 \/ boot_failed

\* An interpreter never handles more units than its quota, in any mode.
QuotaHolds == \A w \in Workers : quota[w] # 0 => served[w] <= quota[w]

\* A spent interpreter is given no further unit.
SpentTakesNothing ==
  [][\A w \in Workers : draining[w] /\ draining'[w] => ~(hand'[w] /\ ~hand[w])]_vars

\* A pool of which any interpreter, living or recycled, has ever handled or
\* reclaimed a unit is not suspected of being unable to boot, however its later
\* cycles end and whether or not it has a quota (start.rs, worker_main).
WorkingPoolIsNotBlamed ==
  [][\A w \in Workers : At(w, "decide") /\ At(w, "scan")' => ~worked]_vars

\* A stopped pool ends: every thread leaves, from a receive, a failed boot's
\* wait, a backoff or a fresh interpreter alike.
StopEnds == stop >= 1 ~> \A w \in Workers : pc[w] = "gone"

\* A failed boot is followed by another one, without any client traffic.
FailedBootRetries ==
  \A w \in Workers :
    pc[w] \in {"shed", "shedding", "exit", "dropped", "decide", "scan", "backoff"} ~>
      pc[w] \in {"cycle", "pull", "gone"}
=============================================================================
