---------------------------- MODULE PhpPoolProofs ----------------------------
(***************************************************************************)
(* Proofs about PhpPool, for every number of threads, quota and            *)
(* unhealthiness limit, in every mode: slots that drain stay draining, a   *)
(* running pool keeps its threads, quotas hold, a spent interpreter is     *)
(* given nothing, each unit is counted once, and a pool that has handled a *)
(* unit is not blamed for its boots.                                       *)
(*                                                                         *)
(* The invariant IInv ties the three copies of "this interpreter is over"  *)
(* together: QuotaState.draining, the thread's DRAINING flag and the slot  *)
(* state.  They are written in different orders by different operations,   *)
(* and each property needs one of them to follow from another.             *)
(***************************************************************************)
EXTENDS PhpPool, SumTheorems, TLAPS

\* The worker runs, or has just returned.
Running == {"cycle", "script", "pull", "polling", "waiting", "unit", "ended", "shed",
            "shedding", "exit"}

\* The interpreter may still boot its script again.
Boots == {"cycle", "script", "pull", "polling", "waiting", "unit", "ended", "shedding"}

\* The slot follows the flag, and the flag the interpreter; a running thread
\* that drains without being spent was told to by the stop.
DrainInv(w) ==
  /\ pc[w] # "gone" /\ draining[w] => drained[w]
  /\ pc[w] # "gone" /\ drained[w] => slot[w] = "draining"
  /\ pc[w] \in Running /\ drained[w] /\ ~draining[w] => stop >= 1
  /\ pc[w] = "polling" => ~draining[w]
  /\ pc[w] = "waiting" => ~drained[w]

\* Where a thread does not serve, its slot does not say so.
PlaceInv(w) ==
  /\ pc[w] \in {"dropped", "decide", "scan", "backoff"} => drained[w]
  /\ pc[w] \in {"new", "shed", "shedding"} => ~Serving(w)
  /\ pc[w] = "gone" => slot[w] = "free"

\* A thread was told Closed by a spent interpreter or by the stop.
ClosedInv(w) ==
  /\ "closed" \in seen[w] => draining[w] \/ stop >= 1
  /\ why[w] = "closed" => draining[w] \/ stop >= 1
  /\ pc[w] = "gone" => stop >= 1 \/ boot_failed

\* The failed boots stop counting at the limit.
FailInv(w) ==
  /\ pc[w] \in Boots => failures[w] < UnhealthyAfter
  /\ pc[w] = "shed" /\ ~draining[w] => failures[w] < UnhealthyAfter

\* An interpreter that is not spent has units left.
QuotaInv(w) ==
  quota[w] # 0 => /\ served[w] <= quota[w]
                  /\ ~draining[w] => served[w] < quota[w]

Sound(w) == DrainInv(w) /\ PlaceInv(w) /\ ClosedInv(w) /\ FailInv(w) /\ QuotaInv(w)

IInv == TypeOK /\ \A w \in Workers : Sound(w)

\* Expanded everywhere: the groups of variables, and where a thread is and shows.
USE DEF interpreter, cycle, board, queue, counts, At, Goto, Show, DrainingOr

-----------------------------------------------------------------------------
(* A step of one thread leaves the others alone.                           *)

\* What the invariant reads of a thread has not changed, and neither a stop
\* nor a failed boot was taken back.
Same(w) ==
  /\ pc'[w] = pc[w] /\ slot'[w] = slot[w] /\ drained'[w] = drained[w]
  /\ draining'[w] = draining[w] /\ quota'[w] = quota[w] /\ served'[w] = served[w]
  /\ failures'[w] = failures[w] /\ seen'[w] = seen[w] /\ why'[w] = why[w]
  /\ stop >= 1 => stop' >= 1
  /\ boot_failed => boot_failed'

\* A thread that a step does not touch stays sound.
LEMMA Untouched ==
  ASSUME NEW w \in Workers, Sound(w), Same(w)
  PROVE  Sound(w)'
  BY DEF Sound, Same, DrainInv, PlaceInv, ClosedInv, FailInv, QuotaInv, Serving

-----------------------------------------------------------------------------
(* The types of what the operators shared by the actions assign.           *)

\* Counting a unit.
LEMMA CountTypes ==
  ASSUME TypeOK, NEW v \in Workers, CountHandled(v)
  PROVE  /\ handled' \in [Workers -> Nat] /\ job_handled' \in BOOLEAN
         /\ served' \in [Workers -> Nat]
         /\ draining' \in [Workers -> BOOLEAN] /\ drained' \in [Workers -> BOOLEAN]
<1>1. handled' \in [Workers -> Nat] /\ job_handled' \in BOOLEAN
  BY DEF TypeOK, CountHandled
<1>2. served' \in [Workers -> Nat]
  BY DEF TypeOK, CountHandled, Tick
<1>3. draining' \in [Workers -> BOOLEAN] /\ drained' \in [Workers -> BOOLEAN]
  BY DEF TypeOK, CountHandled, Tick, Exhausts
<1> QED
  BY <1>1, <1>2, <1>3

\* Reclaiming a unit, or having none to reclaim.
LEMMA ReclaimTypes ==
  ASSUME TypeOK, NEW v \in Workers, ReclaimCurrent(v)
  PROVE  /\ handled' \in [Workers -> Nat] /\ job_handled' \in BOOLEAN
         /\ served' \in [Workers -> Nat]
         /\ draining' \in [Workers -> BOOLEAN] /\ drained' \in [Workers -> BOOLEAN]
         /\ hand' \in [Workers -> BOOLEAN]
<1>1. CASE hand[v]
  BY <1>1, CountTypes DEF TypeOK, ReclaimCurrent
<1>2. CASE ~hand[v]
  BY <1>2 DEF TypeOK, ReclaimCurrent
<1> QED
  BY <1>1, <1>2

\* Effective quotas are numbers.
LEMMA QuotasAreNat == EffectiveQuotas \subseteq Nat
  BY PoolConstants DEF EffectiveQuotas

\* A tick keeps an interpreter within its quota.
LEMMA TickKeepsQuota ==
  ASSUME TypeOK, NEW v \in Workers, QuotaInv(v), Tick(v), quota' = quota
  PROVE  QuotaInv(v)'
<1>1. /\ quota[v] \in Nat /\ served[v] \in Nat /\ draining[v] \in BOOLEAN
      /\ quota'[v] = quota[v]
      /\ served'[v] = IF quota[v] = 0 \/ draining[v] THEN served[v] ELSE served[v] + 1
      /\ draining'[v] = (draining[v] \/ Exhausts(v))
  BY DEF TypeOK, Tick
<1>2. CASE quota[v] = 0
  BY <1>1, <1>2 DEF QuotaInv
<1>3. CASE quota[v] # 0 /\ draining[v]
  <2>1. served'[v] = served[v] /\ draining'[v]
    BY <1>1, <1>3
  <2> QED
    BY <1>1, <1>3, <2>1 DEF QuotaInv
<1>4. CASE quota[v] # 0 /\ ~draining[v]
  <2>1. served[v] < quota[v] /\ served'[v] = served[v] + 1
    BY <1>1, <1>4 DEF QuotaInv
  <2>2. CASE Exhausts(v)
    <3>1. draining'[v] /\ served[v] + 1 = quota[v]
      BY <1>1, <2>2 DEF Exhausts
    <3> QED
      BY <1>1, <2>1, <3>1 DEF QuotaInv
  <2>3. CASE ~Exhausts(v)
    <3>1. served[v] + 1 # quota[v]
      BY <1>4, <2>3 DEF Exhausts
    <3> QED
      BY <1>1, <2>1, <3>1 DEF QuotaInv
  <2> QED
    BY <2>2, <2>3
<1> QED
  BY <1>2, <1>3, <1>4

-----------------------------------------------------------------------------
(* Every step of a thread keeps the invariant.                             *)

LEMMA BuildKeeps ==
  ASSUME IInv, NEW v \in Workers, Build(v)
  PROVE  IInv'
<1>1. TypeOK'
  <2>1. pc' \in [Workers -> PC] /\ slot' \in [Workers -> Slot]
    <3>1. pc' \in [Workers -> PC]
      BY PoolConstants, QuotasAreNat DEF IInv, TypeOK, PC, Build
    <3>2. slot' \in [Workers -> Slot]
      BY PoolConstants, QuotasAreNat DEF IInv, TypeOK, Slot, Build
    <3> QED
      BY <3>1, <3>2
  <2>2. drained' \in [Workers -> BOOLEAN] /\ draining' \in [Workers -> BOOLEAN] /\ unhealthy' \in [Workers -> BOOLEAN]
    <3>1. drained' \in [Workers -> BOOLEAN]
      BY PoolConstants, QuotasAreNat DEF IInv, TypeOK, Build
    <3>2. draining' \in [Workers -> BOOLEAN]
      BY PoolConstants, QuotasAreNat DEF IInv, TypeOK, Build
    <3>3. unhealthy' \in [Workers -> BOOLEAN]
      BY PoolConstants, QuotasAreNat DEF IInv, TypeOK, Build
    <3> QED
      BY <3>1, <3>2, <3>3
  <2>3. quota' \in [Workers -> Nat] /\ served' \in [Workers -> Nat]
    <3>1. quota' \in [Workers -> Nat]
      BY PoolConstants, QuotasAreNat DEF IInv, TypeOK, Build
    <3>2. served' \in [Workers -> Nat]
      BY PoolConstants, QuotasAreNat DEF IInv, TypeOK, Build
    <3> QED
      BY <3>1, <3>2
  <2>4. failures' \in [Workers -> 0 .. UnhealthyAfter] /\ next_slot' \in [Workers -> Workers]
    <3>1. failures' \in [Workers -> 0 .. UnhealthyAfter]
      BY PoolConstants, QuotasAreNat DEF IInv, TypeOK, Build
    <3>2. next_slot' \in [Workers -> Workers]
      BY PoolConstants, QuotasAreNat DEF IInv, TypeOK, Build
    <3> QED
      BY <3>1, <3>2
  <2>5. seen' \in [Workers -> SUBSET {"closed", "received", "recycle", "called"}]
    BY PoolConstants, QuotasAreNat DEF IInv, TypeOK, PC, Slot, Build
  <2>6. why' \in [Workers -> {"none", "closed", "restart", "panicked"}] /\ hand' \in [Workers -> BOOLEAN]
    <3>1. why' \in [Workers -> {"none", "closed", "restart", "panicked"}]
      BY PoolConstants, QuotasAreNat DEF IInv, TypeOK, Build
    <3>2. hand' \in [Workers -> BOOLEAN]
      BY PoolConstants, QuotasAreNat DEF IInv, TypeOK, Build
    <3> QED
      BY <3>1, <3>2
  <2>7. handled' \in [Workers -> Nat] /\ job_handled' \in BOOLEAN /\ boot_failed' \in BOOLEAN
    <3>1. handled' \in [Workers -> Nat]
      BY PoolConstants, QuotasAreNat DEF IInv, TypeOK, Build
    <3>2. job_handled' \in BOOLEAN
      BY PoolConstants, QuotasAreNat DEF IInv, TypeOK, Build
    <3>3. boot_failed' \in BOOLEAN
      BY PoolConstants, QuotasAreNat DEF IInv, TypeOK, Build
    <3> QED
      BY <3>1, <3>2, <3>3
  <2>8. backlog' \in Nat /\ submitted' \in Nat /\ lost' \in Nat /\ stop' \in 0 .. 2 /\ mode' = mode
    <3>1. backlog' \in Nat
      BY PoolConstants, QuotasAreNat DEF IInv, TypeOK, Build
    <3>2. submitted' \in Nat
      BY PoolConstants, QuotasAreNat DEF IInv, TypeOK, Build
    <3>3. lost' \in Nat
      BY PoolConstants, QuotasAreNat DEF IInv, TypeOK, Build
    <3>4. stop' \in 0 .. 2
      BY PoolConstants, QuotasAreNat DEF IInv, TypeOK, Build
    <3>5. mode' = mode
      BY PoolConstants, QuotasAreNat DEF IInv, TypeOK, Build
    <3> QED
      BY <3>1, <3>2, <3>3, <3>4, <3>5
  <2> QED
    BY <2>1, <2>2, <2>3, <2>4, <2>5, <2>6, <2>7, <2>8 DEF IInv, TypeOK
<1>2. ASSUME NEW w \in Workers, w # v PROVE Sound(w)'
  <2>1. Same(w)
    BY <1>2 DEF IInv, TypeOK, Same, Build, EffectiveQuotas
  <2> QED
    BY <1>2, <2>1, Untouched DEF IInv
<1>3. DrainInv(v)'
  BY DEF IInv, TypeOK, Sound, DrainInv, PlaceInv, Running, Build, EffectiveQuotas
<1>4. PlaceInv(v)'
  BY DEF IInv, TypeOK, Sound, DrainInv, PlaceInv, Serving, Running, Build, EffectiveQuotas
<1>5. ClosedInv(v)'
  BY DEF IInv, TypeOK, Sound, ClosedInv, Build, EffectiveQuotas
<1>6. FailInv(v)'
  BY PoolConstants DEF IInv, TypeOK, Sound, FailInv, Boots, Build, EffectiveQuotas
<1>7. QuotaInv(v)'
  BY PoolConstants DEF IInv, TypeOK, Sound, QuotaInv, Build, EffectiveQuotas
<1> QED
  BY <1>1, <1>2, <1>3, <1>4, <1>5, <1>6, <1>7 DEF IInv, Sound

LEMMA DropInterpreterKeeps ==
  ASSUME IInv, NEW v \in Workers, DropInterpreter(v)
  PROVE  IInv'
<1>1. TypeOK'
  <2>1. pc' \in [Workers -> PC]
    BY PoolConstants DEF IInv, TypeOK, PC, DropInterpreter, MarkDraining
  <2>2. slot' \in [Workers -> Slot]
    BY PoolConstants DEF IInv, TypeOK, Slot, DropInterpreter, MarkDraining
  <2>3. drained' \in [Workers -> BOOLEAN] /\ draining' \in [Workers -> BOOLEAN] /\ unhealthy' \in [Workers -> BOOLEAN]
    BY PoolConstants DEF IInv, TypeOK, DropInterpreter, MarkDraining
  <2>4. quota' \in [Workers -> Nat] /\ served' \in [Workers -> Nat]
    BY PoolConstants DEF IInv, TypeOK, DropInterpreter, MarkDraining
  <2>5. failures' \in [Workers -> 0 .. UnhealthyAfter]
    BY PoolConstants DEF IInv, TypeOK, DropInterpreter, MarkDraining
  <2>6. next_slot' \in [Workers -> Workers]
    BY PoolConstants DEF IInv, TypeOK, Workers, DropInterpreter, MarkDraining
  <2>7. seen' \in [Workers -> SUBSET {"closed", "received", "recycle", "called"}]
    BY PoolConstants DEF IInv, TypeOK, DropInterpreter, MarkDraining
  <2>8. why' \in [Workers -> {"none", "closed", "restart", "panicked"}] /\ hand' \in [Workers -> BOOLEAN]
    BY PoolConstants DEF IInv, TypeOK, DropInterpreter, MarkDraining
  <2>9. handled' \in [Workers -> Nat] /\ job_handled' \in BOOLEAN /\ boot_failed' \in BOOLEAN
    BY PoolConstants DEF IInv, TypeOK, DropInterpreter, MarkDraining
  <2>10. backlog' \in Nat /\ submitted' \in Nat /\ lost' \in Nat /\ stop' \in 0 .. 2 /\ mode' = mode
    BY PoolConstants DEF IInv, TypeOK, DropInterpreter, MarkDraining
  <2> QED
    BY <2>1, <2>2, <2>3, <2>4, <2>5, <2>6, <2>7, <2>8, <2>9, <2>10 DEF IInv, TypeOK
<1>2. ASSUME NEW w \in Workers, w # v PROVE Sound(w)'
  <2>1. Same(w)
    BY <1>2 DEF IInv, TypeOK, Same, DropInterpreter, MarkDraining
  <2> QED
    BY <1>2, <2>1, Untouched DEF IInv
<1>3. DrainInv(v)'
  BY DEF IInv, TypeOK, Sound, DrainInv, PlaceInv, Running, DropInterpreter, MarkDraining
<1>4. PlaceInv(v)'
  BY DEF IInv, TypeOK, Sound, DrainInv, PlaceInv, Serving, Running, DropInterpreter, MarkDraining
<1>5. ClosedInv(v)'
  BY DEF IInv, TypeOK, Sound, ClosedInv, DropInterpreter, MarkDraining
<1>6. FailInv(v)'
  BY PoolConstants DEF IInv, TypeOK, Sound, FailInv, Boots, DropInterpreter, MarkDraining
<1>7. QuotaInv(v)'
  BY PoolConstants DEF IInv, TypeOK, Sound, QuotaInv, DropInterpreter, MarkDraining
<1> QED
  BY <1>1, <1>2, <1>3, <1>4, <1>5, <1>6, <1>7 DEF IInv, Sound

LEMMA NextInterpreterKeeps ==
  ASSUME IInv, NEW v \in Workers, NextInterpreter(v)
  PROVE  IInv'
<1>1. TypeOK'
  <2>1. pc' \in [Workers -> PC]
    BY PoolConstants DEF IInv, TypeOK, PC, NextInterpreter, MustLeave
  <2>2. slot' \in [Workers -> Slot]
    BY PoolConstants DEF IInv, TypeOK, Slot, NextInterpreter, MustLeave
  <2>3. drained' \in [Workers -> BOOLEAN] /\ draining' \in [Workers -> BOOLEAN] /\ unhealthy' \in [Workers -> BOOLEAN]
    BY PoolConstants DEF IInv, TypeOK, NextInterpreter, MustLeave
  <2>4. quota' \in [Workers -> Nat] /\ served' \in [Workers -> Nat]
    BY PoolConstants DEF IInv, TypeOK, NextInterpreter, MustLeave
  <2>5. failures' \in [Workers -> 0 .. UnhealthyAfter]
    BY PoolConstants DEF IInv, TypeOK, NextInterpreter, MustLeave
  <2>6. next_slot' \in [Workers -> Workers]
    BY PoolConstants DEF IInv, TypeOK, Workers, NextInterpreter, MustLeave
  <2>7. seen' \in [Workers -> SUBSET {"closed", "received", "recycle", "called"}]
    BY PoolConstants DEF IInv, TypeOK, NextInterpreter, MustLeave
  <2>8. why' \in [Workers -> {"none", "closed", "restart", "panicked"}] /\ hand' \in [Workers -> BOOLEAN]
    BY PoolConstants DEF IInv, TypeOK, NextInterpreter, MustLeave
  <2>9. handled' \in [Workers -> Nat] /\ job_handled' \in BOOLEAN /\ boot_failed' \in BOOLEAN
    BY PoolConstants DEF IInv, TypeOK, NextInterpreter, MustLeave
  <2>10. backlog' \in Nat /\ submitted' \in Nat /\ lost' \in Nat /\ stop' \in 0 .. 2 /\ mode' = mode
    BY PoolConstants DEF IInv, TypeOK, NextInterpreter, MustLeave
  <2> QED
    BY <2>1, <2>2, <2>3, <2>4, <2>5, <2>6, <2>7, <2>8, <2>9, <2>10 DEF IInv, TypeOK
<1>2. ASSUME NEW w \in Workers, w # v PROVE Sound(w)'
  <2>1. Same(w)
    BY <1>2 DEF IInv, TypeOK, Same, NextInterpreter, MustLeave
  <2> QED
    BY <1>2, <2>1, Untouched DEF IInv
<1>3. DrainInv(v)'
  BY DEF IInv, TypeOK, Sound, DrainInv, PlaceInv, Running, NextInterpreter, MustLeave
<1>4. PlaceInv(v)'
  BY DEF IInv, TypeOK, Sound, DrainInv, PlaceInv, Serving, Running, NextInterpreter, MustLeave
<1>5. ClosedInv(v)'
  BY DEF IInv, TypeOK, Sound, ClosedInv, NextInterpreter, MustLeave
<1>6. FailInv(v)'
  BY PoolConstants DEF IInv, TypeOK, Sound, FailInv, Boots, NextInterpreter, MustLeave
<1>7. QuotaInv(v)'
  BY PoolConstants DEF IInv, TypeOK, Sound, QuotaInv, NextInterpreter, MustLeave
<1> QED
  BY <1>1, <1>2, <1>3, <1>4, <1>5, <1>6, <1>7 DEF IInv, Sound

LEMMA ReadHandledKeeps ==
  ASSUME IInv, NEW v \in Workers, ReadHandled(v)
  PROVE  IInv'
<1>1. TypeOK'
  <2>1. pc' \in [Workers -> PC]
    BY PoolConstants DEF IInv, TypeOK, PC, ReadHandled
  <2>2. slot' \in [Workers -> Slot]
    BY PoolConstants DEF IInv, TypeOK, Slot, ReadHandled
  <2>3. drained' \in [Workers -> BOOLEAN] /\ draining' \in [Workers -> BOOLEAN] /\ unhealthy' \in [Workers -> BOOLEAN]
    BY PoolConstants DEF IInv, TypeOK, ReadHandled
  <2>4. quota' \in [Workers -> Nat] /\ served' \in [Workers -> Nat]
    BY PoolConstants DEF IInv, TypeOK, ReadHandled
  <2>5. failures' \in [Workers -> 0 .. UnhealthyAfter]
    BY PoolConstants DEF IInv, TypeOK, ReadHandled
  <2>6. next_slot' \in [Workers -> Workers]
    BY PoolConstants DEF IInv, TypeOK, Workers, ReadHandled
  <2>7. seen' \in [Workers -> SUBSET {"closed", "received", "recycle", "called"}]
    BY PoolConstants DEF IInv, TypeOK, ReadHandled
  <2>8. why' \in [Workers -> {"none", "closed", "restart", "panicked"}] /\ hand' \in [Workers -> BOOLEAN]
    BY PoolConstants DEF IInv, TypeOK, ReadHandled
  <2>9. handled' \in [Workers -> Nat] /\ job_handled' \in BOOLEAN /\ boot_failed' \in BOOLEAN
    BY PoolConstants DEF IInv, TypeOK, ReadHandled
  <2>10. backlog' \in Nat /\ submitted' \in Nat /\ lost' \in Nat /\ stop' \in 0 .. 2 /\ mode' = mode
    BY PoolConstants DEF IInv, TypeOK, ReadHandled
  <2> QED
    BY <2>1, <2>2, <2>3, <2>4, <2>5, <2>6, <2>7, <2>8, <2>9, <2>10 DEF IInv, TypeOK
<1>2. ASSUME NEW w \in Workers, w # v PROVE Sound(w)'
  <2>1. Same(w)
    BY <1>2 DEF IInv, TypeOK, Same, ReadHandled
  <2> QED
    BY <1>2, <2>1, Untouched DEF IInv
<1>3. DrainInv(v)'
  BY DEF IInv, TypeOK, Sound, DrainInv, PlaceInv, Running, ReadHandled
<1>4. PlaceInv(v)'
  BY DEF IInv, TypeOK, Sound, DrainInv, PlaceInv, Serving, Running, ReadHandled
<1>5. ClosedInv(v)'
  BY DEF IInv, TypeOK, Sound, ClosedInv, ReadHandled
<1>6. FailInv(v)'
  BY PoolConstants DEF IInv, TypeOK, Sound, FailInv, Boots, ReadHandled
<1>7. QuotaInv(v)'
  BY PoolConstants DEF IInv, TypeOK, Sound, QuotaInv, ReadHandled
<1> QED
  BY <1>1, <1>2, <1>3, <1>4, <1>5, <1>6, <1>7 DEF IInv, Sound

LEMMA ScanKeeps ==
  ASSUME IInv, NEW v \in Workers, Scan(v)
  PROVE  IInv'
<1>1. TypeOK'
  <2>1. pc' \in [Workers -> PC] /\ slot' \in [Workers -> Slot]
    <3>1. pc' \in [Workers -> PC]
      BY PoolConstants DEF IInv, TypeOK, PC, Scan, PassesOver
    <3>2. slot' \in [Workers -> Slot]
      BY PoolConstants DEF IInv, TypeOK, Slot, Scan, PassesOver
    <3> QED
      BY <3>1, <3>2
  <2>2. drained' \in [Workers -> BOOLEAN] /\ draining' \in [Workers -> BOOLEAN] /\ unhealthy' \in [Workers -> BOOLEAN]
    BY PoolConstants DEF IInv, TypeOK, PC, Slot, Scan, PassesOver
  <2>3. quota' \in [Workers -> Nat] /\ served' \in [Workers -> Nat]
    BY PoolConstants DEF IInv, TypeOK, PC, Slot, Scan, PassesOver
  <2>4. failures' \in [Workers -> 0 .. UnhealthyAfter] /\ next_slot' \in [Workers -> Workers]
    <3>1. next_slot[v] \in Workers /\ 1 \in Workers
      BY PoolConstants DEF IInv, TypeOK, Workers
    <3>2. next_slot[v] < Threads => next_slot[v] + 1 \in Workers
      BY <3>1, PoolConstants DEF Workers
    <3> QED
      BY <3>1, <3>2 DEF IInv, TypeOK, Scan
  <2>5. seen' \in [Workers -> SUBSET {"closed", "received", "recycle", "called"}]
    BY PoolConstants DEF IInv, TypeOK, PC, Slot, Scan, PassesOver
  <2>6. why' \in [Workers -> {"none", "closed", "restart", "panicked"}] /\ hand' \in [Workers -> BOOLEAN]
    BY PoolConstants DEF IInv, TypeOK, PC, Slot, Scan, PassesOver
  <2>7. handled' \in [Workers -> Nat] /\ job_handled' \in BOOLEAN /\ boot_failed' \in BOOLEAN
    BY PoolConstants DEF IInv, TypeOK, PC, Slot, Scan, PassesOver
  <2>8. backlog' \in Nat /\ submitted' \in Nat /\ lost' \in Nat /\ stop' \in 0 .. 2 /\ mode' = mode
    BY PoolConstants DEF IInv, TypeOK, PC, Slot, Scan, PassesOver
  <2> QED
    BY <2>1, <2>2, <2>3, <2>4, <2>5, <2>6, <2>7, <2>8 DEF IInv, TypeOK
<1>2. ASSUME NEW w \in Workers, w # v PROVE Sound(w)'
  <2>1. Same(w)
    BY <1>2 DEF IInv, TypeOK, Same, Scan, PassesOver
  <2> QED
    BY <1>2, <2>1, Untouched DEF IInv
<1>3. DrainInv(v)'
  BY DEF IInv, TypeOK, Sound, DrainInv, PlaceInv, Running, Scan, PassesOver
<1>4. PlaceInv(v)'
  BY DEF IInv, TypeOK, Sound, DrainInv, PlaceInv, Serving, Running, Scan, PassesOver
<1>5. ClosedInv(v)'
  BY DEF IInv, TypeOK, Sound, ClosedInv, Scan, PassesOver
<1>6. FailInv(v)'
  BY PoolConstants DEF IInv, TypeOK, Sound, FailInv, Boots, Scan, PassesOver
<1>7. QuotaInv(v)'
  BY PoolConstants DEF IInv, TypeOK, Sound, QuotaInv, Scan, PassesOver
<1> QED
  BY <1>1, <1>2, <1>3, <1>4, <1>5, <1>6, <1>7 DEF IInv, Sound

LEMMA BackoffKeeps ==
  ASSUME IInv, NEW v \in Workers, Backoff(v)
  PROVE  IInv'
<1>1. TypeOK'
  <2>1. pc' \in [Workers -> PC]
    BY PoolConstants DEF IInv, TypeOK, PC, Backoff
  <2>2. slot' \in [Workers -> Slot]
    BY PoolConstants DEF IInv, TypeOK, Slot, Backoff
  <2>3. drained' \in [Workers -> BOOLEAN] /\ draining' \in [Workers -> BOOLEAN] /\ unhealthy' \in [Workers -> BOOLEAN]
    BY PoolConstants DEF IInv, TypeOK, Backoff
  <2>4. quota' \in [Workers -> Nat] /\ served' \in [Workers -> Nat]
    BY PoolConstants DEF IInv, TypeOK, Backoff
  <2>5. failures' \in [Workers -> 0 .. UnhealthyAfter]
    BY PoolConstants DEF IInv, TypeOK, Backoff
  <2>6. next_slot' \in [Workers -> Workers]
    BY PoolConstants DEF IInv, TypeOK, Workers, Backoff
  <2>7. seen' \in [Workers -> SUBSET {"closed", "received", "recycle", "called"}]
    BY PoolConstants DEF IInv, TypeOK, Backoff
  <2>8. why' \in [Workers -> {"none", "closed", "restart", "panicked"}] /\ hand' \in [Workers -> BOOLEAN]
    BY PoolConstants DEF IInv, TypeOK, Backoff
  <2>9. handled' \in [Workers -> Nat] /\ job_handled' \in BOOLEAN /\ boot_failed' \in BOOLEAN
    BY PoolConstants DEF IInv, TypeOK, Backoff
  <2>10. backlog' \in Nat /\ submitted' \in Nat /\ lost' \in Nat /\ stop' \in 0 .. 2 /\ mode' = mode
    BY PoolConstants DEF IInv, TypeOK, Backoff
  <2> QED
    BY <2>1, <2>2, <2>3, <2>4, <2>5, <2>6, <2>7, <2>8, <2>9, <2>10 DEF IInv, TypeOK
<1>2. ASSUME NEW w \in Workers, w # v PROVE Sound(w)'
  <2>1. Same(w)
    BY <1>2 DEF IInv, TypeOK, Same, Backoff
  <2> QED
    BY <1>2, <2>1, Untouched DEF IInv
<1>3. DrainInv(v)'
  BY DEF IInv, TypeOK, Sound, DrainInv, PlaceInv, Running, Backoff
<1>4. PlaceInv(v)'
  BY DEF IInv, TypeOK, Sound, DrainInv, PlaceInv, Serving, Running, Backoff
<1>5. ClosedInv(v)'
  BY DEF IInv, TypeOK, Sound, ClosedInv, Backoff
<1>6. FailInv(v)'
  BY PoolConstants DEF IInv, TypeOK, Sound, FailInv, Boots, Backoff
<1>7. QuotaInv(v)'
  BY PoolConstants DEF IInv, TypeOK, Sound, QuotaInv, Backoff
<1> QED
  BY <1>1, <1>2, <1>3, <1>4, <1>5, <1>6, <1>7 DEF IInv, Sound

LEMMA BeginCycleKeeps ==
  ASSUME IInv, NEW v \in Workers, BeginCycle(v)
  PROVE  IInv'
<1>1. TypeOK'
  <2>1. pc' \in [Workers -> PC] /\ slot' \in [Workers -> Slot]
    <3>1. pc' \in [Workers -> PC]
      BY PoolConstants DEF IInv, TypeOK, PC, BeginCycle, ReclaimCurrent, CountHandled, Tick,
         Exhausts
    <3>2. slot' \in [Workers -> Slot]
      BY PoolConstants DEF IInv, TypeOK, Slot, BeginCycle, ReclaimCurrent, CountHandled,
         Tick, Exhausts
    <3> QED
      BY <3>1, <3>2
  <2>2. drained' \in [Workers -> BOOLEAN] /\ draining' \in [Workers -> BOOLEAN] /\ unhealthy' \in [Workers -> BOOLEAN]
    BY ReclaimTypes DEF IInv, TypeOK, BeginCycle
  <2>3. quota' \in [Workers -> Nat] /\ served' \in [Workers -> Nat]
    <3>1. quota' \in [Workers -> Nat]
      BY PoolConstants DEF IInv, TypeOK, BeginCycle
    <3>2. served' \in [Workers -> Nat]
      BY ReclaimTypes DEF IInv, TypeOK, BeginCycle
    <3> QED
      BY <3>1, <3>2
  <2>4. failures' \in [Workers -> 0 .. UnhealthyAfter] /\ next_slot' \in [Workers -> Workers]
    <3>1. failures' \in [Workers -> 0 .. UnhealthyAfter]
      BY PoolConstants DEF IInv, TypeOK, BeginCycle
    <3>2. next_slot' \in [Workers -> Workers]
      BY PoolConstants DEF IInv, TypeOK, BeginCycle
    <3> QED
      BY <3>1, <3>2
  <2>5. seen' \in [Workers -> SUBSET {"closed", "received", "recycle", "called"}]
    BY PoolConstants DEF IInv, TypeOK, BeginCycle
  <2>6. why' \in [Workers -> {"none", "closed", "restart", "panicked"}] /\ hand' \in [Workers -> BOOLEAN]
    <3>1. why' \in [Workers -> {"none", "closed", "restart", "panicked"}]
      BY PoolConstants DEF IInv, TypeOK, BeginCycle
    <3>2. hand' \in [Workers -> BOOLEAN]
      BY ReclaimTypes DEF IInv, TypeOK, BeginCycle
    <3> QED
      BY <3>1, <3>2
  <2>7. handled' \in [Workers -> Nat] /\ job_handled' \in BOOLEAN /\ boot_failed' \in BOOLEAN
    BY ReclaimTypes DEF IInv, TypeOK, BeginCycle
  <2>8. backlog' \in Nat /\ submitted' \in Nat /\ lost' \in Nat /\ stop' \in 0 .. 2 /\ mode' = mode
    <3>1. backlog' \in Nat
      BY PoolConstants DEF IInv, TypeOK, BeginCycle
    <3>2. submitted' \in Nat
      BY PoolConstants DEF IInv, TypeOK, BeginCycle
    <3>3. lost' \in Nat
      BY PoolConstants DEF IInv, TypeOK, BeginCycle
    <3>4. stop' \in 0 .. 2
      BY PoolConstants DEF IInv, TypeOK, BeginCycle
    <3>5. mode' = mode
      BY PoolConstants DEF IInv, TypeOK, BeginCycle
    <3> QED
      BY <3>1, <3>2, <3>3, <3>4, <3>5
  <2> QED
    BY <2>1, <2>2, <2>3, <2>4, <2>5, <2>6, <2>7, <2>8 DEF IInv, TypeOK
<1>2. ASSUME NEW w \in Workers, w # v PROVE Sound(w)'
  <2>1. Same(w)
    BY <1>2 DEF IInv, TypeOK, Same, BeginCycle, ReclaimCurrent, CountHandled, Tick, Exhausts
  <2> QED
    BY <1>2, <2>1, Untouched DEF IInv
<1>3. DrainInv(v)'
  BY DEF IInv, TypeOK, Sound, DrainInv, PlaceInv, Running, BeginCycle, ReclaimCurrent,
     CountHandled, Tick, Exhausts
<1>4. PlaceInv(v)'
  BY DEF IInv, TypeOK, Sound, DrainInv, PlaceInv, Serving, Running, BeginCycle, ReclaimCurrent,
     CountHandled, Tick, Exhausts
<1>5. ClosedInv(v)'
  BY DEF IInv, TypeOK, Sound, ClosedInv, BeginCycle, ReclaimCurrent, CountHandled, Tick, Exhausts
<1>6. FailInv(v)'
  BY PoolConstants DEF IInv, TypeOK, Sound, FailInv, Boots, BeginCycle, ReclaimCurrent,
     CountHandled, Tick, Exhausts
<1>7. QuotaInv(v)'
  BY PoolConstants DEF IInv, TypeOK, Sound, QuotaInv, BeginCycle, ReclaimCurrent, CountHandled,
     Tick, Exhausts
<1> QED
  BY <1>1, <1>2, <1>3, <1>4, <1>5, <1>6, <1>7 DEF IInv, Sound

LEMMA ShutdownBailsKeeps ==
  ASSUME IInv, NEW v \in Workers, ShutdownBails(v)
  PROVE  IInv'
<1>1. TypeOK'
  <2>1. pc' \in [Workers -> PC] /\ slot' \in [Workers -> Slot]
    <3>1. pc' \in [Workers -> PC]
      BY PoolConstants DEF IInv, TypeOK, PC, ShutdownBails, Return, ReclaimCurrent,
         CountHandled, Tick, Exhausts
    <3>2. slot' \in [Workers -> Slot]
      BY PoolConstants DEF IInv, TypeOK, Slot, ShutdownBails, Return, ReclaimCurrent,
         CountHandled, Tick, Exhausts
    <3> QED
      BY <3>1, <3>2
  <2>2. drained' \in [Workers -> BOOLEAN] /\ draining' \in [Workers -> BOOLEAN] /\ unhealthy' \in [Workers -> BOOLEAN]
    BY ReclaimTypes DEF IInv, TypeOK, ShutdownBails, Return
  <2>3. quota' \in [Workers -> Nat] /\ served' \in [Workers -> Nat]
    BY PoolConstants DEF IInv, TypeOK, PC, Slot, ShutdownBails, Return, ReclaimCurrent,
       CountHandled, Tick, Exhausts
  <2>4. failures' \in [Workers -> 0 .. UnhealthyAfter] /\ next_slot' \in [Workers -> Workers]
    BY PoolConstants DEF IInv, TypeOK, PC, Slot, ShutdownBails, Return, ReclaimCurrent,
       CountHandled, Tick, Exhausts
  <2>5. seen' \in [Workers -> SUBSET {"closed", "received", "recycle", "called"}]
    BY PoolConstants DEF IInv, TypeOK, PC, Slot, ShutdownBails, Return, ReclaimCurrent,
       CountHandled, Tick, Exhausts
  <2>6. why' \in [Workers -> {"none", "closed", "restart", "panicked"}] /\ hand' \in [Workers -> BOOLEAN]
    BY PoolConstants DEF IInv, TypeOK, PC, Slot, ShutdownBails, Return, ReclaimCurrent,
       CountHandled, Tick, Exhausts
  <2>7. handled' \in [Workers -> Nat] /\ job_handled' \in BOOLEAN /\ boot_failed' \in BOOLEAN
    BY ReclaimTypes DEF IInv, TypeOK, ShutdownBails, Return
  <2>8. backlog' \in Nat /\ submitted' \in Nat /\ lost' \in Nat /\ stop' \in 0 .. 2 /\ mode' = mode
    BY PoolConstants DEF IInv, TypeOK, PC, Slot, ShutdownBails, Return, ReclaimCurrent,
       CountHandled, Tick, Exhausts
  <2> QED
    BY <2>1, <2>2, <2>3, <2>4, <2>5, <2>6, <2>7, <2>8 DEF IInv, TypeOK
<1>2. ASSUME NEW w \in Workers, w # v PROVE Sound(w)'
  <2>1. Same(w)
    BY <1>2 DEF IInv, TypeOK, Same, ShutdownBails, Return, ReclaimCurrent, CountHandled, Tick,
       Exhausts
  <2> QED
    BY <1>2, <2>1, Untouched DEF IInv
<1>3. DrainInv(v)'
  BY DEF IInv, TypeOK, Sound, DrainInv, PlaceInv, Running, ShutdownBails, Return, ReclaimCurrent,
     CountHandled, Tick, Exhausts
<1>4. PlaceInv(v)'
  BY DEF IInv, TypeOK, Sound, DrainInv, PlaceInv, Serving, Running, ShutdownBails, Return,
     ReclaimCurrent, CountHandled, Tick, Exhausts
<1>5. ClosedInv(v)'
  BY DEF IInv, TypeOK, Sound, ClosedInv, ShutdownBails, Return, ReclaimCurrent, CountHandled,
     Tick, Exhausts
<1>6. FailInv(v)'
  BY PoolConstants DEF IInv, TypeOK, Sound, FailInv, Boots, ShutdownBails, Return, ReclaimCurrent,
     CountHandled, Tick, Exhausts
<1>7. QuotaInv(v)'
  BY PoolConstants DEF IInv, TypeOK, Sound, QuotaInv, ShutdownBails, Return, ReclaimCurrent,
     CountHandled, Tick, Exhausts
<1> QED
  BY <1>1, <1>2, <1>3, <1>4, <1>5, <1>6, <1>7 DEF IInv, Sound

LEMMA CycleStopsKeeps ==
  ASSUME IInv, NEW v \in Workers, CycleStops(v)
  PROVE  IInv'
<1>1. TypeOK'
  <2>1. pc' \in [Workers -> PC] /\ slot' \in [Workers -> Slot]
    <3>1. pc' \in [Workers -> PC]
      BY PoolConstants DEF IInv, TypeOK, PC, CycleStops, Return, ReclaimCurrent,
         CountHandled, Tick, Exhausts
    <3>2. slot' \in [Workers -> Slot]
      BY PoolConstants DEF IInv, TypeOK, Slot, CycleStops, Return, ReclaimCurrent,
         CountHandled, Tick, Exhausts
    <3> QED
      BY <3>1, <3>2
  <2>2. drained' \in [Workers -> BOOLEAN] /\ draining' \in [Workers -> BOOLEAN] /\ unhealthy' \in [Workers -> BOOLEAN]
    BY ReclaimTypes DEF IInv, TypeOK, CycleStops, Return
  <2>3. quota' \in [Workers -> Nat] /\ served' \in [Workers -> Nat]
    BY PoolConstants DEF IInv, TypeOK, PC, Slot, CycleStops, Return, ReclaimCurrent, CountHandled,
       Tick, Exhausts
  <2>4. failures' \in [Workers -> 0 .. UnhealthyAfter] /\ next_slot' \in [Workers -> Workers]
    BY PoolConstants DEF IInv, TypeOK, PC, Slot, CycleStops, Return, ReclaimCurrent, CountHandled,
       Tick, Exhausts
  <2>5. seen' \in [Workers -> SUBSET {"closed", "received", "recycle", "called"}]
    BY PoolConstants DEF IInv, TypeOK, PC, Slot, CycleStops, Return, ReclaimCurrent, CountHandled,
       Tick, Exhausts
  <2>6. why' \in [Workers -> {"none", "closed", "restart", "panicked"}] /\ hand' \in [Workers -> BOOLEAN]
    BY PoolConstants DEF IInv, TypeOK, PC, Slot, CycleStops, Return, ReclaimCurrent, CountHandled,
       Tick, Exhausts
  <2>7. handled' \in [Workers -> Nat] /\ job_handled' \in BOOLEAN /\ boot_failed' \in BOOLEAN
    BY ReclaimTypes DEF IInv, TypeOK, CycleStops, Return
  <2>8. backlog' \in Nat /\ submitted' \in Nat /\ lost' \in Nat /\ stop' \in 0 .. 2 /\ mode' = mode
    BY PoolConstants DEF IInv, TypeOK, PC, Slot, CycleStops, Return, ReclaimCurrent, CountHandled,
       Tick, Exhausts
  <2> QED
    BY <2>1, <2>2, <2>3, <2>4, <2>5, <2>6, <2>7, <2>8 DEF IInv, TypeOK
<1>2. ASSUME NEW w \in Workers, w # v PROVE Sound(w)'
  <2>1. Same(w)
    BY <1>2 DEF IInv, TypeOK, Same, CycleStops, Return, ReclaimCurrent, CountHandled, Tick,
       Exhausts
  <2> QED
    BY <1>2, <2>1, Untouched DEF IInv
<1>3. DrainInv(v)'
  BY DEF IInv, TypeOK, Sound, DrainInv, PlaceInv, Running, CycleStops, Return, ReclaimCurrent,
     CountHandled, Tick, Exhausts
<1>4. PlaceInv(v)'
  BY DEF IInv, TypeOK, Sound, DrainInv, PlaceInv, Serving, Running, CycleStops, Return,
     ReclaimCurrent, CountHandled, Tick, Exhausts
<1>5. ClosedInv(v)'
  BY DEF IInv, TypeOK, Sound, ClosedInv, CycleStops, Return, ReclaimCurrent, CountHandled, Tick,
     Exhausts
<1>6. FailInv(v)'
  BY PoolConstants DEF IInv, TypeOK, Sound, FailInv, Boots, CycleStops, Return, ReclaimCurrent,
     CountHandled, Tick, Exhausts
<1>7. QuotaInv(v)'
  BY PoolConstants DEF IInv, TypeOK, Sound, QuotaInv, CycleStops, Return, ReclaimCurrent,
     CountHandled, Tick, Exhausts
<1> QED
  BY <1>1, <1>2, <1>3, <1>4, <1>5, <1>6, <1>7 DEF IInv, Sound

LEMMA CycleRecyclesKeeps ==
  ASSUME IInv, NEW v \in Workers, CycleRecycles(v)
  PROVE  IInv'
<1>1. TypeOK'
  <2>1. pc' \in [Workers -> PC] /\ slot' \in [Workers -> Slot]
    <3>1. pc' \in [Workers -> PC]
      BY PoolConstants DEF IInv, TypeOK, PC, CycleRecycles
    <3>2. slot' \in [Workers -> Slot]
      BY PoolConstants DEF IInv, TypeOK, Slot, CycleRecycles
    <3> QED
      BY <3>1, <3>2
  <2>2. drained' \in [Workers -> BOOLEAN] /\ draining' \in [Workers -> BOOLEAN] /\ unhealthy' \in [Workers -> BOOLEAN]
    BY PoolConstants DEF IInv, TypeOK, PC, Slot, CycleRecycles
  <2>3. quota' \in [Workers -> Nat] /\ served' \in [Workers -> Nat]
    BY PoolConstants DEF IInv, TypeOK, PC, Slot, CycleRecycles
  <2>4. failures' \in [Workers -> 0 .. UnhealthyAfter] /\ next_slot' \in [Workers -> Workers]
    BY PoolConstants DEF IInv, TypeOK, PC, Slot, CycleRecycles
  <2>5. seen' \in [Workers -> SUBSET {"closed", "received", "recycle", "called"}]
    BY PoolConstants DEF IInv, TypeOK, PC, Slot, CycleRecycles
  <2>6. why' \in [Workers -> {"none", "closed", "restart", "panicked"}] /\ hand' \in [Workers -> BOOLEAN]
    BY PoolConstants DEF IInv, TypeOK, PC, Slot, CycleRecycles
  <2>7. handled' \in [Workers -> Nat] /\ job_handled' \in BOOLEAN /\ boot_failed' \in BOOLEAN
    BY PoolConstants DEF IInv, TypeOK, PC, Slot, CycleRecycles
  <2>8. backlog' \in Nat /\ submitted' \in Nat /\ lost' \in Nat /\ stop' \in 0 .. 2 /\ mode' = mode
    BY PoolConstants DEF IInv, TypeOK, PC, Slot, CycleRecycles
  <2> QED
    BY <2>1, <2>2, <2>3, <2>4, <2>5, <2>6, <2>7, <2>8 DEF IInv, TypeOK
<1>2. ASSUME NEW w \in Workers, w # v PROVE Sound(w)'
  <2>1. Same(w)
    BY <1>2 DEF IInv, TypeOK, Same, CycleRecycles
  <2> QED
    BY <1>2, <2>1, Untouched DEF IInv
<1>3. DrainInv(v)'
  BY DEF IInv, TypeOK, Sound, DrainInv, PlaceInv, Running, CycleRecycles
<1>4. PlaceInv(v)'
  BY DEF IInv, TypeOK, Sound, DrainInv, PlaceInv, Serving, Running, CycleRecycles
<1>5. ClosedInv(v)'
  BY DEF IInv, TypeOK, Sound, ClosedInv, CycleRecycles
<1>6. FailInv(v)'
  BY PoolConstants DEF IInv, TypeOK, Sound, FailInv, Boots, CycleRecycles
<1>7. QuotaInv(v)'
  BY PoolConstants DEF IInv, TypeOK, Sound, QuotaInv, CycleRecycles
<1> QED
  BY <1>1, <1>2, <1>3, <1>4, <1>5, <1>6, <1>7 DEF IInv, Sound

LEMMA CycleFailsKeeps ==
  ASSUME IInv, NEW v \in Workers, CycleFails(v)
  PROVE  IInv'
<1>1. TypeOK'
  <2>1. pc' \in [Workers -> PC] /\ slot' \in [Workers -> Slot]
    <3>1. pc' \in [Workers -> PC]
      BY PoolConstants DEF IInv, TypeOK, PC, Sound, FailInv, Boots, CycleFails,
         FireUnhealthy
    <3>2. slot' \in [Workers -> Slot]
      BY PoolConstants DEF IInv, TypeOK, Slot, Sound, FailInv, Boots, CycleFails,
         FireUnhealthy
    <3> QED
      BY <3>1, <3>2
  <2>2. drained' \in [Workers -> BOOLEAN] /\ draining' \in [Workers -> BOOLEAN] /\ unhealthy' \in [Workers -> BOOLEAN]
    <3>1. drained' \in [Workers -> BOOLEAN]
      BY PoolConstants DEF IInv, TypeOK, Sound, FailInv, Boots, CycleFails, FireUnhealthy
    <3>2. draining' \in [Workers -> BOOLEAN]
      BY PoolConstants DEF IInv, TypeOK, Sound, FailInv, Boots, CycleFails, FireUnhealthy
    <3>3. unhealthy' \in [Workers -> BOOLEAN]
      BY PoolConstants DEF IInv, TypeOK, Sound, FailInv, Boots, CycleFails, FireUnhealthy
    <3> QED
      BY <3>1, <3>2, <3>3
  <2>3. quota' \in [Workers -> Nat] /\ served' \in [Workers -> Nat]
    <3>1. quota' \in [Workers -> Nat]
      BY PoolConstants DEF IInv, TypeOK, Sound, FailInv, Boots, CycleFails, FireUnhealthy
    <3>2. served' \in [Workers -> Nat]
      BY PoolConstants DEF IInv, TypeOK, Sound, FailInv, Boots, CycleFails, FireUnhealthy
    <3> QED
      BY <3>1, <3>2
  <2>4. failures' \in [Workers -> 0 .. UnhealthyAfter] /\ next_slot' \in [Workers -> Workers]
    <3>1. failures' \in [Workers -> 0 .. UnhealthyAfter]
      BY PoolConstants DEF IInv, TypeOK, Sound, FailInv, Boots, CycleFails, FireUnhealthy
    <3>2. next_slot' \in [Workers -> Workers]
      BY PoolConstants DEF IInv, TypeOK, Sound, FailInv, Boots, CycleFails, FireUnhealthy
    <3> QED
      BY <3>1, <3>2
  <2>5. seen' \in [Workers -> SUBSET {"closed", "received", "recycle", "called"}]
    BY PoolConstants DEF IInv, TypeOK, PC, Slot, Sound, FailInv, Boots, CycleFails, FireUnhealthy
  <2>6. why' \in [Workers -> {"none", "closed", "restart", "panicked"}] /\ hand' \in [Workers -> BOOLEAN]
    <3>1. why' \in [Workers -> {"none", "closed", "restart", "panicked"}]
      BY PoolConstants DEF IInv, TypeOK, Sound, FailInv, Boots, CycleFails, FireUnhealthy
    <3>2. hand' \in [Workers -> BOOLEAN]
      BY PoolConstants DEF IInv, TypeOK, Sound, FailInv, Boots, CycleFails, FireUnhealthy
    <3> QED
      BY <3>1, <3>2
  <2>7. handled' \in [Workers -> Nat] /\ job_handled' \in BOOLEAN /\ boot_failed' \in BOOLEAN
    <3>1. handled' \in [Workers -> Nat]
      BY PoolConstants DEF IInv, TypeOK, Sound, FailInv, Boots, CycleFails, FireUnhealthy
    <3>2. job_handled' \in BOOLEAN
      BY PoolConstants DEF IInv, TypeOK, Sound, FailInv, Boots, CycleFails, FireUnhealthy
    <3>3. boot_failed' \in BOOLEAN
      BY PoolConstants DEF IInv, TypeOK, Sound, FailInv, Boots, CycleFails, FireUnhealthy
    <3> QED
      BY <3>1, <3>2, <3>3
  <2>8. backlog' \in Nat /\ submitted' \in Nat /\ lost' \in Nat /\ stop' \in 0 .. 2 /\ mode' = mode
    <3>1. backlog' \in Nat
      BY PoolConstants DEF IInv, TypeOK, Sound, FailInv, Boots, CycleFails, FireUnhealthy
    <3>2. submitted' \in Nat
      BY PoolConstants DEF IInv, TypeOK, Sound, FailInv, Boots, CycleFails, FireUnhealthy
    <3>3. lost' \in Nat
      BY PoolConstants DEF IInv, TypeOK, Sound, FailInv, Boots, CycleFails, FireUnhealthy
    <3>4. stop' \in 0 .. 2
      BY PoolConstants DEF IInv, TypeOK, Sound, FailInv, Boots, CycleFails, FireUnhealthy
    <3>5. mode' = mode
      BY PoolConstants DEF IInv, TypeOK, Sound, FailInv, Boots, CycleFails, FireUnhealthy
    <3> QED
      BY <3>1, <3>2, <3>3, <3>4, <3>5
  <2> QED
    BY <2>1, <2>2, <2>3, <2>4, <2>5, <2>6, <2>7, <2>8 DEF IInv, TypeOK
<1>2. ASSUME NEW w \in Workers, w # v PROVE Sound(w)'
  <2>1. Same(w)
    BY <1>2 DEF IInv, TypeOK, Same, CycleFails, FireUnhealthy
  <2> QED
    BY <1>2, <2>1, Untouched DEF IInv
<1>3. DrainInv(v)'
  BY DEF IInv, TypeOK, Sound, DrainInv, PlaceInv, Running, CycleFails, FireUnhealthy
<1>4. PlaceInv(v)'
  BY DEF IInv, TypeOK, Sound, DrainInv, PlaceInv, Serving, Running, CycleFails, FireUnhealthy
<1>5. ClosedInv(v)'
  BY DEF IInv, TypeOK, Sound, ClosedInv, CycleFails, FireUnhealthy
<1>6. FailInv(v)'
  BY PoolConstants DEF IInv, TypeOK, Sound, FailInv, Boots, CycleFails, FireUnhealthy
<1>7. QuotaInv(v)'
  BY PoolConstants DEF IInv, TypeOK, Sound, QuotaInv, CycleFails, FireUnhealthy
<1> QED
  BY <1>1, <1>2, <1>3, <1>4, <1>5, <1>6, <1>7 DEF IInv, Sound

LEMMA EnterShedKeeps ==
  ASSUME IInv, NEW v \in Workers, EnterShed(v)
  PROVE  IInv'
<1>1. TypeOK'
  <2>1. pc' \in [Workers -> PC] /\ slot' \in [Workers -> Slot]
    <3>1. pc' \in [Workers -> PC]
      BY PoolConstants DEF IInv, TypeOK, PC, EnterShed, RefusesToShed, Return,
         ReclaimCurrent, CountHandled, Tick, Exhausts
    <3>2. slot' \in [Workers -> Slot]
      BY PoolConstants DEF IInv, TypeOK, Slot, EnterShed, RefusesToShed, Return,
         ReclaimCurrent, CountHandled, Tick, Exhausts
    <3> QED
      BY <3>1, <3>2
  <2>2. drained' \in [Workers -> BOOLEAN] /\ draining' \in [Workers -> BOOLEAN] /\ unhealthy' \in [Workers -> BOOLEAN]
    <3>1. CASE Return(v, "closed")
      BY <3>1, ReclaimTypes DEF IInv, TypeOK, EnterShed, Return
    <3>2. CASE ~Return(v, "closed")
      BY <3>2 DEF IInv, TypeOK, EnterShed
    <3> QED
      BY <3>1, <3>2
  <2>3. quota' \in [Workers -> Nat] /\ served' \in [Workers -> Nat]
    <3>1. CASE Return(v, "closed")
      BY <3>1, ReclaimTypes DEF IInv, TypeOK, EnterShed, Return
    <3>2. CASE ~Return(v, "closed")
      BY <3>2 DEF IInv, TypeOK, EnterShed
    <3> QED
      BY <3>1, <3>2
  <2>4. failures' \in [Workers -> 0 .. UnhealthyAfter] /\ next_slot' \in [Workers -> Workers]
    BY PoolConstants DEF IInv, TypeOK, PC, Slot, EnterShed, RefusesToShed, Return, ReclaimCurrent,
       CountHandled, Tick, Exhausts
  <2>5. seen' \in [Workers -> SUBSET {"closed", "received", "recycle", "called"}]
    BY PoolConstants DEF IInv, TypeOK, PC, Slot, EnterShed, RefusesToShed, Return, ReclaimCurrent,
       CountHandled, Tick, Exhausts
  <2>6. why' \in [Workers -> {"none", "closed", "restart", "panicked"}] /\ hand' \in [Workers -> BOOLEAN]
    <3>1. CASE Return(v, "closed")
      BY <3>1, ReclaimTypes DEF IInv, TypeOK, EnterShed, Return
    <3>2. CASE ~Return(v, "closed")
      BY <3>2 DEF IInv, TypeOK, EnterShed
    <3> QED
      BY <3>1, <3>2
  <2>7. handled' \in [Workers -> Nat] /\ job_handled' \in BOOLEAN /\ boot_failed' \in BOOLEAN
    <3>1. CASE Return(v, "closed")
      BY <3>1, ReclaimTypes DEF IInv, TypeOK, EnterShed, Return
    <3>2. CASE ~Return(v, "closed")
      BY <3>2 DEF IInv, TypeOK, EnterShed
    <3> QED
      BY <3>1, <3>2
  <2>8. backlog' \in Nat /\ submitted' \in Nat /\ lost' \in Nat /\ stop' \in 0 .. 2 /\ mode' = mode
    BY PoolConstants DEF IInv, TypeOK, PC, Slot, EnterShed, RefusesToShed, Return, ReclaimCurrent,
       CountHandled, Tick, Exhausts
  <2> QED
    BY <2>1, <2>2, <2>3, <2>4, <2>5, <2>6, <2>7, <2>8 DEF IInv, TypeOK
<1>2. ASSUME NEW w \in Workers, w # v PROVE Sound(w)'
  <2>1. Same(w)
    BY <1>2 DEF IInv, TypeOK, Same, EnterShed, RefusesToShed, Return, ReclaimCurrent,
       CountHandled, Tick, Exhausts
  <2> QED
    BY <1>2, <2>1, Untouched DEF IInv
<1>3. DrainInv(v)'
  BY DEF IInv, TypeOK, Sound, DrainInv, PlaceInv, Running, EnterShed, RefusesToShed, Return,
     ReclaimCurrent, CountHandled, Tick, Exhausts
<1>4. PlaceInv(v)'
  BY DEF IInv, TypeOK, Sound, DrainInv, PlaceInv, Serving, Running, EnterShed, RefusesToShed,
     Return, ReclaimCurrent, CountHandled, Tick, Exhausts
<1>5. ClosedInv(v)'
  BY DEF IInv, TypeOK, Sound, ClosedInv, EnterShed, RefusesToShed, Return, ReclaimCurrent,
     CountHandled, Tick, Exhausts
<1>6. FailInv(v)'
  BY PoolConstants DEF IInv, TypeOK, Sound, FailInv, Boots, EnterShed, RefusesToShed, Return,
     ReclaimCurrent, CountHandled, Tick, Exhausts
<1>7. QuotaInv(v)'
  BY PoolConstants DEF IInv, TypeOK, Sound, QuotaInv, EnterShed, RefusesToShed, Return,
     ReclaimCurrent, CountHandled, Tick, Exhausts
<1> QED
  BY <1>1, <1>2, <1>3, <1>4, <1>5, <1>6, <1>7 DEF IInv, Sound

LEMMA ShedUnitKeeps ==
  ASSUME IInv, NEW v \in Workers, ShedUnit(v)
  PROVE  IInv'
<1>1. TypeOK'
  <2>1. pc' \in [Workers -> PC] /\ slot' \in [Workers -> Slot]
    <3>1. pc' \in [Workers -> PC]
      BY PoolConstants DEF IInv, TypeOK, PC, ShedUnit, CountShed
    <3>2. slot' \in [Workers -> Slot]
      BY PoolConstants DEF IInv, TypeOK, Slot, ShedUnit, CountShed
    <3> QED
      BY <3>1, <3>2
  <2>2. drained' \in [Workers -> BOOLEAN] /\ draining' \in [Workers -> BOOLEAN] /\ unhealthy' \in [Workers -> BOOLEAN]
    BY PoolConstants DEF IInv, TypeOK, PC, Slot, ShedUnit, CountShed
  <2>3. quota' \in [Workers -> Nat] /\ served' \in [Workers -> Nat]
    BY PoolConstants DEF IInv, TypeOK, PC, Slot, ShedUnit, CountShed
  <2>4. failures' \in [Workers -> 0 .. UnhealthyAfter] /\ next_slot' \in [Workers -> Workers]
    BY PoolConstants DEF IInv, TypeOK, PC, Slot, ShedUnit, CountShed
  <2>5. seen' \in [Workers -> SUBSET {"closed", "received", "recycle", "called"}]
    BY PoolConstants DEF IInv, TypeOK, PC, Slot, ShedUnit, CountShed
  <2>6. why' \in [Workers -> {"none", "closed", "restart", "panicked"}] /\ hand' \in [Workers -> BOOLEAN]
    BY PoolConstants DEF IInv, TypeOK, PC, Slot, ShedUnit, CountShed
  <2>7. handled' \in [Workers -> Nat] /\ job_handled' \in BOOLEAN /\ boot_failed' \in BOOLEAN
    BY PoolConstants DEF IInv, TypeOK, PC, Slot, ShedUnit, CountShed
  <2>8. backlog' \in Nat /\ submitted' \in Nat /\ lost' \in Nat /\ stop' \in 0 .. 2 /\ mode' = mode
    BY PoolConstants DEF IInv, TypeOK, PC, Slot, ShedUnit, CountShed
  <2> QED
    BY <2>1, <2>2, <2>3, <2>4, <2>5, <2>6, <2>7, <2>8 DEF IInv, TypeOK
<1>2. ASSUME NEW w \in Workers, w # v PROVE Sound(w)'
  <2>1. Same(w)
    BY <1>2 DEF IInv, TypeOK, Same, ShedUnit, CountShed
  <2> QED
    BY <1>2, <2>1, Untouched DEF IInv
<1>3. DrainInv(v)'
  BY DEF IInv, TypeOK, Sound, DrainInv, PlaceInv, Running, ShedUnit, CountShed
<1>4. PlaceInv(v)'
  BY DEF IInv, TypeOK, Sound, DrainInv, PlaceInv, Serving, Running, ShedUnit, CountShed
<1>5. ClosedInv(v)'
  BY DEF IInv, TypeOK, Sound, ClosedInv, ShedUnit, CountShed
<1>6. FailInv(v)'
  BY PoolConstants DEF IInv, TypeOK, Sound, FailInv, Boots, ShedUnit, CountShed
<1>7. QuotaInv(v)'
  BY PoolConstants DEF IInv, TypeOK, Sound, QuotaInv, ShedUnit, CountShed
<1> QED
  BY <1>1, <1>2, <1>3, <1>4, <1>5, <1>6, <1>7 DEF IInv, Sound

LEMMA EndShedKeeps ==
  ASSUME IInv, NEW v \in Workers, EndShed(v)
  PROVE  IInv'
<1>1. TypeOK'
  <2>1. pc' \in [Workers -> PC] /\ slot' \in [Workers -> Slot]
    <3>1. pc' \in [Workers -> PC]
      BY PoolConstants DEF IInv, TypeOK, PC, EndShed, BootRetry, Return, ReclaimCurrent,
         CountHandled, Tick, Exhausts
    <3>2. slot' \in [Workers -> Slot]
      BY PoolConstants DEF IInv, TypeOK, Slot, EndShed, BootRetry, Return, ReclaimCurrent,
         CountHandled, Tick, Exhausts
    <3> QED
      BY <3>1, <3>2
  <2>2. drained' \in [Workers -> BOOLEAN] /\ draining' \in [Workers -> BOOLEAN] /\ unhealthy' \in [Workers -> BOOLEAN]
    <3>1. CASE Return(v, "closed")
      BY <3>1, ReclaimTypes DEF IInv, TypeOK, EndShed, Return
    <3>2. CASE ~Return(v, "closed")
      BY <3>2 DEF IInv, TypeOK, EndShed
    <3> QED
      BY <3>1, <3>2
  <2>3. quota' \in [Workers -> Nat] /\ served' \in [Workers -> Nat]
    <3>1. CASE Return(v, "closed")
      BY <3>1, ReclaimTypes DEF IInv, TypeOK, EndShed, Return
    <3>2. CASE ~Return(v, "closed")
      BY <3>2 DEF IInv, TypeOK, EndShed
    <3> QED
      BY <3>1, <3>2
  <2>4. failures' \in [Workers -> 0 .. UnhealthyAfter] /\ next_slot' \in [Workers -> Workers]
    BY PoolConstants DEF IInv, TypeOK, PC, Slot, EndShed, BootRetry, Return, ReclaimCurrent,
       CountHandled, Tick, Exhausts
  <2>5. seen' \in [Workers -> SUBSET {"closed", "received", "recycle", "called"}]
    BY PoolConstants DEF IInv, TypeOK, PC, Slot, EndShed, BootRetry, Return, ReclaimCurrent,
       CountHandled, Tick, Exhausts
  <2>6. why' \in [Workers -> {"none", "closed", "restart", "panicked"}] /\ hand' \in [Workers -> BOOLEAN]
    <3>1. CASE Return(v, "closed")
      BY <3>1, ReclaimTypes DEF IInv, TypeOK, EndShed, Return
    <3>2. CASE ~Return(v, "closed")
      BY <3>2 DEF IInv, TypeOK, EndShed
    <3> QED
      BY <3>1, <3>2
  <2>7. handled' \in [Workers -> Nat] /\ job_handled' \in BOOLEAN /\ boot_failed' \in BOOLEAN
    <3>1. CASE Return(v, "closed")
      BY <3>1, ReclaimTypes DEF IInv, TypeOK, EndShed, Return
    <3>2. CASE ~Return(v, "closed")
      BY <3>2 DEF IInv, TypeOK, EndShed
    <3> QED
      BY <3>1, <3>2
  <2>8. backlog' \in Nat /\ submitted' \in Nat /\ lost' \in Nat /\ stop' \in 0 .. 2 /\ mode' = mode
    BY PoolConstants DEF IInv, TypeOK, PC, Slot, EndShed, BootRetry, Return, ReclaimCurrent,
       CountHandled, Tick, Exhausts
  <2> QED
    BY <2>1, <2>2, <2>3, <2>4, <2>5, <2>6, <2>7, <2>8 DEF IInv, TypeOK
<1>2. ASSUME NEW w \in Workers, w # v PROVE Sound(w)'
  <2>1. Same(w)
    BY <1>2 DEF IInv, TypeOK, Same, EndShed, BootRetry, Return, ReclaimCurrent, CountHandled,
       Tick, Exhausts
  <2> QED
    BY <1>2, <2>1, Untouched DEF IInv
<1>3. DrainInv(v)'
  BY DEF IInv, TypeOK, Sound, DrainInv, PlaceInv, Running, EndShed, BootRetry, Return,
     ReclaimCurrent, CountHandled, Tick, Exhausts
<1>4. PlaceInv(v)'
  BY DEF IInv, TypeOK, Sound, DrainInv, PlaceInv, Serving, Running, EndShed, BootRetry, Return,
     ReclaimCurrent, CountHandled, Tick, Exhausts
<1>5. ClosedInv(v)'
  BY DEF IInv, TypeOK, Sound, ClosedInv, EndShed, BootRetry, Return, ReclaimCurrent, CountHandled,
     Tick, Exhausts
<1>6. FailInv(v)'
  BY PoolConstants DEF IInv, TypeOK, Sound, FailInv, Boots, EndShed, BootRetry, Return,
     ReclaimCurrent, CountHandled, Tick, Exhausts
<1>7. QuotaInv(v)'
  BY PoolConstants DEF IInv, TypeOK, Sound, QuotaInv, EndShed, BootRetry, Return, ReclaimCurrent,
     CountHandled, Tick, Exhausts
<1> QED
  BY <1>1, <1>2, <1>3, <1>4, <1>5, <1>6, <1>7 DEF IInv, Sound

LEMMA EndScriptKeeps ==
  ASSUME IInv, NEW v \in Workers, EndScript(v)
  PROVE  IInv'
<1>1. TypeOK'
  <2>1. pc' \in [Workers -> PC]
    BY PoolConstants DEF IInv, TypeOK, PC, EndScript
  <2>2. slot' \in [Workers -> Slot]
    BY PoolConstants DEF IInv, TypeOK, Slot, EndScript
  <2>3. drained' \in [Workers -> BOOLEAN] /\ draining' \in [Workers -> BOOLEAN] /\ unhealthy' \in [Workers -> BOOLEAN]
    BY PoolConstants DEF IInv, TypeOK, EndScript
  <2>4. quota' \in [Workers -> Nat] /\ served' \in [Workers -> Nat]
    BY PoolConstants DEF IInv, TypeOK, EndScript
  <2>5. failures' \in [Workers -> 0 .. UnhealthyAfter]
    BY PoolConstants DEF IInv, TypeOK, EndScript
  <2>6. next_slot' \in [Workers -> Workers]
    BY PoolConstants DEF IInv, TypeOK, Workers, EndScript
  <2>7. seen' \in [Workers -> SUBSET {"closed", "received", "recycle", "called"}]
    BY PoolConstants DEF IInv, TypeOK, EndScript
  <2>8. why' \in [Workers -> {"none", "closed", "restart", "panicked"}] /\ hand' \in [Workers -> BOOLEAN]
    BY PoolConstants DEF IInv, TypeOK, EndScript
  <2>9. handled' \in [Workers -> Nat] /\ job_handled' \in BOOLEAN /\ boot_failed' \in BOOLEAN
    BY PoolConstants DEF IInv, TypeOK, EndScript
  <2>10. backlog' \in Nat /\ submitted' \in Nat /\ lost' \in Nat /\ stop' \in 0 .. 2 /\ mode' = mode
    BY PoolConstants DEF IInv, TypeOK, EndScript
  <2> QED
    BY <2>1, <2>2, <2>3, <2>4, <2>5, <2>6, <2>7, <2>8, <2>9, <2>10 DEF IInv, TypeOK
<1>2. ASSUME NEW w \in Workers, w # v PROVE Sound(w)'
  <2>1. Same(w)
    BY <1>2 DEF IInv, TypeOK, Same, EndScript
  <2> QED
    BY <1>2, <2>1, Untouched DEF IInv
<1>3. DrainInv(v)'
  BY DEF IInv, TypeOK, Sound, DrainInv, PlaceInv, Running, EndScript
<1>4. PlaceInv(v)'
  BY DEF IInv, TypeOK, Sound, DrainInv, PlaceInv, Serving, Running, EndScript
<1>5. ClosedInv(v)'
  BY DEF IInv, TypeOK, Sound, ClosedInv, EndScript
<1>6. FailInv(v)'
  BY PoolConstants DEF IInv, TypeOK, Sound, FailInv, Boots, EndScript
<1>7. QuotaInv(v)'
  BY PoolConstants DEF IInv, TypeOK, Sound, QuotaInv, EndScript
<1> QED
  BY <1>1, <1>2, <1>3, <1>4, <1>5, <1>6, <1>7 DEF IInv, Sound

LEMMA FirstCallBailsKeeps ==
  ASSUME IInv, NEW v \in Workers, FirstCallBails(v)
  PROVE  IInv'
<1>1. TypeOK'
  <2>1. pc' \in [Workers -> PC]
    BY PoolConstants DEF IInv, TypeOK, PC, FirstCallBails
  <2>2. slot' \in [Workers -> Slot]
    BY PoolConstants DEF IInv, TypeOK, Slot, FirstCallBails
  <2>3. drained' \in [Workers -> BOOLEAN] /\ draining' \in [Workers -> BOOLEAN] /\ unhealthy' \in [Workers -> BOOLEAN]
    BY PoolConstants DEF IInv, TypeOK, FirstCallBails
  <2>4. quota' \in [Workers -> Nat] /\ served' \in [Workers -> Nat]
    BY PoolConstants DEF IInv, TypeOK, FirstCallBails
  <2>5. failures' \in [Workers -> 0 .. UnhealthyAfter]
    BY PoolConstants DEF IInv, TypeOK, FirstCallBails
  <2>6. next_slot' \in [Workers -> Workers]
    BY PoolConstants DEF IInv, TypeOK, Workers, FirstCallBails
  <2>7. seen' \in [Workers -> SUBSET {"closed", "received", "recycle", "called"}]
    BY PoolConstants DEF IInv, TypeOK, FirstCallBails
  <2>8. why' \in [Workers -> {"none", "closed", "restart", "panicked"}] /\ hand' \in [Workers -> BOOLEAN]
    BY PoolConstants DEF IInv, TypeOK, FirstCallBails
  <2>9. handled' \in [Workers -> Nat] /\ job_handled' \in BOOLEAN /\ boot_failed' \in BOOLEAN
    BY PoolConstants DEF IInv, TypeOK, FirstCallBails
  <2>10. backlog' \in Nat /\ submitted' \in Nat /\ lost' \in Nat /\ stop' \in 0 .. 2 /\ mode' = mode
    BY PoolConstants DEF IInv, TypeOK, FirstCallBails
  <2> QED
    BY <2>1, <2>2, <2>3, <2>4, <2>5, <2>6, <2>7, <2>8, <2>9, <2>10 DEF IInv, TypeOK
<1>2. ASSUME NEW w \in Workers, w # v PROVE Sound(w)'
  <2>1. Same(w)
    BY <1>2 DEF IInv, TypeOK, Same, FirstCallBails
  <2> QED
    BY <1>2, <2>1, Untouched DEF IInv
<1>3. DrainInv(v)'
  BY DEF IInv, TypeOK, Sound, DrainInv, PlaceInv, Running, FirstCallBails
<1>4. PlaceInv(v)'
  BY DEF IInv, TypeOK, Sound, DrainInv, PlaceInv, Serving, Running, FirstCallBails
<1>5. ClosedInv(v)'
  BY DEF IInv, TypeOK, Sound, ClosedInv, FirstCallBails
<1>6. FailInv(v)'
  BY PoolConstants DEF IInv, TypeOK, Sound, FailInv, Boots, FirstCallBails
<1>7. QuotaInv(v)'
  BY PoolConstants DEF IInv, TypeOK, Sound, QuotaInv, FirstCallBails
<1> QED
  BY <1>1, <1>2, <1>3, <1>4, <1>5, <1>6, <1>7 DEF IInv, Sound

LEMMA CallReceiveKeeps ==
  ASSUME IInv, NEW v \in Workers, CallReceive(v)
  PROVE  IInv'
<1>1. TypeOK'
  <2>1. pc' \in [Workers -> PC]
    BY PoolConstants DEF IInv, TypeOK, PC, CallReceive
  <2>2. slot' \in [Workers -> Slot]
    BY PoolConstants DEF IInv, TypeOK, Slot, CallReceive
  <2>3. drained' \in [Workers -> BOOLEAN] /\ draining' \in [Workers -> BOOLEAN] /\ unhealthy' \in [Workers -> BOOLEAN]
    BY PoolConstants DEF IInv, TypeOK, CallReceive
  <2>4. quota' \in [Workers -> Nat] /\ served' \in [Workers -> Nat]
    BY PoolConstants DEF IInv, TypeOK, CallReceive
  <2>5. failures' \in [Workers -> 0 .. UnhealthyAfter]
    BY PoolConstants DEF IInv, TypeOK, CallReceive
  <2>6. next_slot' \in [Workers -> Workers]
    BY PoolConstants DEF IInv, TypeOK, Workers, CallReceive
  <2>7. seen' \in [Workers -> SUBSET {"closed", "received", "recycle", "called"}]
    BY PoolConstants DEF IInv, TypeOK, CallReceive
  <2>8. why' \in [Workers -> {"none", "closed", "restart", "panicked"}] /\ hand' \in [Workers -> BOOLEAN]
    BY PoolConstants DEF IInv, TypeOK, CallReceive
  <2>9. handled' \in [Workers -> Nat] /\ job_handled' \in BOOLEAN /\ boot_failed' \in BOOLEAN
    BY PoolConstants DEF IInv, TypeOK, CallReceive
  <2>10. backlog' \in Nat /\ submitted' \in Nat /\ lost' \in Nat /\ stop' \in 0 .. 2 /\ mode' = mode
    BY PoolConstants DEF IInv, TypeOK, CallReceive
  <2> QED
    BY <2>1, <2>2, <2>3, <2>4, <2>5, <2>6, <2>7, <2>8, <2>9, <2>10 DEF IInv, TypeOK
<1>2. ASSUME NEW w \in Workers, w # v PROVE Sound(w)'
  <2>1. Same(w)
    BY <1>2 DEF IInv, TypeOK, Same, CallReceive
  <2> QED
    BY <1>2, <2>1, Untouched DEF IInv
<1>3. DrainInv(v)'
  BY DEF IInv, TypeOK, Sound, DrainInv, PlaceInv, Running, CallReceive
<1>4. PlaceInv(v)'
  BY DEF IInv, TypeOK, Sound, DrainInv, PlaceInv, Serving, Running, CallReceive
<1>5. ClosedInv(v)'
  BY DEF IInv, TypeOK, Sound, ClosedInv, CallReceive
<1>6. FailInv(v)'
  BY PoolConstants DEF IInv, TypeOK, Sound, FailInv, Boots, CallReceive
<1>7. QuotaInv(v)'
  BY PoolConstants DEF IInv, TypeOK, Sound, QuotaInv, CallReceive
<1> QED
  BY <1>1, <1>2, <1>3, <1>4, <1>5, <1>6, <1>7 DEF IInv, Sound

LEMMA SettleKeeps ==
  ASSUME IInv, NEW v \in Workers, Settle(v)
  PROVE  IInv'
<1>1. TypeOK'
  <2>1. pc' \in [Workers -> PC] /\ slot' \in [Workers -> Slot]
    <3>1. pc' \in [Workers -> PC]
      BY PoolConstants DEF IInv, TypeOK, PC, Settle, CountHandled, Tick, Exhausts
    <3>2. slot' \in [Workers -> Slot]
      BY PoolConstants DEF IInv, TypeOK, Slot, Settle, CountHandled, Tick, Exhausts
    <3> QED
      BY <3>1, <3>2
  <2>2. drained' \in [Workers -> BOOLEAN] /\ draining' \in [Workers -> BOOLEAN] /\ unhealthy' \in [Workers -> BOOLEAN]
    BY PoolConstants DEF IInv, TypeOK, PC, Slot, Settle, CountHandled, Tick, Exhausts
  <2>3. quota' \in [Workers -> Nat] /\ served' \in [Workers -> Nat]
    BY PoolConstants DEF IInv, TypeOK, PC, Slot, Settle, CountHandled, Tick, Exhausts
  <2>4. failures' \in [Workers -> 0 .. UnhealthyAfter] /\ next_slot' \in [Workers -> Workers]
    BY PoolConstants DEF IInv, TypeOK, PC, Slot, Settle, CountHandled, Tick, Exhausts
  <2>5. seen' \in [Workers -> SUBSET {"closed", "received", "recycle", "called"}]
    BY PoolConstants DEF IInv, TypeOK, PC, Slot, Settle, CountHandled, Tick, Exhausts
  <2>6. why' \in [Workers -> {"none", "closed", "restart", "panicked"}] /\ hand' \in [Workers -> BOOLEAN]
    BY PoolConstants DEF IInv, TypeOK, PC, Slot, Settle, CountHandled, Tick, Exhausts
  <2>7. handled' \in [Workers -> Nat] /\ job_handled' \in BOOLEAN /\ boot_failed' \in BOOLEAN
    BY PoolConstants DEF IInv, TypeOK, PC, Slot, Settle, CountHandled, Tick, Exhausts
  <2>8. backlog' \in Nat /\ submitted' \in Nat /\ lost' \in Nat /\ stop' \in 0 .. 2 /\ mode' = mode
    BY PoolConstants DEF IInv, TypeOK, PC, Slot, Settle, CountHandled, Tick, Exhausts
  <2> QED
    BY <2>1, <2>2, <2>3, <2>4, <2>5, <2>6, <2>7, <2>8 DEF IInv, TypeOK
<1>2. ASSUME NEW w \in Workers, w # v PROVE Sound(w)'
  <2>1. Same(w)
    BY <1>2 DEF IInv, TypeOK, Same, Settle, CountHandled, Tick, Exhausts
  <2> QED
    BY <1>2, <2>1, Untouched DEF IInv
<1>3. DrainInv(v)'
  BY DEF IInv, TypeOK, Sound, DrainInv, PlaceInv, Running, Settle, CountHandled, Tick, Exhausts
<1>4. PlaceInv(v)'
  BY DEF IInv, TypeOK, Sound, DrainInv, PlaceInv, Serving, Running, Settle, CountHandled, Tick,
     Exhausts
<1>5. ClosedInv(v)'
  BY DEF IInv, TypeOK, Sound, ClosedInv, Settle, CountHandled, Tick, Exhausts
<1>6. FailInv(v)'
  BY PoolConstants DEF IInv, TypeOK, Sound, FailInv, Boots, Settle, CountHandled, Tick, Exhausts
<1>7. QuotaInv(v)'
  BY PoolConstants DEF IInv, TypeOK, Sound, QuotaInv, Settle, CountHandled, Tick, Exhausts
<1> QED
  BY <1>1, <1>2, <1>3, <1>4, <1>5, <1>6, <1>7 DEF IInv, Sound

LEMMA PullKeeps ==
  ASSUME IInv, NEW v \in Workers, Pull(v)
  PROVE  IInv'
<1>1. TypeOK'
  <2>1. pc' \in [Workers -> PC] /\ slot' \in [Workers -> Slot]
    <3>1. pc' \in [Workers -> PC]
      BY PoolConstants DEF IInv, TypeOK, PC, Pull, Spent, Closed
    <3>2. slot' \in [Workers -> Slot]
      BY PoolConstants DEF IInv, TypeOK, Slot, Pull, Spent, Closed
    <3> QED
      BY <3>1, <3>2
  <2>2. drained' \in [Workers -> BOOLEAN] /\ draining' \in [Workers -> BOOLEAN] /\ unhealthy' \in [Workers -> BOOLEAN]
    BY PoolConstants DEF IInv, TypeOK, PC, Slot, Pull, Spent, Closed
  <2>3. quota' \in [Workers -> Nat] /\ served' \in [Workers -> Nat]
    BY PoolConstants DEF IInv, TypeOK, PC, Slot, Pull, Spent, Closed
  <2>4. failures' \in [Workers -> 0 .. UnhealthyAfter] /\ next_slot' \in [Workers -> Workers]
    BY PoolConstants DEF IInv, TypeOK, PC, Slot, Pull, Spent, Closed
  <2>5. seen' \in [Workers -> SUBSET {"closed", "received", "recycle", "called"}]
    BY PoolConstants DEF IInv, TypeOK, PC, Slot, Pull, Spent, Closed
  <2>6. why' \in [Workers -> {"none", "closed", "restart", "panicked"}] /\ hand' \in [Workers -> BOOLEAN]
    BY PoolConstants DEF IInv, TypeOK, PC, Slot, Pull, Spent, Closed
  <2>7. handled' \in [Workers -> Nat] /\ job_handled' \in BOOLEAN /\ boot_failed' \in BOOLEAN
    BY PoolConstants DEF IInv, TypeOK, PC, Slot, Pull, Spent, Closed
  <2>8. backlog' \in Nat /\ submitted' \in Nat /\ lost' \in Nat /\ stop' \in 0 .. 2 /\ mode' = mode
    BY PoolConstants DEF IInv, TypeOK, PC, Slot, Pull, Spent, Closed
  <2> QED
    BY <2>1, <2>2, <2>3, <2>4, <2>5, <2>6, <2>7, <2>8 DEF IInv, TypeOK
<1>2. ASSUME NEW w \in Workers, w # v PROVE Sound(w)'
  <2>1. Same(w)
    BY <1>2 DEF IInv, TypeOK, Same, Pull, Spent, Closed
  <2> QED
    BY <1>2, <2>1, Untouched DEF IInv
<1>3. DrainInv(v)'
  BY DEF IInv, TypeOK, Sound, DrainInv, PlaceInv, Running, Pull, Spent, Closed
<1>4. PlaceInv(v)'
  BY DEF IInv, TypeOK, Sound, DrainInv, PlaceInv, Serving, Running, Pull, Spent, Closed
<1>5. ClosedInv(v)'
  BY DEF IInv, TypeOK, Sound, ClosedInv, Pull, Spent, Closed
<1>6. FailInv(v)'
  BY PoolConstants DEF IInv, TypeOK, Sound, FailInv, Boots, Pull, Spent, Closed
<1>7. QuotaInv(v)'
  BY PoolConstants DEF IInv, TypeOK, Sound, QuotaInv, Pull, Spent, Closed
<1> QED
  BY <1>1, <1>2, <1>3, <1>4, <1>5, <1>6, <1>7 DEF IInv, Sound

LEMMA PollKeeps ==
  ASSUME IInv, NEW v \in Workers, Poll(v)
  PROVE  IInv'
<1>1. TypeOK'
  <2>1. pc' \in [Workers -> PC] /\ slot' \in [Workers -> Slot]
    <3>1. pc' \in [Workers -> PC]
      BY PoolConstants DEF IInv, TypeOK, PC, Poll, MarkDraining, Closed
    <3>2. slot' \in [Workers -> Slot]
      BY PoolConstants DEF IInv, TypeOK, Slot, Poll, MarkDraining, Closed
    <3> QED
      BY <3>1, <3>2
  <2>2. drained' \in [Workers -> BOOLEAN] /\ draining' \in [Workers -> BOOLEAN] /\ unhealthy' \in [Workers -> BOOLEAN]
    BY PoolConstants DEF IInv, TypeOK, PC, Slot, Poll, MarkDraining, Closed
  <2>3. quota' \in [Workers -> Nat] /\ served' \in [Workers -> Nat]
    BY PoolConstants DEF IInv, TypeOK, PC, Slot, Poll, MarkDraining, Closed
  <2>4. failures' \in [Workers -> 0 .. UnhealthyAfter] /\ next_slot' \in [Workers -> Workers]
    BY PoolConstants DEF IInv, TypeOK, PC, Slot, Poll, MarkDraining, Closed
  <2>5. seen' \in [Workers -> SUBSET {"closed", "received", "recycle", "called"}]
    BY PoolConstants DEF IInv, TypeOK, PC, Slot, Poll, MarkDraining, Closed
  <2>6. why' \in [Workers -> {"none", "closed", "restart", "panicked"}] /\ hand' \in [Workers -> BOOLEAN]
    BY PoolConstants DEF IInv, TypeOK, PC, Slot, Poll, MarkDraining, Closed
  <2>7. handled' \in [Workers -> Nat] /\ job_handled' \in BOOLEAN /\ boot_failed' \in BOOLEAN
    BY PoolConstants DEF IInv, TypeOK, PC, Slot, Poll, MarkDraining, Closed
  <2>8. backlog' \in Nat /\ submitted' \in Nat /\ lost' \in Nat /\ stop' \in 0 .. 2 /\ mode' = mode
    BY PoolConstants DEF IInv, TypeOK, PC, Slot, Poll, MarkDraining, Closed
  <2> QED
    BY <2>1, <2>2, <2>3, <2>4, <2>5, <2>6, <2>7, <2>8 DEF IInv, TypeOK
<1>2. ASSUME NEW w \in Workers, w # v PROVE Sound(w)'
  <2>1. Same(w)
    BY <1>2 DEF IInv, TypeOK, Same, Poll, MarkDraining, Closed
  <2> QED
    BY <1>2, <2>1, Untouched DEF IInv
<1>3. DrainInv(v)'
  BY DEF IInv, TypeOK, Sound, DrainInv, PlaceInv, Running, Poll, MarkDraining, Closed
<1>4. PlaceInv(v)'
  BY DEF IInv, TypeOK, Sound, DrainInv, PlaceInv, Serving, Running, Poll, MarkDraining, Closed
<1>5. ClosedInv(v)'
  BY DEF IInv, TypeOK, Sound, ClosedInv, Poll, MarkDraining, Closed
<1>6. FailInv(v)'
  BY PoolConstants DEF IInv, TypeOK, Sound, FailInv, Boots, Poll, MarkDraining, Closed
<1>7. QuotaInv(v)'
  BY PoolConstants DEF IInv, TypeOK, Sound, QuotaInv, Poll, MarkDraining, Closed
<1> QED
  BY <1>1, <1>2, <1>3, <1>4, <1>5, <1>6, <1>7 DEF IInv, Sound

LEMMA TakeUnitKeeps ==
  ASSUME IInv, NEW v \in Workers, TakeUnit(v)
  PROVE  IInv'
<1>1. TypeOK'
  <2>1. pc' \in [Workers -> PC] /\ slot' \in [Workers -> Slot]
    <3>1. pc' \in [Workers -> PC]
      BY PoolConstants DEF IInv, TypeOK, PC, TakeUnit, CountShed
    <3>2. slot' \in [Workers -> Slot]
      BY PoolConstants DEF IInv, TypeOK, Slot, TakeUnit, CountShed
    <3> QED
      BY <3>1, <3>2
  <2>2. drained' \in [Workers -> BOOLEAN] /\ draining' \in [Workers -> BOOLEAN] /\ unhealthy' \in [Workers -> BOOLEAN]
    BY PoolConstants DEF IInv, TypeOK, PC, Slot, TakeUnit, CountShed
  <2>3. quota' \in [Workers -> Nat] /\ served' \in [Workers -> Nat]
    BY PoolConstants DEF IInv, TypeOK, PC, Slot, TakeUnit, CountShed
  <2>4. failures' \in [Workers -> 0 .. UnhealthyAfter] /\ next_slot' \in [Workers -> Workers]
    BY PoolConstants DEF IInv, TypeOK, PC, Slot, TakeUnit, CountShed
  <2>5. seen' \in [Workers -> SUBSET {"closed", "received", "recycle", "called"}]
    BY PoolConstants DEF IInv, TypeOK, PC, Slot, TakeUnit, CountShed
  <2>6. why' \in [Workers -> {"none", "closed", "restart", "panicked"}] /\ hand' \in [Workers -> BOOLEAN]
    BY PoolConstants DEF IInv, TypeOK, PC, Slot, TakeUnit, CountShed
  <2>7. handled' \in [Workers -> Nat] /\ job_handled' \in BOOLEAN /\ boot_failed' \in BOOLEAN
    BY PoolConstants DEF IInv, TypeOK, PC, Slot, TakeUnit, CountShed
  <2>8. backlog' \in Nat /\ submitted' \in Nat /\ lost' \in Nat /\ stop' \in 0 .. 2 /\ mode' = mode
    BY PoolConstants DEF IInv, TypeOK, PC, Slot, TakeUnit, CountShed
  <2> QED
    BY <2>1, <2>2, <2>3, <2>4, <2>5, <2>6, <2>7, <2>8 DEF IInv, TypeOK
<1>2. ASSUME NEW w \in Workers, w # v PROVE Sound(w)'
  <2>1. Same(w)
    BY <1>2 DEF IInv, TypeOK, Same, TakeUnit, CountShed
  <2> QED
    BY <1>2, <2>1, Untouched DEF IInv
<1>3. DrainInv(v)'
  BY DEF IInv, TypeOK, Sound, DrainInv, PlaceInv, Running, TakeUnit, CountShed
<1>4. PlaceInv(v)'
  BY DEF IInv, TypeOK, Sound, DrainInv, PlaceInv, Serving, Running, TakeUnit, CountShed
<1>5. ClosedInv(v)'
  BY DEF IInv, TypeOK, Sound, ClosedInv, TakeUnit, CountShed
<1>6. FailInv(v)'
  BY PoolConstants DEF IInv, TypeOK, Sound, FailInv, Boots, TakeUnit, CountShed
<1>7. QuotaInv(v)'
  BY PoolConstants DEF IInv, TypeOK, Sound, QuotaInv, TakeUnit, CountShed
<1> QED
  BY <1>1, <1>2, <1>3, <1>4, <1>5, <1>6, <1>7 DEF IInv, Sound

LEMMA NoUnitKeeps ==
  ASSUME IInv, NEW v \in Workers, NoUnit(v)
  PROVE  IInv'
<1>1. TypeOK'
  <2>1. pc' \in [Workers -> PC]
    BY PoolConstants DEF IInv, TypeOK, PC, NoUnit
  <2>2. slot' \in [Workers -> Slot]
    BY PoolConstants DEF IInv, TypeOK, Slot, NoUnit
  <2>3. drained' \in [Workers -> BOOLEAN] /\ draining' \in [Workers -> BOOLEAN] /\ unhealthy' \in [Workers -> BOOLEAN]
    BY PoolConstants DEF IInv, TypeOK, NoUnit
  <2>4. quota' \in [Workers -> Nat] /\ served' \in [Workers -> Nat]
    BY PoolConstants DEF IInv, TypeOK, NoUnit
  <2>5. failures' \in [Workers -> 0 .. UnhealthyAfter]
    BY PoolConstants DEF IInv, TypeOK, NoUnit
  <2>6. next_slot' \in [Workers -> Workers]
    BY PoolConstants DEF IInv, TypeOK, Workers, NoUnit
  <2>7. seen' \in [Workers -> SUBSET {"closed", "received", "recycle", "called"}]
    BY PoolConstants DEF IInv, TypeOK, NoUnit
  <2>8. why' \in [Workers -> {"none", "closed", "restart", "panicked"}] /\ hand' \in [Workers -> BOOLEAN]
    BY PoolConstants DEF IInv, TypeOK, NoUnit
  <2>9. handled' \in [Workers -> Nat] /\ job_handled' \in BOOLEAN /\ boot_failed' \in BOOLEAN
    BY PoolConstants DEF IInv, TypeOK, NoUnit
  <2>10. backlog' \in Nat /\ submitted' \in Nat /\ lost' \in Nat /\ stop' \in 0 .. 2 /\ mode' = mode
    BY PoolConstants DEF IInv, TypeOK, NoUnit
  <2> QED
    BY <2>1, <2>2, <2>3, <2>4, <2>5, <2>6, <2>7, <2>8, <2>9, <2>10 DEF IInv, TypeOK
<1>2. ASSUME NEW w \in Workers, w # v PROVE Sound(w)'
  <2>1. Same(w)
    BY <1>2 DEF IInv, TypeOK, Same, NoUnit
  <2> QED
    BY <1>2, <2>1, Untouched DEF IInv
<1>3. DrainInv(v)'
  BY DEF IInv, TypeOK, Sound, DrainInv, PlaceInv, Running, NoUnit
<1>4. PlaceInv(v)'
  BY DEF IInv, TypeOK, Sound, DrainInv, PlaceInv, Serving, Running, NoUnit
<1>5. ClosedInv(v)'
  BY DEF IInv, TypeOK, Sound, ClosedInv, NoUnit
<1>6. FailInv(v)'
  BY PoolConstants DEF IInv, TypeOK, Sound, FailInv, Boots, NoUnit
<1>7. QuotaInv(v)'
  BY PoolConstants DEF IInv, TypeOK, Sound, QuotaInv, NoUnit
<1> QED
  BY <1>1, <1>2, <1>3, <1>4, <1>5, <1>6, <1>7 DEF IInv, Sound

LEMMA SeeStopKeeps ==
  ASSUME IInv, NEW v \in Workers, SeeStop(v)
  PROVE  IInv'
<1>1. TypeOK'
  <2>1. pc' \in [Workers -> PC] /\ slot' \in [Workers -> Slot]
    <3>1. pc' \in [Workers -> PC]
      BY PoolConstants DEF IInv, TypeOK, PC, SeeStop, StopWakes, MarkDraining, Closed
    <3>2. slot' \in [Workers -> Slot]
      BY PoolConstants DEF IInv, TypeOK, Slot, SeeStop, StopWakes, MarkDraining, Closed
    <3> QED
      BY <3>1, <3>2
  <2>2. drained' \in [Workers -> BOOLEAN] /\ draining' \in [Workers -> BOOLEAN] /\ unhealthy' \in [Workers -> BOOLEAN]
    BY PoolConstants DEF IInv, TypeOK, PC, Slot, SeeStop, StopWakes, MarkDraining, Closed
  <2>3. quota' \in [Workers -> Nat] /\ served' \in [Workers -> Nat]
    BY PoolConstants DEF IInv, TypeOK, PC, Slot, SeeStop, StopWakes, MarkDraining, Closed
  <2>4. failures' \in [Workers -> 0 .. UnhealthyAfter] /\ next_slot' \in [Workers -> Workers]
    BY PoolConstants DEF IInv, TypeOK, PC, Slot, SeeStop, StopWakes, MarkDraining, Closed
  <2>5. seen' \in [Workers -> SUBSET {"closed", "received", "recycle", "called"}]
    BY PoolConstants DEF IInv, TypeOK, PC, Slot, SeeStop, StopWakes, MarkDraining, Closed
  <2>6. why' \in [Workers -> {"none", "closed", "restart", "panicked"}] /\ hand' \in [Workers -> BOOLEAN]
    BY PoolConstants DEF IInv, TypeOK, PC, Slot, SeeStop, StopWakes, MarkDraining, Closed
  <2>7. handled' \in [Workers -> Nat] /\ job_handled' \in BOOLEAN /\ boot_failed' \in BOOLEAN
    BY PoolConstants DEF IInv, TypeOK, PC, Slot, SeeStop, StopWakes, MarkDraining, Closed
  <2>8. backlog' \in Nat /\ submitted' \in Nat /\ lost' \in Nat /\ stop' \in 0 .. 2 /\ mode' = mode
    BY PoolConstants DEF IInv, TypeOK, PC, Slot, SeeStop, StopWakes, MarkDraining, Closed
  <2> QED
    BY <2>1, <2>2, <2>3, <2>4, <2>5, <2>6, <2>7, <2>8 DEF IInv, TypeOK
<1>2. ASSUME NEW w \in Workers, w # v PROVE Sound(w)'
  <2>1. Same(w)
    BY <1>2 DEF IInv, TypeOK, Same, SeeStop, StopWakes, MarkDraining, Closed
  <2> QED
    BY <1>2, <2>1, Untouched DEF IInv
<1>3. DrainInv(v)'
  BY DEF IInv, TypeOK, Sound, DrainInv, PlaceInv, Running, SeeStop, StopWakes, MarkDraining,
     Closed
<1>4. PlaceInv(v)'
  BY DEF IInv, TypeOK, Sound, DrainInv, PlaceInv, Serving, Running, SeeStop, StopWakes,
     MarkDraining, Closed
<1>5. ClosedInv(v)'
  BY DEF IInv, TypeOK, Sound, ClosedInv, SeeStop, StopWakes, MarkDraining, Closed
<1>6. FailInv(v)'
  BY PoolConstants DEF IInv, TypeOK, Sound, FailInv, Boots, SeeStop, StopWakes, MarkDraining,
     Closed
<1>7. QuotaInv(v)'
  BY PoolConstants DEF IInv, TypeOK, Sound, QuotaInv, SeeStop, StopWakes, MarkDraining, Closed
<1> QED
  BY <1>1, <1>2, <1>3, <1>4, <1>5, <1>6, <1>7 DEF IInv, Sound

LEMMA FinishKeeps ==
  ASSUME IInv, NEW v \in Workers, Finish(v)
  PROVE  IInv'
<1>1. TypeOK'
  <2>1. pc' \in [Workers -> PC] /\ slot' \in [Workers -> Slot]
    <3>1. pc' \in [Workers -> PC]
      BY PoolConstants DEF IInv, TypeOK, PC, Finish, CountHandled, Tick, Exhausts
    <3>2. slot' \in [Workers -> Slot]
      BY PoolConstants DEF IInv, TypeOK, Slot, Finish, CountHandled, Tick, Exhausts
    <3> QED
      BY <3>1, <3>2
  <2>2. drained' \in [Workers -> BOOLEAN] /\ draining' \in [Workers -> BOOLEAN] /\ unhealthy' \in [Workers -> BOOLEAN]
    BY PoolConstants DEF IInv, TypeOK, PC, Slot, Finish, CountHandled, Tick, Exhausts
  <2>3. quota' \in [Workers -> Nat] /\ served' \in [Workers -> Nat]
    BY PoolConstants DEF IInv, TypeOK, PC, Slot, Finish, CountHandled, Tick, Exhausts
  <2>4. failures' \in [Workers -> 0 .. UnhealthyAfter] /\ next_slot' \in [Workers -> Workers]
    BY PoolConstants DEF IInv, TypeOK, PC, Slot, Finish, CountHandled, Tick, Exhausts
  <2>5. seen' \in [Workers -> SUBSET {"closed", "received", "recycle", "called"}]
    BY PoolConstants DEF IInv, TypeOK, PC, Slot, Finish, CountHandled, Tick, Exhausts
  <2>6. why' \in [Workers -> {"none", "closed", "restart", "panicked"}] /\ hand' \in [Workers -> BOOLEAN]
    BY PoolConstants DEF IInv, TypeOK, PC, Slot, Finish, CountHandled, Tick, Exhausts
  <2>7. handled' \in [Workers -> Nat] /\ job_handled' \in BOOLEAN /\ boot_failed' \in BOOLEAN
    BY PoolConstants DEF IInv, TypeOK, PC, Slot, Finish, CountHandled, Tick, Exhausts
  <2>8. backlog' \in Nat /\ submitted' \in Nat /\ lost' \in Nat /\ stop' \in 0 .. 2 /\ mode' = mode
    BY PoolConstants DEF IInv, TypeOK, PC, Slot, Finish, CountHandled, Tick, Exhausts
  <2> QED
    BY <2>1, <2>2, <2>3, <2>4, <2>5, <2>6, <2>7, <2>8 DEF IInv, TypeOK
<1>2. ASSUME NEW w \in Workers, w # v PROVE Sound(w)'
  <2>1. Same(w)
    BY <1>2 DEF IInv, TypeOK, Same, Finish, CountHandled, Tick, Exhausts
  <2> QED
    BY <1>2, <2>1, Untouched DEF IInv
<1>3. DrainInv(v)'
  BY DEF IInv, TypeOK, Sound, DrainInv, PlaceInv, Running, Finish, CountHandled, Tick, Exhausts
<1>4. PlaceInv(v)'
  BY DEF IInv, TypeOK, Sound, DrainInv, PlaceInv, Serving, Running, Finish, CountHandled, Tick,
     Exhausts
<1>5. ClosedInv(v)'
  BY DEF IInv, TypeOK, Sound, ClosedInv, Finish, CountHandled, Tick, Exhausts
<1>6. FailInv(v)'
  BY PoolConstants DEF IInv, TypeOK, Sound, FailInv, Boots, Finish, CountHandled, Tick, Exhausts
<1>7. QuotaInv(v)'
  BY TickKeepsQuota DEF IInv, Sound, Finish, CountHandled
<1> QED
  BY <1>1, <1>2, <1>3, <1>4, <1>5, <1>6, <1>7 DEF IInv, Sound

LEMMA PanicKeeps ==
  ASSUME IInv, NEW v \in Workers, Panic(v)
  PROVE  IInv'
<1>1. TypeOK'
  <2>1. pc' \in [Workers -> PC] /\ slot' \in [Workers -> Slot]
    <3>1. pc' \in [Workers -> PC]
      BY PoolConstants DEF IInv, TypeOK, PC, Panic, FireUnhealthy
    <3>2. slot' \in [Workers -> Slot]
      BY PoolConstants DEF IInv, TypeOK, Slot, Panic, FireUnhealthy
    <3> QED
      BY <3>1, <3>2
  <2>2. drained' \in [Workers -> BOOLEAN] /\ draining' \in [Workers -> BOOLEAN] /\ unhealthy' \in [Workers -> BOOLEAN]
    <3>1. drained' \in [Workers -> BOOLEAN]
      BY PoolConstants DEF IInv, TypeOK, Panic, FireUnhealthy
    <3>2. draining' \in [Workers -> BOOLEAN]
      BY PoolConstants DEF IInv, TypeOK, Panic, FireUnhealthy
    <3>3. unhealthy' \in [Workers -> BOOLEAN]
      BY PoolConstants DEF IInv, TypeOK, Panic, FireUnhealthy
    <3> QED
      BY <3>1, <3>2, <3>3
  <2>3. quota' \in [Workers -> Nat] /\ served' \in [Workers -> Nat]
    <3>1. quota' \in [Workers -> Nat]
      BY PoolConstants DEF IInv, TypeOK, Panic, FireUnhealthy
    <3>2. served' \in [Workers -> Nat]
      BY PoolConstants DEF IInv, TypeOK, Panic, FireUnhealthy
    <3> QED
      BY <3>1, <3>2
  <2>4. failures' \in [Workers -> 0 .. UnhealthyAfter] /\ next_slot' \in [Workers -> Workers]
    <3>1. failures' \in [Workers -> 0 .. UnhealthyAfter]
      BY PoolConstants DEF IInv, TypeOK, Panic, FireUnhealthy
    <3>2. next_slot' \in [Workers -> Workers]
      BY PoolConstants DEF IInv, TypeOK, Panic, FireUnhealthy
    <3> QED
      BY <3>1, <3>2
  <2>5. seen' \in [Workers -> SUBSET {"closed", "received", "recycle", "called"}]
    BY PoolConstants DEF IInv, TypeOK, PC, Slot, Panic, FireUnhealthy
  <2>6. why' \in [Workers -> {"none", "closed", "restart", "panicked"}] /\ hand' \in [Workers -> BOOLEAN]
    <3>1. why' \in [Workers -> {"none", "closed", "restart", "panicked"}]
      BY PoolConstants DEF IInv, TypeOK, Panic, FireUnhealthy
    <3>2. hand' \in [Workers -> BOOLEAN]
      BY PoolConstants DEF IInv, TypeOK, Panic, FireUnhealthy
    <3> QED
      BY <3>1, <3>2
  <2>7. handled' \in [Workers -> Nat] /\ job_handled' \in BOOLEAN /\ boot_failed' \in BOOLEAN
    <3>1. handled' \in [Workers -> Nat]
      BY PoolConstants DEF IInv, TypeOK, Panic, FireUnhealthy
    <3>2. job_handled' \in BOOLEAN
      BY PoolConstants DEF IInv, TypeOK, Panic, FireUnhealthy
    <3>3. boot_failed' \in BOOLEAN
      BY PoolConstants DEF IInv, TypeOK, Panic, FireUnhealthy
    <3> QED
      BY <3>1, <3>2, <3>3
  <2>8. backlog' \in Nat /\ submitted' \in Nat /\ lost' \in Nat /\ stop' \in 0 .. 2 /\ mode' = mode
    <3>1. backlog' \in Nat
      BY PoolConstants DEF IInv, TypeOK, Panic, FireUnhealthy
    <3>2. submitted' \in Nat
      BY PoolConstants DEF IInv, TypeOK, Panic, FireUnhealthy
    <3>3. lost' \in Nat
      BY PoolConstants DEF IInv, TypeOK, Panic, FireUnhealthy
    <3>4. stop' \in 0 .. 2
      BY PoolConstants DEF IInv, TypeOK, Panic, FireUnhealthy
    <3>5. mode' = mode
      BY PoolConstants DEF IInv, TypeOK, Panic, FireUnhealthy
    <3> QED
      BY <3>1, <3>2, <3>3, <3>4, <3>5
  <2> QED
    BY <2>1, <2>2, <2>3, <2>4, <2>5, <2>6, <2>7, <2>8 DEF IInv, TypeOK
<1>2. ASSUME NEW w \in Workers, w # v PROVE Sound(w)'
  <2>1. Same(w)
    BY <1>2 DEF IInv, TypeOK, Same, Panic, FireUnhealthy
  <2> QED
    BY <1>2, <2>1, Untouched DEF IInv
<1>3. DrainInv(v)'
  BY DEF IInv, TypeOK, Sound, DrainInv, PlaceInv, Running, Panic, FireUnhealthy
<1>4. PlaceInv(v)'
  BY DEF IInv, TypeOK, Sound, DrainInv, PlaceInv, Serving, Running, Panic, FireUnhealthy
<1>5. ClosedInv(v)'
  BY DEF IInv, TypeOK, Sound, ClosedInv, Panic, FireUnhealthy
<1>6. FailInv(v)'
  BY PoolConstants DEF IInv, TypeOK, Sound, FailInv, Boots, Panic, FireUnhealthy
<1>7. QuotaInv(v)'
  BY PoolConstants DEF IInv, TypeOK, Sound, QuotaInv, Panic, FireUnhealthy
<1> QED
  BY <1>1, <1>2, <1>3, <1>4, <1>5, <1>6, <1>7 DEF IInv, Sound

-----------------------------------------------------------------------------
(* The invariant is inductive.                                             *)

LEMMA InitKeeps == Init => IInv
<1> SUFFICES ASSUME Init PROVE IInv
  OBVIOUS
<1>1. TypeOK
  <2>1. 1 \in Workers /\ 0 \in 0 .. UnhealthyAfter
    BY PoolConstants DEF Workers
  <2>2. mode \in {"classic", "worker", "dispatcher"}
    BY PoolConstants DEF Init
  <2>3. pc \in [Workers -> PC] /\ slot \in [Workers -> Slot]
    BY DEF Init, PC, Slot
  <2>4. /\ drained \in [Workers -> BOOLEAN] /\ draining \in [Workers -> BOOLEAN]
        /\ unhealthy \in [Workers -> BOOLEAN] /\ hand \in [Workers -> BOOLEAN]
        /\ job_handled \in BOOLEAN /\ boot_failed \in BOOLEAN
    BY DEF Init
  <2>5. /\ quota \in [Workers -> Nat] /\ served \in [Workers -> Nat]
        /\ handled \in [Workers -> Nat]
    BY DEF Init
  <2>6. /\ failures \in [Workers -> 0 .. UnhealthyAfter] /\ next_slot \in [Workers -> Workers]
    BY <2>1 DEF Init
  <2>7. /\ seen \in [Workers -> SUBSET {"closed", "received", "recycle", "called"}]
        /\ why \in [Workers -> {"none", "closed", "restart", "panicked"}]
    BY DEF Init
  <2>8. backlog \in Nat /\ submitted \in Nat /\ lost \in Nat /\ stop \in 0 .. 2
    BY DEF Init
  <2> QED
    BY <2>2, <2>3, <2>4, <2>5, <2>6, <2>7, <2>8 DEF TypeOK
<1>2. ASSUME NEW w \in Workers PROVE Sound(w)
  BY PoolConstants DEF Init, Sound, DrainInv, PlaceInv, ClosedInv, FailInv, QuotaInv, Serving,
     Running, Boots
<1> QED
  BY <1>1, <1>2 DEF IInv

\* Steps that no thread takes.
LEMMA OutsideKeeps ==
  ASSUME IInv, Submit \/ StopStep \/ UNCHANGED state
  PROVE  IInv'
<1>1. TypeOK'
  <2>1. pc' \in [Workers -> PC]
    BY DEF IInv, TypeOK, Submit, StopStep, state
  <2>2. slot' \in [Workers -> Slot]
    BY DEF IInv, TypeOK, Submit, StopStep, state
  <2>3. drained' \in [Workers -> BOOLEAN] /\ draining' \in [Workers -> BOOLEAN] /\ unhealthy' \in [Workers -> BOOLEAN]
    BY DEF IInv, TypeOK, Submit, StopStep, state
  <2>4. quota' \in [Workers -> Nat] /\ served' \in [Workers -> Nat]
    BY DEF IInv, TypeOK, Submit, StopStep, state
  <2>5. failures' \in [Workers -> 0 .. UnhealthyAfter]
    BY DEF IInv, TypeOK, Submit, StopStep, state
  <2>6. next_slot' \in [Workers -> Workers]
    BY DEF IInv, TypeOK, Submit, StopStep, state
  <2>7. seen' \in [Workers -> SUBSET {"closed", "received", "recycle", "called"}]
    BY DEF IInv, TypeOK, Submit, StopStep, state
  <2>8. why' \in [Workers -> {"none", "closed", "restart", "panicked"}] /\ hand' \in [Workers -> BOOLEAN]
    BY DEF IInv, TypeOK, Submit, StopStep, state
  <2>9. handled' \in [Workers -> Nat] /\ job_handled' \in BOOLEAN /\ boot_failed' \in BOOLEAN
    BY DEF IInv, TypeOK, Submit, StopStep, state
  <2>10. backlog' \in Nat /\ submitted' \in Nat /\ lost' \in Nat /\ stop' \in 0 .. 2 /\ mode' = mode
    BY DEF IInv, TypeOK, Submit, StopStep, state
  <2> QED
    BY <2>1, <2>2, <2>3, <2>4, <2>5, <2>6, <2>7, <2>8, <2>9, <2>10 DEF IInv, TypeOK
<1>2. ASSUME NEW w \in Workers PROVE Sound(w)'
  <2>1. Same(w)
    BY DEF IInv, TypeOK, Same, Submit, StopStep, state
  <2> QED
    BY <1>2, <2>1, Untouched DEF IInv
<1> QED
  BY <1>1, <1>2 DEF IInv

LEMMA NextKeeps ==
  ASSUME IInv, [Next]_vars
  PROVE  IInv'
<1>1. ASSUME NEW w \in Workers, Lifecycle(w) PROVE IInv'
  BY <1>1, BuildKeeps, DropInterpreterKeeps, NextInterpreterKeeps, ReadHandledKeeps, ScanKeeps,
     BackoffKeeps DEF Lifecycle
<1>2. ASSUME NEW w \in Workers, Boot(w) PROVE IInv'
  BY <1>2, BeginCycleKeeps, ShutdownBailsKeeps, CycleStopsKeeps, CycleRecyclesKeeps,
     CycleFailsKeeps, EnterShedKeeps, ShedUnitKeeps, EndShedKeeps DEF Boot
<1>3. ASSUME NEW w \in Workers, Script(w) PROVE IInv'
  BY <1>3, EndScriptKeeps, FirstCallBailsKeeps, CallReceiveKeeps, SettleKeeps DEF Script
<1>4. ASSUME NEW w \in Workers, Receive(w) PROVE IInv'
  BY <1>4, PullKeeps, PollKeeps, TakeUnitKeeps, NoUnitKeeps, SeeStopKeeps, FinishKeeps, PanicKeeps
     DEF Receive
<1>5. CASE Submit \/ StopStep \/ Finished \/ UNCHANGED vars
  BY <1>5, OutsideKeeps DEF Finished, vars, state
<1> QED
  BY <1>1, <1>2, <1>3, <1>4, <1>5 DEF Next, Step

\* The invariant holds in every state that the pool reaches.
THEOREM PoolInvariance == Spec => []IInv
<1>1. IInv /\ [Next]_vars => IInv'
  BY NextKeeps
<1> QED
  BY <1>1, InitKeeps, PTL DEF Spec

-----------------------------------------------------------------------------
(* The properties.                                                         *)

\* Types: every slot, flag, counter and quota of the pool stays in its range;
\* failed boots in a row never exceed UNHEALTHY_AFTER.
THEOREM PoolTypeCorrect == Spec => []TypeOK
<1>1. IInv => TypeOK
  BY DEF IInv
<1> QED
  BY <1>1, PoolInvariance, PTL

\* Once a thread drains, its slot reads draining until the next interpreter,
\* whatever events its script, its shutdown or a panic still fires.
THEOREM DrainedStays == Spec => []DrainedStaysDrained
<1>1. IInv => DrainedStaysDrained
  BY DEF IInv, Sound, DrainInv, DrainedStaysDrained
<1> QED
  BY <1>1, PoolInvariance, PTL

\* A slot that reads idle or active, which is what /readyz counts, belongs to a
\* live interpreter that is not spent.
THEOREM ServingAlive == Spec => []ServingIsAlive
<1>1. ASSUME IInv, NEW w \in Workers, Serving(w)
      PROVE  /\ pc[w] \in {"script", "pull", "polling", "waiting", "unit", "ended", "cycle", "exit"}
             /\ ~draining[w]
  <2>1. pc[w] \in PC /\ TypeOK /\ DrainInv(w) /\ PlaceInv(w)
    BY <1>1 DEF IInv, TypeOK, Sound
  <2>2. slot[w] \in {"idle", "active"}
    BY <1>1 DEF Serving
  <2>3. pc[w] # "gone" /\ ~drained[w]
    BY <2>1, <2>2 DEF DrainInv, PlaceInv
  <2>4. ~draining[w]
    BY <2>1, <2>3 DEF DrainInv
  <2>5. pc[w] \notin {"dropped", "decide", "scan", "backoff", "new", "shed", "shedding"}
    BY <1>1, <2>1, <2>3 DEF PlaceInv
  <2> QED
    BY <2>1, <2>3, <2>4, <2>5 DEF PC
<1>2. IInv => ServingIsAlive
  BY <1>1 DEF ServingIsAlive
<1> QED
  BY <1>2, PoolInvariance, PTL

\* The slots of a pool are true of their interpreters, for any number of threads
\* (scoreboard.rs, what /readyz and /metrics read).
THEOREM SlotsTellTheTruth == Spec => []SlotsTell
BY DrainedStays, ServingAlive, PTL DEF SlotsTell

\* No recycle, quota, failed boot or panic costs a running pool a thread: one
\* ends only after the stop, or when its interpreter could not be built.
THEOREM PoolKeeps == Spec => []PoolKeepsItsThreads
<1>1. IInv => PoolKeepsItsThreads
  BY DEF IInv, Sound, ClosedInv, PoolKeepsItsThreads
<1> QED
  BY <1>1, PoolInvariance, PTL

\* max_requests bounds what one interpreter handles, however its units end.
THEOREM QuotaNeverExceeded == Spec => []QuotaHolds
<1>1. IInv => QuotaHolds
  BY DEF IInv, Sound, QuotaInv, QuotaHolds
<1> QED
  BY <1>1, PoolInvariance, PTL

\* A thread whose interpreter is spent is not given a unit.
THEOREM SpentIsLeftAlone == Spec => SpentTakesNothing
<1>1. ASSUME IInv, [Next]_vars, NEW w \in Workers, draining[w], draining'[w], hand'[w], ~hand[w]
      PROVE  FALSE
  <2>1. DrainInv(w) /\ TypeOK
    BY <1>1 DEF IInv, Sound
  <2>2. ASSUME NEW v \in Workers, TakeUnit(v) PROVE FALSE
    <3>1. v = w
      BY <1>1, <2>1, <2>2 DEF TakeUnit, TypeOK
    <3>2. pc[w] = "waiting"
      BY <2>2, <3>1 DEF TakeUnit
    <3> QED
      BY <1>1, <2>1, <3>2 DEF DrainInv
  <2>3. ASSUME NEW v \in Workers, Lifecycle(v) \/ Boot(v) \/ Script(v) PROVE hand'[w] => hand[w]
    <3>1. CASE Lifecycle(v)
      BY <3>1 DEF Lifecycle, Build, DropInterpreter, NextInterpreter, ReadHandled, Scan, Backoff
    <3>2. ASSUME ReclaimCurrent(v) PROVE hand'[w] => hand[w]
      BY <2>1, <3>2 DEF ReclaimCurrent, TypeOK
    <3>3. CASE Boot(v)
      BY <3>2, <3>3 DEF Boot, BeginCycle, ShutdownBails, CycleStops, CycleRecycles, CycleFails,
         EnterShed, ShedUnit, EndShed, Return
    <3>4. CASE Script(v)
      BY <2>1, <3>4 DEF Script, EndScript, FirstCallBails, CallReceive, Settle, TypeOK
    <3> QED
      BY <2>3, <3>1, <3>3, <3>4
  <2>4. ASSUME NEW v \in Workers, Receive(v) PROVE hand'[w] => hand[w]
    BY <2>1, <2>2, <2>4 DEF Receive, Pull, Poll, NoUnit, SeeStop, Finish, Panic, TypeOK
  <2>5. CASE Submit \/ StopStep \/ Finished \/ UNCHANGED vars
    BY <1>1, <2>5 DEF Submit, StopStep, Finished, vars, state
  <2> QED
    BY <1>1, <2>3, <2>4, <2>5 DEF Next, Step
<1>2. IInv /\ [Next]_vars
        => [\A w \in Workers : draining[w] /\ draining'[w] => ~(hand'[w] /\ ~hand[w])]_vars
  BY <1>1
<1> QED
  BY <1>2, PoolInvariance, PTL DEF Spec, SpentTakesNothing

-----------------------------------------------------------------------------
(* Units.                                                                  *)

\* Where a thread may own a unit: its handler runs, or, in dispatcher mode, its
\* script has it and may leave it to the next cycle.
HandInv(w) ==
  /\ pc[w] = "unit" => hand[w]
  /\ hand[w] => pc[w] \in {"unit", "script", "ended", "cycle"}
  /\ hand[w] /\ pc[w] \in {"script", "ended"} => "received" \in seen[w]

UnitInv == \A w \in Workers : HandInv(w)

\* A thread counts the unit it owns, and owns it no more.
LEMMA CountsOwn ==
  ASSUME TypeOK, NEW v \in Workers, CountHandled(v), hand' = [hand EXCEPT ![v] = FALSE]
  PROVE  /\ handled'[v] = handled[v] + 1 /\ ~hand'[v]
         /\ \A w \in Workers \ {v} : hand'[w] = hand[w] /\ handled'[w] = handled[w]
BY DEF TypeOK, CountHandled

\* Reclaiming leaves a thread without a unit.
LEMMA ReclaimCounts ==
  ASSUME TypeOK, NEW v \in Workers, ReclaimCurrent(v)
  PROVE  /\ ~hand'[v] /\ handled'[v] = handled[v] + (IF hand[v] THEN 1 ELSE 0)
         /\ \A w \in Workers \ {v} : hand'[w] = hand[w] /\ handled'[w] = handled[w]
<1>1. CASE hand[v]
  <2>1. CountHandled(v) /\ hand' = [hand EXCEPT ![v] = FALSE]
    BY <1>1 DEF ReclaimCurrent
  <2> QED
    BY <1>1, <2>1, CountsOwn
<1>2. CASE ~hand[v]
  BY <1>2 DEF ReclaimCurrent, TypeOK
<1> QED
  BY <1>1, <1>2

\* What a step of thread v does to the units: the others keep theirs, and what
\* leaves the queue or v's hand is counted or lost.
Accounted(v) ==
  /\ HandInv(v)'
  /\ \A w \in Workers \ {v} :
       hand'[w] = hand[w] /\ handled'[w] = handled[w] /\ pc'[w] = pc[w] /\ seen'[w] = seen[w]
  /\ submitted' = submitted
  /\ backlog' + lost' + (IF hand'[v] THEN 1 ELSE 0) + handled'[v]
       = backlog + lost + (IF hand[v] THEN 1 ELSE 0) + handled[v]

LEMMA LifecycleAccounts ==
  ASSUME TypeOK, NEW v \in Workers, HandInv(v), Lifecycle(v)
  PROVE  Accounted(v)
<1>1. UNCHANGED <<hand, handled, queue, lost>> /\ ~hand[v]
  BY DEF Lifecycle, Build, DropInterpreter, NextInterpreter, ReadHandled, Scan, Backoff, HandInv
<1>2. pc'[v] # "unit" /\ \A w \in Workers \ {v} : pc'[w] = pc[w] /\ seen'[w] = seen[w]
  BY DEF TypeOK, Lifecycle, Build, DropInterpreter, NextInterpreter, ReadHandled, Scan, Backoff
<1> QED
  BY <1>1, <1>2 DEF Accounted, HandInv

\* A worker that returns.
LEMMA ReturnAccounts ==
  ASSUME TypeOK, NEW v \in Workers, NEW reason, Return(v, reason), UNCHANGED <<queue, lost>>
  PROVE  Accounted(v)
<1>1. ReclaimCurrent(v) /\ pc' = [pc EXCEPT ![v] = "exit"] /\ seen' = [seen EXCEPT ![v] = {}]
  BY DEF Return
<1>2. /\ pc'[v] = "exit"
      /\ \A w \in Workers \ {v} : pc'[w] = pc[w] /\ seen'[w] = seen[w]
  BY <1>1 DEF TypeOK
<1>3. handled[v] \in Nat /\ backlog \in Nat /\ lost \in Nat
  BY DEF TypeOK
<1> QED
  BY <1>1, <1>2, <1>3, ReclaimCounts DEF Accounted, HandInv

LEMMA BootAccounts ==
  ASSUME TypeOK, NEW v \in Workers, HandInv(v), Boot(v)
  PROVE  Accounted(v)
<1>0. handled[v] \in Nat /\ backlog \in Nat /\ lost \in Nat
  BY DEF TypeOK
<1>1. CASE BeginCycle(v)
  <2>1. /\ ReclaimCurrent(v) /\ UNCHANGED <<queue, lost>>
        /\ pc'[v] \in {"script", "ended"}
        /\ \A w \in Workers \ {v} : pc'[w] = pc[w] /\ seen'[w] = seen[w]
    BY <1>1 DEF BeginCycle, TypeOK
  <2> QED
    BY <1>0, <2>1, ReclaimCounts DEF Accounted, HandInv
<1>2. CASE \E reason \in {"restart", "closed"} : Return(v, reason) /\ UNCHANGED <<queue, lost>>
  BY <1>2, ReturnAccounts
<1>3. CASE CycleRecycles(v) \/ CycleFails(v)
  <2>1. UNCHANGED <<hand, handled, queue, lost>> /\ pc[v] = "ended"
    BY <1>3 DEF CycleRecycles, CycleFails
  <2>2. /\ pc'[v] \in {"cycle", "shed"}
        /\ \A w \in Workers \ {v} : pc'[w] = pc[w] /\ seen'[w] = seen[w]
    BY <1>3 DEF CycleRecycles, CycleFails, TypeOK
  <2>3. pc'[v] = "shed" => "received" \notin seen[v]
    BY <1>3 DEF CycleRecycles, CycleFails, TypeOK
  <2> QED
    BY <2>1, <2>2, <2>3 DEF Accounted, HandInv
<1>4. CASE /\ pc[v] \in {"shed", "shedding"}
           /\ \E to \in {"cycle", "shedding"} : pc' = [pc EXCEPT ![v] = to]
           /\ UNCHANGED <<seen, hand, handled, queue, lost>>
  BY <1>4 DEF Accounted, HandInv, TypeOK
<1>5. CASE ShedUnit(v)
  <2>1. /\ handled'[v] = handled[v] + 1 /\ backlog' = backlog - 1
        /\ UNCHANGED <<hand, lost, submitted, seen>> /\ pc[v] = "shedding" /\ pc'[v] = "cycle"
        /\ \A w \in Workers \ {v} : pc'[w] = pc[w] /\ handled'[w] = handled[w]
    BY <1>5 DEF ShedUnit, CountShed, TypeOK
  <2> QED
    BY <1>0, <2>1 DEF Accounted, HandInv
<1>6. CASE ShutdownBails(v) \/ CycleStops(v)
  BY <1>2, <1>6 DEF ShutdownBails, CycleStops
<1>7. CASE EnterShed(v) \/ EndShed(v)
  BY <1>2, <1>4, <1>7 DEF EnterShed, EndShed
<1> QED
  BY <1>1, <1>3, <1>5, <1>6, <1>7 DEF Boot

LEMMA ScriptAccounts ==
  ASSUME TypeOK, NEW v \in Workers, HandInv(v), Script(v)
  PROVE  Accounted(v)
<1>0. handled[v] \in Nat /\ backlog \in Nat /\ lost \in Nat
  BY DEF TypeOK
<1>1. CASE EndScript(v) \/ FirstCallBails(v) \/ CallReceive(v)
  <2>1. UNCHANGED <<hand, handled, queue, lost>> /\ pc[v] = "script"
    BY <1>1 DEF EndScript, FirstCallBails, CallReceive
  <2>2. /\ pc'[v] \in {"ended", "pull"} /\ (pc'[v] = "pull" => ~hand[v])
        /\ "received" \in seen[v] => "received" \in seen'[v]
        /\ \A w \in Workers \ {v} : pc'[w] = pc[w] /\ seen'[w] = seen[w]
    BY <1>1 DEF EndScript, FirstCallBails, CallReceive, TypeOK
  <2> QED
    BY <2>1, <2>2 DEF Accounted, HandInv
<1>2. CASE Settle(v)
  <2>1. /\ hand[v] /\ pc[v] # "unit" /\ CountHandled(v) /\ hand' = [hand EXCEPT ![v] = FALSE]
        /\ UNCHANGED <<pc, seen, lost, queue>>
    BY <1>2 DEF Settle
  <2>2. /\ handled'[v] = handled[v] + 1 /\ ~hand'[v]
        /\ \A w \in Workers \ {v} : hand'[w] = hand[w] /\ handled'[w] = handled[w]
    BY <2>1, CountsOwn
  <2> QED
    BY <1>0, <2>1, <2>2 DEF Accounted, HandInv
<1> QED
  BY <1>1, <1>2 DEF Script

LEMMA ReceiveAccounts ==
  ASSUME TypeOK, NEW v \in Workers, HandInv(v), Receive(v)
  PROVE  Accounted(v)
<1>0. handled[v] \in Nat /\ backlog \in Nat /\ lost \in Nat
  BY DEF TypeOK
<1>1. CASE Pull(v) \/ Poll(v) \/ SeeStop(v) \/ NoUnit(v)
  <2>1. UNCHANGED <<hand, handled, queue, lost>> /\ ~hand[v]
    BY <1>1 DEF Pull, Poll, SeeStop, NoUnit, HandInv
  <2>2. pc'[v] # "unit" /\ \A w \in Workers \ {v} : pc'[w] = pc[w] /\ seen'[w] = seen[w]
    BY <1>1 DEF Pull, Poll, SeeStop, NoUnit, Closed, TypeOK
  <2> QED
    BY <2>1, <2>2 DEF Accounted, HandInv
<1>2. CASE TakeUnit(v)
  <2>1. ~hand[v] /\ backlog' = backlog - 1 /\ UNCHANGED <<lost, submitted>>
    BY <1>2 DEF TakeUnit, HandInv
  <2>2. CASE CountShed(v) /\ pc' = [pc EXCEPT ![v] = "pull"] /\ UNCHANGED <<hand, seen>>
    <3>1. /\ handled'[v] = handled[v] + 1 /\ pc'[v] = "pull"
          /\ \A w \in Workers \ {v} : handled'[w] = handled[w] /\ pc'[w] = pc[w]
      BY <2>2 DEF CountShed, TypeOK
    <3> QED
      BY <1>0, <2>1, <2>2, <3>1 DEF Accounted, HandInv
  <2>3. CASE /\ hand' = [hand EXCEPT ![v] = TRUE] /\ UNCHANGED handled
             /\ pc' = [pc EXCEPT ![v] = IF mode = "dispatcher" THEN "script" ELSE "unit"]
             /\ seen' = [seen EXCEPT ![v] = IF mode = "classic" THEN @ ELSE @ \cup {"received"}]
    <3>1. /\ hand'[v] /\ pc'[v] \in {"script", "unit"}
          /\ pc'[v] = "script" => "received" \in seen'[v]
          /\ \A w \in Workers \ {v} :
               hand'[w] = hand[w] /\ pc'[w] = pc[w] /\ seen'[w] = seen[w]
      BY <2>3 DEF TypeOK
    <3> QED
      BY <1>0, <2>1, <2>3, <3>1 DEF Accounted, HandInv
  <2> QED
    BY <1>2, <2>2, <2>3 DEF TakeUnit
<1>3. CASE Finish(v)
  <2>1. /\ hand[v] /\ CountHandled(v) /\ hand' = [hand EXCEPT ![v] = FALSE]
        /\ UNCHANGED <<lost, queue>>
    BY <1>3 DEF Finish, HandInv
  <2>2. pc'[v] # "unit" /\ \A w \in Workers \ {v} : pc'[w] = pc[w] /\ seen'[w] = seen[w]
    BY <1>3 DEF Finish, TypeOK
  <2>3. /\ handled'[v] = handled[v] + 1 /\ ~hand'[v]
        /\ \A w \in Workers \ {v} : hand'[w] = hand[w] /\ handled'[w] = handled[w]
    BY <2>1, CountsOwn
  <2> QED
    BY <1>0, <2>1, <2>2, <2>3 DEF Accounted, HandInv
<1>4. CASE Panic(v)
  <2>1. lost' = lost + 1 /\ UNCHANGED <<handled, submitted, seen>>
    BY <1>4 DEF Panic
  <2>2. pc'[v] \in {"ended", "exit"} /\ \A w \in Workers \ {v} : pc'[w] = pc[w]
    BY <1>4 DEF Panic, TypeOK
  <2>3. CASE pc[v] = "unit" /\ hand' = [hand EXCEPT ![v] = FALSE] /\ UNCHANGED backlog
    <3>1. hand[v] /\ ~hand'[v] /\ \A w \in Workers \ {v} : hand'[w] = hand[w]
      BY <2>3 DEF HandInv, TypeOK
    <3> QED
      BY <1>0, <2>1, <2>2, <2>3, <3>1 DEF Accounted, HandInv
  <2>4. CASE pc[v] = "shedding" /\ backlog' = backlog - 1 /\ UNCHANGED hand
    <3>1. ~hand[v]
      BY <2>4 DEF HandInv
    <3> QED
      BY <1>0, <2>1, <2>2, <2>4, <3>1 DEF Accounted, HandInv
  <2> QED
    BY <1>4, <2>3, <2>4 DEF Panic
<1> QED
  BY <1>1, <1>2, <1>3, <1>4 DEF Receive

\* The hands that hold a unit.
Holding == {w \in Workers : hand[w]}

\* The account is closed over all threads.
LEMMA AccountCloses ==
  ASSUME TypeOK, TypeOK', UnitsCountedOnce, NEW v \in Workers, Accounted(v)
  PROVE  UnitsCountedOnce'
<1>1. /\ IsFiniteSet(Workers)
      /\ \A w \in Workers : handled[w] \in Int /\ handled'[w] \in Int
  <2>1. IsFiniteSet(Workers)
    BY PoolConstants, FS_Interval DEF Workers
  <2> QED
    BY <2>1 DEF TypeOK
<1>2. SumFunctionOnSet(handled', Workers)
        = SumFunctionOnSet(handled, Workers) + (handled'[v] - handled[v])
  BY <1>1, SumChange DEF Accounted
<1>3. SumFunctionOnSet(handled, Workers) \in Int
  BY <1>1, SumInt
<1>4. IsFiniteSet(Holding) /\ Cardinality(Holding) \in Nat
  BY <1>1, FS_Subset, FS_CardinalityType DEF Holding
<1>5. Cardinality(Holding')
        = Cardinality(Holding) + (IF hand'[v] THEN 1 ELSE 0) - (IF hand[v] THEN 1 ELSE 0)
  <2>1. CASE hand'[v]
    <3>1. Holding' = Holding \cup {v} /\ (v \in Holding <=> hand[v])
      BY <2>1 DEF Holding, Accounted
    <3>2. Cardinality(Holding \cup {v})
            = IF v \in Holding THEN Cardinality(Holding) ELSE Cardinality(Holding) + 1
      BY <1>4, FS_AddElement
    <3> QED
      BY <1>4, <2>1, <3>1, <3>2
  <2>2. CASE ~hand'[v]
    <3>1. Holding' = Holding \ {v} /\ (v \in Holding <=> hand[v])
      BY <2>2 DEF Holding, Accounted
    <3>2. Cardinality(Holding \ {v})
            = IF v \in Holding THEN Cardinality(Holding) - 1 ELSE Cardinality(Holding)
      BY <1>4, FS_RemoveElement
    <3> QED
      BY <1>4, <2>2, <3>1, <3>2
  <2> QED
    BY <2>1, <2>2
<1> DEFINE now == IF hand[v] THEN 1 ELSE 0
           then == IF hand'[v] THEN 1 ELSE 0
           held == Cardinality(Holding)
           heldThen == Cardinality(Holding')
           sum == SumFunctionOnSet(handled, Workers)
           sumThen == SumFunctionOnSet(handled', Workers)
<1>6. /\ submitted = backlog + lost + held + sum
      /\ submitted' = submitted
      /\ backlog' + lost' + then + handled'[v] = backlog + lost + now + handled[v]
  BY DEF UnitsCountedOnce, Holding, Accounted
<1>7. /\ backlog \in Nat /\ lost \in Nat /\ backlog' \in Nat /\ lost' \in Nat
      /\ handled[v] \in Nat /\ handled'[v] \in Nat /\ now \in Nat /\ then \in Nat
  BY DEF TypeOK
<1>8. submitted' = backlog' + lost' + heldThen + sumThen
  <2>1. heldThen = held + then - now /\ held \in Nat
    BY <1>4, <1>5
  <2>2. sumThen = sum + (handled'[v] - handled[v]) /\ sum \in Int
    BY <1>2, <1>3
  <2> HIDE DEF now, then, held, heldThen, sum, sumThen
  <2> QED
    BY <1>6, <1>7, <2>1, <2>2
<1> QED
  BY <1>8 DEF UnitsCountedOnce, Holding

\* A unit that was ever queued is in the queue, in one hand, lost to a panic, or
\* counted by one thread, for any number of threads and units, in every mode
\* (start.rs, exchange.rs, quota.rs).
THEOREM UnitsAreCountedOnce == Spec => []UnitsCountedOnce
<1>1. Init => UnitInv /\ UnitsCountedOnce
  <2> SUFFICES ASSUME Init
               PROVE  UnitInv /\ UnitsCountedOnce
    OBVIOUS
  <2>1. IsFiniteSet(Workers) /\ \A w \in Workers : handled[w] = 0 /\ ~hand[w] /\ pc[w] = "new"
    BY PoolConstants, FS_Interval DEF Init, Workers
  <2>2. SumFunctionOnSet(handled, Workers) = 0 /\ Cardinality({w \in Workers : hand[w]}) = 0
    <3>1. {w \in Workers : hand[w]} = {}
      BY <2>1
    <3> QED
      BY <2>1, <3>1, SumOfZeros, FS_EmptySet
  <2> QED
    BY <2>1, <2>2 DEF Init, UnitInv, HandInv, UnitsCountedOnce
<1>2. ASSUME IInv, IInv', UnitInv, UnitsCountedOnce, [Next]_vars
      PROVE  (UnitInv /\ UnitsCountedOnce)'
  <2>1. ASSUME NEW v \in Workers, Lifecycle(v) \/ Boot(v) \/ Script(v) \/ Receive(v)
        PROVE  (UnitInv /\ UnitsCountedOnce)'
    <3>1. TypeOK /\ TypeOK' /\ HandInv(v)
      BY <1>2 DEF IInv, UnitInv
    <3>2. Accounted(v)
      BY <2>1, <3>1, LifecycleAccounts, BootAccounts, ScriptAccounts, ReceiveAccounts
    <3>3. UnitInv'
      BY <1>2, <3>2 DEF UnitInv, HandInv, Accounted
    <3> QED
      BY <1>2, <3>1, <3>2, <3>3, AccountCloses
  <2>2. CASE Submit
    <3>1. UNCHANGED <<pc, seen, hand, handled, lost>> /\ submitted' = submitted + 1
          /\ backlog' = backlog + 1
      BY <2>2 DEF Submit
    <3>2. SumFunctionOnSet(handled, Workers) \in Int /\ Cardinality({w \in Workers : hand[w]}) \in Nat
      <4>1. IsFiniteSet(Workers) /\ \A w \in Workers : handled[w] \in Int
        BY <1>2, PoolConstants, FS_Interval DEF IInv, TypeOK, Workers
      <4> QED
        BY <4>1, SumInt, FS_Subset, FS_CardinalityType
    <3>3. backlog \in Nat /\ lost \in Nat
      BY <1>2 DEF IInv, TypeOK
    <3> QED
      BY <1>2, <3>1, <3>2, <3>3 DEF UnitInv, HandInv, UnitsCountedOnce
  <2>3. CASE StopStep \/ Finished \/ UNCHANGED vars
    <3>1. UNCHANGED <<pc, seen, hand, handled, lost, submitted, backlog>>
      BY <2>3 DEF StopStep, Finished, vars, state
    <3> QED
      BY <1>2, <3>1 DEF UnitInv, HandInv, UnitsCountedOnce
  <2> QED
    BY <1>2, <2>1, <2>2, <2>3 DEF Next, Step
<1> QED
  BY <1>1, <1>2, PoolInvariance, PTL DEF Spec

-----------------------------------------------------------------------------
(* A pool is blamed for its boots only before it has handled a unit.       *)

HealthInv == worked => job_handled

\* A step that takes no unit out of a hand, or that counts one as handled.
LEMMA HealthStays ==
  ASSUME HealthInv, Remember,
         \/ UNCHANGED <<hand, job_handled>>
         \/ job_handled'
         \/ lost' # lost /\ UNCHANGED job_handled
  PROVE  HealthInv'
BY DEF HealthInv, Remember, LetsGo

\* A unit that a thread is done with is one that its pool has handled.
LEMMA HealthKept ==
  ASSUME IInv, HealthInv, [Next]_vars
  PROVE  HealthInv'
<1>0. TypeOK
  BY DEF IInv
<1>1. CASE UNCHANGED vars
  BY <1>1 DEF vars, HealthInv, state
<1>2. ASSUME Next PROVE HealthInv'
  <2>1. ASSUME NEW v \in Workers, ReclaimCurrent(v)
        PROVE  UNCHANGED <<hand, job_handled>> \/ job_handled'
    BY <2>1 DEF ReclaimCurrent, CountHandled
  <2>2. ASSUME NEW v \in Workers, Lifecycle(v) PROVE UNCHANGED <<hand, job_handled>>
    BY <2>2 DEF Lifecycle, Build, DropInterpreter, NextInterpreter, ReadHandled, Scan, Backoff
  <2>3. ASSUME NEW v \in Workers, Boot(v)
        PROVE  UNCHANGED <<hand, job_handled>> \/ job_handled'
    BY <2>1, <2>3
    DEF Boot, BeginCycle, ShutdownBails, CycleStops, CycleRecycles, CycleFails, EnterShed, ShedUnit,
        EndShed, Return
  <2>4. ASSUME NEW v \in Workers, Script(v)
        PROVE  UNCHANGED <<hand, job_handled>> \/ job_handled'
    BY <2>4 DEF Script, EndScript, FirstCallBails, CallReceive, Settle, CountHandled
  <2>5. ASSUME NEW v \in Workers, Finish(v) PROVE job_handled'
    BY <2>5 DEF Finish, CountHandled
  <2>6. ASSUME NEW v \in Workers, Panic(v) PROVE lost' # lost /\ UNCHANGED job_handled
    BY <1>0, <2>6 DEF Panic, TypeOK
  <2>7. ASSUME NEW v \in Workers, TakeUnit(v) PROVE HealthInv'
    <3>1. UNCHANGED job_handled /\ \A w \in Workers : hand[w] => hand'[w]
      BY <1>0, <2>7 DEF TakeUnit, TypeOK
    <3> QED
      BY <1>2, <3>1 DEF Next, Remember, LetsGo, HealthInv
  <2>8. ASSUME NEW v \in Workers, Pull(v) \/ Poll(v) \/ NoUnit(v) \/ SeeStop(v)
        PROVE  UNCHANGED <<hand, job_handled>>
    BY <2>8 DEF Pull, Poll, NoUnit, SeeStop
  <2>9. ASSUME Submit \/ StopStep \/ Finished PROVE UNCHANGED <<hand, job_handled>>
    BY <2>9 DEF Submit, StopStep, Finished, state
  <2>10. ASSUME NEW v \in Workers, Receive(v) PROVE HealthInv'
    BY <1>2, <2>5, <2>6, <2>7, <2>8, <2>10, HealthStays DEF Receive, Next
  <2>11. CASE \E v \in Workers : Lifecycle(v) \/ Boot(v) \/ Script(v)
    BY <1>2, <2>2, <2>3, <2>4, <2>11, HealthStays DEF Next
  <2>12. CASE Submit \/ StopStep \/ Finished
    BY <1>2, <2>9, <2>12, HealthStays DEF Next
  <2> QED
    BY <1>2, <2>10, <2>11, <2>12 DEF Next, Step
<1> QED
  BY <1>1, <1>2

\* A pool of which an interpreter, living or recycled, ever handled or reclaimed
\* a unit does not go on to suspect that it cannot boot, for any number of
\* threads and any quota, none included (start.rs, worker_main).
THEOREM WorkingPoolKeepsItsName == Spec => WorkingPoolIsNotBlamed
<1>1. Init => HealthInv
  BY DEF Init, HealthInv
<1>2. ASSUME IInv, HealthInv, [Next]_vars, NEW w \in Workers, pc[w] = "decide", pc'[w] = "scan"
      PROVE  ~worked
  <2>1. TypeOK
    BY <1>2 DEF IInv
  <2>2. ASSUME NEW v \in Workers, Lifecycle(v) PROVE ~job_handled
    BY <1>2, <2>1, <2>2
    DEF Lifecycle, Build, DropInterpreter, NextInterpreter, ReadHandled, Scan, Backoff, TypeOK
  <2>3. ASSUME NEW v \in Workers, Boot(v) \/ Script(v) PROVE FALSE
    BY <1>2, <2>1, <2>3
    DEF Boot, BeginCycle, ShutdownBails, CycleStops, CycleRecycles, CycleFails, EnterShed,
        ShedUnit, EndShed, Return, Script, EndScript, FirstCallBails, CallReceive, Settle, TypeOK
  <2>4. ASSUME NEW v \in Workers, Receive(v) PROVE FALSE
    BY <1>2, <2>1, <2>4
    DEF Receive, Pull, Poll, TakeUnit, NoUnit, SeeStop, Finish, Panic, Closed, TypeOK
  <2>5. ASSUME Submit \/ StopStep \/ Finished \/ UNCHANGED vars PROVE FALSE
    BY <1>2, <2>5 DEF Submit, StopStep, Finished, vars, state
  <2>6. ~job_handled
    BY <1>2, <2>2, <2>3, <2>4, <2>5 DEF Next, Step
  <2> QED
    BY <1>2, <2>6 DEF HealthInv
<1>3. IInv /\ HealthInv /\ [Next]_vars
        => [\A w \in Workers : At(w, "decide") /\ At(w, "scan")' => ~worked]_vars
  BY <1>2
<1> QED
  BY <1>1, <1>3, HealthKept, PoolInvariance, PTL DEF Spec, WorkingPoolIsNotBlamed
=============================================================================
