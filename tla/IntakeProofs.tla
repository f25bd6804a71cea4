---------------------------- MODULE IntakeProofs ----------------------------
(***************************************************************************)
(* Proofs about Intake, for every set of requests and threads and every    *)
(* capacity: permits and bytes are conserved, the gauge and the two        *)
(* counters are exact, and the intake implements the bounded first-in      *)
(* first-out queue.                                                        *)
(*                                                                         *)
(* The invariant IInv adds to the properties who owns what: the entries of *)
(* the channel are distinct requests in phase "queued", the hands of the   *)
(* threads hold distinct dequeued requests, and a request has a verdict    *)
(* and a full-queue mark only once submit() has given them.                *)
(***************************************************************************)
EXTENDS Intake, FiniteSetTheorems, SumTheorems, TLAPS

\* The entries of the channel are distinct queued requests.
QueueOwned ==
  /\ \A i \in 1 .. Len(queue) : phase[queue[i]] = "queued"
  /\ \A i, j \in 1 .. Len(queue) : queue[i] = queue[j] => i = j

\* A thread between the dequeue and the end of recv() holds one request of
\* its own, in the phase its step says; no other thread holds anything.
HandOwned ==
  /\ \A w \in Workers :
       /\ wstate[w] = "counting" => hand[w] \in Requests /\ phase[hand[w]] = "taken"
       /\ wstate[w] = "releasing" => hand[w] \in Requests /\ phase[hand[w]] = "uncounted"
       /\ wstate[w] \notin {"counting", "releasing"} => hand[w] = NoUnit
  /\ \A v, w \in Workers : hand[v] = hand[w] /\ hand[v] # NoUnit => v = w

\* Every dequeued request is in the hand of a thread.
TakenInHand ==
  \A r \in InPhase({"taken", "uncounted"}) : \E w \in Workers : hand[w] = r

\* A request gets its verdict when it is refused, and its full-queue mark not
\* before it asks for a slot.
MarksInOrder ==
  \A r \in Requests :
    /\ phase[r] \notin {"dropping", "refused"} => verdict[r] = "none"
    /\ phase[r] \in {"new", "buffering", "armed"} => ~found_full[r]

IInv ==
  /\ Typed
  /\ SlotsConserved
  /\ PendingExact
  /\ ShedExact
  /\ FullQueueExact
  /\ QueueOwned
  /\ HandOwned
  /\ TakenInHand
  /\ MarksInOrder

-----------------------------------------------------------------------------
(* Counting requests by phase.                                             *)

Values == Phase \cup Verdict

Size(f, S) == Cardinality({x \in Requests : f[x] \in S})

\* When one request changes its value, the count of a set of values moves by
\* one if the request enters the set, and by one if it leaves.
LEMMA SizeMove ==
  ASSUME NEW f \in [Requests -> Values], NEW g \in [Requests -> Values],
         NEW r \in Requests, NEW S,
         \A x \in Requests \ {r} : g[x] = f[x]
  PROVE  /\ Size(f, S) \in Nat
         /\ Size(g, S) \in Nat
         /\ Size(g, S)
              = Size(f, S) + (IF g[r] \in S THEN 1 ELSE 0) - (IF f[r] \in S THEN 1 ELSE 0)
<1> DEFINE old == {x \in Requests : f[x] \in S}
           new == {x \in Requests : g[x] \in S}
<1>1. /\ IsFiniteSet(old) /\ Cardinality(old) \in Nat
      /\ IsFiniteSet(new) /\ Cardinality(new) \in Nat
  BY IntakeConstants, FS_Subset, FS_CardinalityType
<1>2. Size(f, S) = Cardinality(old) /\ Size(g, S) = Cardinality(new)
  BY DEF Size
<1>3. r \in old <=> f[r] \in S
  OBVIOUS
<1>4. CASE g[r] \in S
  <2>1. new = old \cup {r}
    BY <1>4
  <2>2. Cardinality(old \cup {r}) = IF r \in old THEN Cardinality(old) ELSE Cardinality(old) + 1
    BY <1>1, FS_AddElement
  <2> HIDE DEF old, new
  <2> QED
    BY <1>1, <1>2, <1>3, <1>4, <2>1, <2>2
<1>5. CASE g[r] \notin S
  <2>1. new = old \ {r}
    BY <1>5
  <2>2. Cardinality(old \ {r}) = IF r \in old THEN Cardinality(old) - 1 ELSE Cardinality(old)
    BY <1>1, FS_RemoveElement
  <2> HIDE DEF old, new
  <2> QED
    BY <1>1, <1>2, <1>3, <1>5, <2>1, <2>2
<1> QED
  BY <1>4, <1>5

ShedVerdicts == {"OverBudget", "Saturated"}
FullRefused  == {r \in InPhase({"refused"}) : found_full[r]}

\* The counts of the invariant, by the value that is counted.
LEMMA CountsBySize ==
  /\ SlotsConserved <=> slots + Size(phase, OwnerPhases) = Slots
  /\ SlotsConserved' <=> slots' + Size(phase', OwnerPhases) = Slots
  /\ PendingExact <=> pending = Size(phase, CountedPhases)
  /\ PendingExact' <=> pending' = Size(phase', CountedPhases)
  /\ ShedExact <=> shed = Size(verdict, ShedVerdicts)
  /\ ShedExact' <=> shed' = Size(verdict', ShedVerdicts)
  /\ FullQueueExact <=> failed_on_full_queue = Cardinality(FullRefused)
  /\ FullQueueExact' <=> failed_on_full_queue' = Cardinality(FullRefused')
  BY DEF SlotsConserved, PendingExact, ShedExact, FullQueueExact, SlotOwners,
         Counted, InPhase, Size, ShedVerdicts, FullRefused

\* A count of requests is a number.
LEMMA SizeNat ==
  ASSUME NEW f, NEW S
  PROVE  Size(f, S) \in Nat
  BY IntakeConstants, FS_Subset, FS_CardinalityType DEF Size

\* Phases and verdicts can be counted.
LEMMA IntoValues ==
  /\ \A f \in [Requests -> Phase] : f \in [Requests -> Values]
  /\ \A f \in [Requests -> Verdict] : f \in [Requests -> Values]
  BY DEF Values

\* A slot permit that r drops goes to one waiter or back to the semaphore:
\* either way the permits are conserved and no other request moves.
LEMMA DropSlotMoves ==
  ASSUME Typed, NEW r \in Requests, NEW p \in Phase,
         phase[r] \in OwnerPhases, p \notin OwnerPhases, p # "waiting",
         DropSlot([phase EXCEPT ![r] = p])
  PROVE  /\ phase' \in [Requests -> Phase]
         /\ phase'[r] = p
         /\ \A x \in Requests \ {r} :
              phase'[x] = phase[x] \/ (phase[x] = "waiting" /\ phase'[x] = "granted")
         /\ slots' \in Nat
         /\ slots' + Size(phase', OwnerPhases) = slots + Size(phase, OwnerPhases)
         /\ Size(phase', CountedPhases) = Size([phase EXCEPT ![r] = p], CountedPhases)
<1> DEFINE next == [phase EXCEPT ![r] = p]
<1>1. /\ phase \in [Requests -> Phase] /\ next \in [Requests -> Phase]
      /\ phase \in [Requests -> Values] /\ next \in [Requests -> Values]
      /\ next[r] = p /\ \A x \in Requests \ {r} : next[x] = phase[x]
  BY IntoValues DEF Typed
<1> HIDE DEF next
<1>2. /\ Size(phase, OwnerPhases) \in Nat
      /\ Size(next, OwnerPhases) = Size(phase, OwnerPhases) - 1
  <2>1. /\ Size(phase, OwnerPhases) \in Nat
        /\ Size(next, OwnerPhases) \in Nat
        /\ Size(next, OwnerPhases)
              = Size(phase, OwnerPhases) + (IF next[r] \in OwnerPhases THEN 1 ELSE 0)
                                         - (IF phase[r] \in OwnerPhases THEN 1 ELSE 0)
    BY <1>1, SizeMove
  <2> QED
    BY <1>1, <2>1
<1>3. CASE /\ ~SlotsClosed
           /\ \E h \in InPhase({"waiting"}) : phase' = [next EXCEPT ![h] = "granted"]
           /\ slots' = slots
  <2>1. PICK h \in InPhase({"waiting"}) : phase' = [next EXCEPT ![h] = "granted"]
    BY <1>3
  <2>2. h \in Requests /\ h # r /\ phase[h] = "waiting" /\ next[h] = "waiting"
    BY <1>1, <2>1 DEF InPhase, OwnerPhases
  <2>3. /\ phase' \in [Requests -> Phase] /\ phase' \in [Requests -> Values] /\ phase'[h] = "granted"
        /\ \A x \in Requests \ {h} : phase'[x] = next[x]
    BY <1>1, <2>1, <2>2, IntoValues DEF Phase
  <2>4. Size(phase', OwnerPhases) = Size(next, OwnerPhases) + 1
    <3>1. /\ Size(next, OwnerPhases) \in Nat
          /\ Size(phase', OwnerPhases)
              = Size(next, OwnerPhases) + (IF phase'[h] \in OwnerPhases THEN 1 ELSE 0)
                                        - (IF next[h] \in OwnerPhases THEN 1 ELSE 0)
      BY <1>1, <2>2, <2>3, SizeMove
    <3> QED
      BY <2>2, <2>3, <3>1 DEF OwnerPhases
  <2>5. Size(phase', CountedPhases) = Size(next, CountedPhases)
    <3>1. /\ Size(next, CountedPhases) \in Nat
          /\ Size(phase', CountedPhases)
              = Size(next, CountedPhases) + (IF phase'[h] \in CountedPhases THEN 1 ELSE 0)
                                          - (IF next[h] \in CountedPhases THEN 1 ELSE 0)
      BY <1>1, <2>2, <2>3, SizeMove
    <3> QED
      BY <2>2, <2>3, <3>1 DEF CountedPhases
  <2>6. \A x \in Requests \ {r} :
          phase'[x] = phase[x] \/ (phase[x] = "waiting" /\ phase'[x] = "granted")
    BY <1>1, <2>2, <2>3
  <2>7. phase'[r] = p
    BY <1>1, <2>2, <2>3
  <2> QED
    BY <1>2, <1>3, <2>3, <2>4, <2>5, <2>6, <2>7 DEF Typed, next
<1>4. CASE phase' = next /\ slots' = slots + 1
  BY <1>1, <1>2, <1>4 DEF Typed, next
<1> QED
  BY <1>3, <1>4 DEF DropSlot, next
-----------------------------------------------------------------------------
(* What most steps leave alone.                                            *)

Inside == {"queued", "taken", "uncounted"}

\* A step that moves no request into or out of the channel or a hand.
LEMMA OwnersKept ==
  ASSUME IInv, phase' \in [Requests -> Phase],
         queue' = queue, wstate' = wstate, hand' = hand,
         \A x \in Requests :
           phase[x] \in Inside \/ phase'[x] \in Inside => phase'[x] = phase[x]
  PROVE  QueueOwned' /\ HandOwned' /\ TakenInHand'
<1>1. QueueOwned'
  <2>1. \A i \in 1 .. Len(queue) : queue[i] \in Requests
    BY DEF IInv, Typed
  <2> QED
    BY <2>1 DEF IInv, QueueOwned, Inside
<1>2. HandOwned'
  BY DEF IInv, HandOwned, Inside
<1>3. TakenInHand'
  BY DEF IInv, TakenInHand, InPhase, Inside
<1> QED
  BY <1>1, <1>2, <1>3

\* Refusing one request changes the shed count by its verdict.
LEMMA ShedMove ==
  ASSUME IInv, NEW r \in Requests, verdict[r] = "none",
         verdict' \in [Requests -> Verdict],
         \A x \in Requests \ {r} : verdict'[x] = verdict[x],
         shed' = shed + (IF verdict'[r] \in ShedVerdicts THEN 1 ELSE 0)
  PROVE  ShedExact'
<1>1. verdict \in [Requests -> Values] /\ verdict' \in [Requests -> Values]
  BY IntoValues DEF IInv, Typed
<1>2. /\ Size(verdict, ShedVerdicts) \in Nat
      /\ Size(verdict', ShedVerdicts)
           = Size(verdict, ShedVerdicts) + (IF verdict'[r] \in ShedVerdicts THEN 1 ELSE 0)
                                         - (IF verdict[r] \in ShedVerdicts THEN 1 ELSE 0)
  BY <1>1, SizeMove
<1>3. verdict[r] \notin ShedVerdicts
  BY DEF ShedVerdicts
<1> QED
  BY <1>1, <1>2, <1>3, CountsBySize DEF IInv

\* One request changes phase: the counts of slot owners and of counted
\* requests follow.
LEMMA PhaseMove ==
  ASSUME IInv, NEW r \in Requests, phase' \in [Requests -> Phase],
         \A x \in Requests \ {r} : phase'[x] = phase[x]
  PROVE  /\ Size(phase, OwnerPhases) \in Nat /\ Size(phase', OwnerPhases) \in Nat
         /\ Size(phase', OwnerPhases)
              = Size(phase, OwnerPhases) + (IF phase'[r] \in OwnerPhases THEN 1 ELSE 0)
                                         - (IF phase[r] \in OwnerPhases THEN 1 ELSE 0)
         /\ Size(phase, CountedPhases) \in Nat
         /\ Size(phase', CountedPhases)
              = Size(phase, CountedPhases) + (IF phase'[r] \in CountedPhases THEN 1 ELSE 0)
                                           - (IF phase[r] \in CountedPhases THEN 1 ELSE 0)
<1>1. phase \in [Requests -> Values] /\ phase' \in [Requests -> Values]
  BY IntoValues DEF IInv, Typed
<1> QED
  BY <1>1, SizeMove

-----------------------------------------------------------------------------
(* A step about one request r: what each action has to establish.          *)

\* The types after the step, without the capacity of the slots.
TypedStep ==
  /\ phase' \in [Requests -> Phase]
  /\ verdict' \in [Requests -> Verdict]
  /\ held' \in [Requests -> 0 .. Budget]
  /\ found_full' \in [Requests -> BOOLEAN]
  /\ budget' \in Nat /\ slots' \in Nat
  /\ queue' \in Seq(Requests)
  /\ wstate' \in [Workers -> WState]
  /\ hand' \in [Workers -> Requests \cup {NoUnit}]
  /\ late' \in [Workers -> Nat]
  /\ pending' \in Int /\ shed' \in Nat /\ failed_on_full_queue' \in Nat
  /\ stop' \in 0 .. 4

\* Requests other than r keep their marks, and move at most to "granted".
OthersKept(r) ==
  \A x \in Requests \ {r} :
    /\ verdict'[x] = verdict[x] /\ found_full'[x] = found_full[x]
    /\ phase'[x] = phase[x] \/ (phase[x] = "waiting" /\ phase'[x] = "granted")

\* The permits and the gauge follow the phases.
CountsFollow ==
  /\ slots' + Size(phase', OwnerPhases) = slots + Size(phase, OwnerPhases)
  /\ pending' + Size(phase, CountedPhases) = pending + Size(phase', CountedPhases)

\* r's verdict is given once, with its count, and its marks come in order.
MarksFollow(r) ==
  /\ \/ verdict'[r] = verdict[r] /\ shed' = shed
     \/ /\ verdict[r] = "none"
        /\ shed' = shed + (IF verdict'[r] \in ShedVerdicts THEN 1 ELSE 0)
  /\ phase'[r] \notin {"dropping", "refused"} => verdict'[r] = "none"
  /\ phase'[r] \in {"new", "buffering", "armed"} => ~found_full'[r]

\* The full-queue counter follows r.
FullFollows(r) ==
  \/ /\ phase[r] # "refused" /\ phase'[r] = "refused" /\ found_full'[r]
     /\ failed_on_full_queue' = failed_on_full_queue + 1
  \/ /\ phase[r] # "refused" /\ (phase'[r] # "refused" \/ ~found_full'[r])
     /\ failed_on_full_queue' = failed_on_full_queue

\* A step about one request that keeps who owns what keeps the invariant.
LEMMA StepKeepsIInv ==
  ASSUME IInv, NEW r \in Requests, TypedStep, OthersKept(r), CountsFollow,
         MarksFollow(r), FullFollows(r), QueueOwned', HandOwned', TakenInHand'
  PROVE  IInv'
<1>1. SlotsConserved' /\ PendingExact'
  <2>1. /\ Size(phase, OwnerPhases) \in Nat /\ Size(phase', OwnerPhases) \in Nat
        /\ Size(phase, CountedPhases) \in Nat /\ Size(phase', CountedPhases) \in Nat
    BY SizeNat
  <2>2. slots \in Nat /\ slots' \in Nat /\ pending \in Int /\ pending' \in Int
    BY DEF IInv, Typed, TypedStep
  <2>3. /\ slots + Size(phase, OwnerPhases) = Slots
        /\ pending = Size(phase, CountedPhases)
    BY CountsBySize DEF IInv
  <2>4. /\ slots' + Size(phase', OwnerPhases) = Slots
        /\ pending' = Size(phase', CountedPhases)
    <3>1. /\ slots' + Size(phase', OwnerPhases) = slots + Size(phase, OwnerPhases)
          /\ pending' + Size(phase, CountedPhases) = pending + Size(phase', CountedPhases)
      BY DEF CountsFollow
    <3> QED
      BY ONLY <2>1, <2>2, <2>3, <3>1
  <2> QED
    BY <2>4, CountsBySize
<1>2. Typed'
  <2>1. slots' <= Slots
    BY <1>1, SizeNat, CountsBySize, IntakeConstants DEF TypedStep
  <2> QED
    BY <2>1, IntakeConstants DEF Typed, TypedStep
<1>3. ShedExact'
  <2>1. CASE verdict'[r] = verdict[r] /\ shed' = shed
    <3>1. verdict' = verdict
      BY <2>1 DEF IInv, Typed, TypedStep, OthersKept
    <3> QED
      BY <2>1, <3>1 DEF IInv, ShedExact
  <2>2. CASE /\ verdict[r] = "none"
             /\ shed' = shed + (IF verdict'[r] \in ShedVerdicts THEN 1 ELSE 0)
    BY <2>2, ShedMove DEF TypedStep, OthersKept
  <2> QED
    BY <2>1, <2>2 DEF MarksFollow
<1>4. FullQueueExact'
  <2>1. \A x \in Requests \ {r} : x \in FullRefused' <=> x \in FullRefused
    BY DEF FullRefused, InPhase, OthersKept
  <2>2. r \notin FullRefused
    BY DEF FullRefused, InPhase, FullFollows
  <2>3. FullRefused \subseteq Requests /\ FullRefused' \subseteq Requests
    BY DEF FullRefused, InPhase
  <2>4. IsFiniteSet(FullRefused) /\ Cardinality(FullRefused) \in Nat
    BY <2>3, IntakeConstants, FS_Subset, FS_CardinalityType
  <2>5. CASE /\ phase'[r] = "refused" /\ found_full'[r]
             /\ failed_on_full_queue' = failed_on_full_queue + 1
    <3>1. r \in FullRefused'
      BY <2>5 DEF FullRefused, InPhase
    <3>2. FullRefused' = FullRefused \cup {r}
      BY <2>1, <2>3, <3>1
    <3>3. Cardinality(FullRefused \cup {r}) = Cardinality(FullRefused) + 1
      BY <2>2, <2>4, FS_AddElement
    <3> QED
      BY <2>4, <2>5, <3>2, <3>3, CountsBySize DEF IInv
  <2>6. CASE /\ phase'[r] # "refused" \/ ~found_full'[r]
             /\ failed_on_full_queue' = failed_on_full_queue
    <3>1. r \notin FullRefused'
      BY <2>6 DEF FullRefused, InPhase
    <3>2. FullRefused' = FullRefused
      BY <2>1, <2>2, <2>3, <3>1
    <3> QED
      BY <2>6, <3>2, CountsBySize DEF IInv
  <2> QED
    BY <2>5, <2>6 DEF FullFollows
<1>5. MarksInOrder'
  BY DEF IInv, MarksInOrder, OthersKept, MarksFollow
<1> QED
  BY <1>1, <1>2, <1>3, <1>4, <1>5 DEF IInv

\* The free slots and the gauge move with r.
PermitsFollow(r) ==
  /\ slots' = slots + (IF phase[r] \in OwnerPhases THEN 1 ELSE 0)
                   - (IF phase'[r] \in OwnerPhases THEN 1 ELSE 0)
  /\ pending' = pending + (IF phase'[r] \in CountedPhases THEN 1 ELSE 0)
                       - (IF phase[r] \in CountedPhases THEN 1 ELSE 0)

\* The same for a step of submit() itself: nothing moves in the channel or the
\* hands, and the permits and the gauge move with r.
LEMMA SubmitStepKeepsIInv ==
  ASSUME IInv, NEW r \in Requests, TypedStep, OthersKept(r),
         \A x \in Requests \ {r} : phase'[x] = phase[x],
         queue' = queue, wstate' = wstate, hand' = hand,
         phase[r] \notin Inside, phase'[r] \notin Inside,
         PermitsFollow(r),
         MarksFollow(r), FullFollows(r)
  PROVE  IInv'
<1>1. phase' \in [Requests -> Phase]
  BY DEF TypedStep
<1>2. QueueOwned' /\ HandOwned' /\ TakenInHand'
  BY <1>1, OwnersKept
<1>3. CountsFollow
  <2>1. slots \in Nat /\ slots' \in Nat /\ pending \in Int /\ pending' \in Int
    BY DEF IInv, Typed, TypedStep
  <2>2. PICK so, so2, sc, sc2 \in Int :
          /\ so = Size(phase, OwnerPhases) /\ so2 = Size(phase', OwnerPhases)
          /\ sc = Size(phase, CountedPhases) /\ sc2 = Size(phase', CountedPhases)
    BY SizeNat
  <2>3. /\ so2 = so + (IF phase'[r] \in OwnerPhases THEN 1 ELSE 0)
                    - (IF phase[r] \in OwnerPhases THEN 1 ELSE 0)
        /\ sc2 = sc + (IF phase'[r] \in CountedPhases THEN 1 ELSE 0)
                    - (IF phase[r] \in CountedPhases THEN 1 ELSE 0)
    BY <1>1, <2>2, PhaseMove
  <2>4. slots' + so2 = slots + so
    BY <2>1, <2>3 DEF PermitsFollow
  <2>5. pending' + sc = pending + sc2
    BY <2>1, <2>3 DEF PermitsFollow
  <2> QED
    BY <2>2, <2>4, <2>5 DEF CountsFollow
<1> QED
  BY <1>2, <1>3, StepKeepsIInv

-----------------------------------------------------------------------------
(* The actions.                                                            *)

\* Dropping the body permit, alone or with a refusal.
LEMMA DropBytesTyped ==
  ASSUME IInv, NEW r \in Requests, DropBytes(r)
  PROVE  budget' \in Nat /\ held' \in [Requests -> 0 .. Budget]
<1>1. held[r] \in Nat /\ 0 \in 0 .. Budget
  BY IntakeConstants DEF IInv, Typed
<1> QED
  BY <1>1 DEF IInv, Typed, DropBytes

LEMMA RefusalMoves ==
  ASSUME IInv, NEW r \in Requests, NEW p \in Phase, NEW why \in Verdict,
         phase' = [phase EXCEPT ![r] = p],
         verdict' = [verdict EXCEPT ![r] = why]
  PROVE  /\ phase' \in [Requests -> Phase] /\ phase'[r] = p
         /\ verdict' \in [Requests -> Verdict] /\ verdict'[r] = why
         /\ \A x \in Requests \ {r} : phase'[x] = phase[x] /\ verdict'[x] = verdict[x]
  BY DEF IInv, Typed

\* The types of the counters and of r's marks, for the steps below.
LEMMA Numbers ==
  ASSUME IInv
  PROVE  /\ slots \in Nat /\ budget \in Nat /\ pending \in Int
         /\ shed \in Nat /\ failed_on_full_queue \in Nat
  BY DEF IInv, Typed


\* What a step of submit() about r never touches.
Apart == <<queue, wstate, hand, late, stop>>

\* A request whose body is being read is refused and gives its bytes back.
LEMMA BodyRefusalStep ==
  ASSUME IInv, NEW r \in Requests, NEW why \in Verdict,
         phase[r] \in {"new", "buffering"}, RefuseBody(r, why),
         shed' = shed + (IF why \in ShedVerdicts THEN 1 ELSE 0),
         UNCHANGED <<found_full, slots, pending, failed_on_full_queue>>,
         UNCHANGED Apart
  PROVE  IInv'
<1>1. /\ found_full' = found_full /\ slots' = slots /\ pending' = pending
      /\ failed_on_full_queue' = failed_on_full_queue
      /\ queue' = queue /\ wstate' = wstate /\ hand' = hand /\ late' = late /\ stop' = stop
      /\ verdict[r] = "none" /\ ~found_full[r]
  BY DEF Apart, IInv, MarksInOrder
<1>2. /\ phase' \in [Requests -> Phase] /\ phase'[r] = "refused"
      /\ verdict' \in [Requests -> Verdict] /\ verdict'[r] = why
      /\ \A x \in Requests \ {r} : phase'[x] = phase[x] /\ verdict'[x] = verdict[x]
  BY RefusalMoves DEF RefuseBody, Phase
<1>3. budget' \in Nat /\ held' \in [Requests -> 0 .. Budget]
  BY DropBytesTyped DEF RefuseBody
<1>4. shed' \in Nat
  BY Numbers
<1>5. TypedStep /\ OthersKept(r)
  BY <1>1, <1>2, <1>3, <1>4 DEF TypedStep, OthersKept, IInv, Typed
<1>6. MarksFollow(r) /\ FullFollows(r)
  BY <1>1, <1>2 DEF MarksFollow, FullFollows
<1>7. PermitsFollow(r)
  BY <1>1, <1>2, Numbers DEF PermitsFollow, OwnerPhases, CountedPhases
<1> QED
  BY <1>1, <1>2, <1>5, <1>6, <1>7, SubmitStepKeepsIInv DEF Inside

\* A submission with no slot is refused; its guard stays armed.
LEMMA RefuseStep ==
  ASSUME IInv, NEW r \in Requests, NEW why \in Verdict,
         phase[r] \in {"armed", "waiting"}, Refuse(r, why),
         shed' = shed + (IF why \in ShedVerdicts THEN 1 ELSE 0),
         UNCHANGED <<held, budget, found_full, slots, pending, failed_on_full_queue>>,
         UNCHANGED Apart
  PROVE  IInv'
<1>1. /\ found_full' = found_full /\ slots' = slots /\ pending' = pending
      /\ held' = held /\ budget' = budget
      /\ failed_on_full_queue' = failed_on_full_queue
      /\ queue' = queue /\ wstate' = wstate /\ hand' = hand /\ late' = late /\ stop' = stop
      /\ verdict[r] = "none"
  BY DEF Apart, IInv, MarksInOrder
<1>2. /\ phase' \in [Requests -> Phase] /\ phase'[r] = "dropping"
      /\ verdict' \in [Requests -> Verdict] /\ verdict'[r] = why
      /\ \A x \in Requests \ {r} : phase'[x] = phase[x] /\ verdict'[x] = verdict[x]
  BY RefusalMoves DEF Refuse, Phase
<1>3. shed' \in Nat
  BY Numbers
<1>4. TypedStep /\ OthersKept(r)
  BY <1>1, <1>2, <1>3 DEF TypedStep, OthersKept, IInv, Typed
<1>5. MarksFollow(r) /\ FullFollows(r)
  BY <1>1, <1>2 DEF MarksFollow, FullFollows
<1>6. PermitsFollow(r)
  BY <1>1, <1>2, Numbers DEF PermitsFollow, OwnerPhases, CountedPhases
<1> QED
  BY <1>1, <1>2, <1>4, <1>5, <1>6, SubmitStepKeepsIInv DEF Inside

\* A submission moves on, with no verdict and no count.
LEMMA AdvanceStep ==
  ASSUME IInv, NEW r \in Requests, NEW p \in {"buffering", "armed", "waiting", "slotted"},
         phase[r] \in {"new", "buffering", "armed", "granted"},
         phase' = [phase EXCEPT ![r] = p], PermitsFollow(r), slots' \in Nat,
         budget' \in Nat, held' \in [Requests -> 0 .. Budget],
         found_full' \in [Requests -> BOOLEAN],
         \A x \in Requests \ {r} : found_full'[x] = found_full[x],
         p \in {"buffering", "armed"} => phase[r] # "granted" /\ found_full'[r] = found_full[r],
         phase[r] = "granted" => p = "slotted",
         UNCHANGED <<verdict, shed, failed_on_full_queue>>,
         UNCHANGED Apart
  PROVE  IInv'
<1>1. /\ verdict' = verdict /\ shed' = shed
      /\ failed_on_full_queue' = failed_on_full_queue
      /\ queue' = queue /\ wstate' = wstate /\ hand' = hand /\ late' = late /\ stop' = stop
      /\ verdict[r] = "none"
      /\ phase[r] # "granted" => ~found_full[r]
  BY DEF Apart, IInv, MarksInOrder
<1>2. /\ phase' \in [Requests -> Phase] /\ phase'[r] = p
      /\ \A x \in Requests \ {r} : phase'[x] = phase[x]
  BY DEF IInv, Typed, Phase
<1>3. pending' \in Int
  BY Numbers DEF PermitsFollow
<1>4. TypedStep /\ OthersKept(r)
  BY <1>1, <1>2, <1>3 DEF TypedStep, OthersKept, IInv, Typed
<1>5. MarksFollow(r) /\ FullFollows(r)
  BY <1>1, <1>2 DEF MarksFollow, FullFollows
<1> QED
  BY <1>1, <1>2, <1>4, <1>5, SubmitStepKeepsIInv DEF Inside

\* A submission that owns a slot is refused, and the slot is dropped.
LEMMA GiveUpStep ==
  ASSUME IInv, NEW r \in Requests, NEW why \in Verdict \ ShedVerdicts,
         phase[r] \in {"granted", "slotted"},
         DropSlot([phase EXCEPT ![r] = "dropping"]),
         verdict' = [verdict EXCEPT ![r] = why],
         budget' \in Nat, held' \in [Requests -> 0 .. Budget],
         UNCHANGED <<found_full, shed, pending, failed_on_full_queue>>,
         UNCHANGED Apart
  PROVE  IInv'
<1>1. /\ found_full' = found_full /\ shed' = shed /\ pending' = pending
      /\ failed_on_full_queue' = failed_on_full_queue
      /\ queue' = queue /\ wstate' = wstate /\ hand' = hand /\ late' = late /\ stop' = stop
      /\ verdict[r] = "none"
  BY DEF Apart, IInv, MarksInOrder
<1>2. Typed /\ "dropping" \in Phase /\ phase[r] \in OwnerPhases /\ "dropping" \notin OwnerPhases
  BY DEF IInv, OwnerPhases, Phase
<1>3. /\ phase' \in [Requests -> Phase]
      /\ phase'[r] = "dropping"
      /\ \A x \in Requests \ {r} :
           phase'[x] = phase[x] \/ (phase[x] = "waiting" /\ phase'[x] = "granted")
      /\ slots' \in Nat
      /\ slots' + Size(phase', OwnerPhases) = slots + Size(phase, OwnerPhases)
      /\ Size(phase', CountedPhases) = Size([phase EXCEPT ![r] = "dropping"], CountedPhases)
  BY <1>2, DropSlotMoves
<1>4. Size([phase EXCEPT ![r] = "dropping"], CountedPhases) = Size(phase, CountedPhases)
  <2>1. [phase EXCEPT ![r] = "dropping"][r] = "dropping"
    BY DEF IInv, Typed
  <2>2. \A x \in Requests : phase[x] \in CountedPhases
                              <=> [phase EXCEPT ![r] = "dropping"][x] \in CountedPhases
    BY <2>1 DEF IInv, Typed, CountedPhases
  <2> QED
    BY <2>2 DEF Size
<1>5. CountsFollow
  BY <1>1, <1>3, <1>4, Numbers, SizeNat DEF CountsFollow
<1>6. /\ verdict' \in [Requests -> Verdict] /\ verdict'[r] = why
      /\ \A x \in Requests \ {r} : verdict'[x] = verdict[x]
  BY DEF IInv, Typed
<1>7. TypedStep /\ OthersKept(r)
  BY <1>1, <1>3, <1>6 DEF TypedStep, OthersKept, IInv, Typed
<1>8. MarksFollow(r) /\ FullFollows(r)
  BY <1>1, <1>3, <1>6, Numbers DEF MarksFollow, FullFollows
<1>9. QueueOwned' /\ HandOwned' /\ TakenInHand'
  BY <1>1, <1>3, OwnersKept DEF Inside
<1> QED
  BY <1>5, <1>7, <1>8, <1>9, StepKeepsIInv

LEMMA ReserveKeeps ==
  ASSUME IInv, NEW r \in Requests, Reserve(r)
  PROVE  IInv'
<1>1. CASE RefuseBody(r, "Stopped")
  BY <1>1, Numbers, BodyRefusalStep
  DEF Reserve, receivers, gauges, Apart, Verdict, ShedVerdicts
<1>2. CASE /\ phase' = [phase EXCEPT ![r] = "buffering"]
           /\ UNCHANGED <<verdict, held, budget>>
  <2>1. phase'[r] = "buffering" /\ phase[r] = "new"
    BY <1>2 DEF Reserve, IInv, Typed
  <2>2. PermitsFollow(r)
    BY <2>1, Numbers DEF Reserve, gauges, PermitsFollow, OwnerPhases, CountedPhases
  <2> QED
    BY <1>2, <2>1, <2>2, Numbers, AdvanceStep DEF Reserve, receivers, gauges, Apart, IInv, Typed
<1> QED
  BY <1>1, <1>2 DEF Reserve

LEMMA GrowBodyKeeps ==
  ASSUME IInv, NEW r \in Requests, NEW n \in Bodies, GrowBody(r, n)
  PROVE  IInv'
<1>1. CASE /\ Extra(r, n) <= budget
           /\ budget' = budget - Extra(r, n)
           /\ held' = [held EXCEPT ![r] = @ + Extra(r, n)]
           /\ UNCHANGED <<phase, verdict, shed>>
  <2>1. n \in Nat /\ Budget \in Nat /\ held[r] \in 0 .. Budget
    BY IntakeConstants DEF IInv, Typed
  <2>2. /\ Extra(r, n) \in Int
        /\ held[r] + Extra(r, n) \in 0 .. Budget
    BY <2>1 DEF Extra
  <2>3. budget' \in Nat /\ held' \in [Requests -> 0 .. Budget]
    BY <1>1, <2>2, Numbers DEF IInv, Typed
  <2>4. phase' = [phase EXCEPT ![r] = "buffering"]
    BY <1>1 DEF GrowBody, IInv, Typed
  <2>5. PermitsFollow(r)
    BY <1>1, Numbers DEF GrowBody, PermitsFollow, OwnerPhases, CountedPhases
  <2> QED
    BY <1>1, <2>3, <2>4, <2>5, Numbers, AdvanceStep
    DEF GrowBody, receivers, Apart, IInv, Typed
<1>2. CASE shed' = shed + 1 /\ RefuseBody(r, "OverBudget")
  BY <1>2, BodyRefusalStep DEF GrowBody, receivers, Apart, Verdict, ShedVerdicts
<1>3. CASE RefuseBody(r, "Stopped") /\ UNCHANGED shed
  BY <1>3, Numbers, BodyRefusalStep
  DEF GrowBody, receivers, Apart, Verdict, ShedVerdicts
<1> QED
  BY <1>1, <1>2, <1>3 DEF GrowBody

LEMMA AbandonKeeps ==
  ASSUME IInv, NEW r \in Requests, Abandon(r)
  PROVE  IInv'
BY Numbers, BodyRefusalStep DEF Abandon, receivers, gauges, Apart, Verdict, ShedVerdicts

LEMMA ArmKeeps ==
  ASSUME IInv, NEW r \in Requests, Arm(r)
  PROVE  IInv'
<1>1. phase'[r] = "armed" /\ phase[r] = "buffering"
  BY DEF Arm, IInv, Typed
<1>2. PermitsFollow(r)
  BY <1>1, Numbers DEF Arm, PermitsFollow, OwnerPhases, CountedPhases
<1> QED
  BY <1>1, <1>2, Numbers, AdvanceStep DEF Arm, receivers, Apart, IInv, Typed

LEMMA TakeSlotKeeps ==
  ASSUME IInv, NEW r \in Requests, TakeSlot(r)
  PROVE  IInv'
<1>1. CASE Refuse(r, "Stopped") /\ UNCHANGED <<slots, found_full>>
  BY <1>1, Numbers, RefuseStep
  DEF TakeSlot, receivers, gauges, Apart, Verdict, ShedVerdicts
<1>2. CASE /\ slots > 0
           /\ phase' = [phase EXCEPT ![r] = "slotted"]
           /\ slots' = slots - 1
           /\ UNCHANGED <<verdict, found_full>>
  <2>1. phase'[r] = "slotted" /\ phase[r] = "armed"
    BY <1>2 DEF TakeSlot, IInv, Typed
  <2>2. PermitsFollow(r)
    BY <1>2, <2>1, Numbers DEF TakeSlot, gauges, PermitsFollow, OwnerPhases, CountedPhases
  <2>3. slots' \in Nat
    BY <1>2, Numbers
  <2> QED
    BY <1>2, <2>1, <2>2, <2>3, AdvanceStep DEF TakeSlot, receivers, gauges, Apart, IInv, Typed
<1>3. CASE /\ phase' = [phase EXCEPT ![r] = "waiting"]
           /\ found_full' = [found_full EXCEPT ![r] = TRUE]
           /\ UNCHANGED <<verdict, slots>>
  <2>1. phase'[r] = "waiting" /\ phase[r] = "armed"
    BY <1>3 DEF TakeSlot, IInv, Typed
  <2>2. PermitsFollow(r)
    BY <1>3, <2>1, Numbers DEF TakeSlot, gauges, PermitsFollow, OwnerPhases, CountedPhases
  <2>3. /\ found_full' \in [Requests -> BOOLEAN]
        /\ \A x \in Requests \ {r} : found_full'[x] = found_full[x]
    BY <1>3 DEF IInv, Typed
  <2> QED
    BY <1>3, <2>1, <2>2, <2>3, Numbers, AdvanceStep
    DEF TakeSlot, receivers, gauges, Apart, IInv, Typed
<1> QED
  BY <1>1, <1>2, <1>3 DEF TakeSlot

LEMMA PollAcquireKeeps ==
  ASSUME IInv, NEW r \in Requests, PollAcquire(r)
  PROVE  IInv'
<1>1. CASE /\ phase[r] = "granted"
           /\ phase' = [phase EXCEPT ![r] = "slotted"]
           /\ UNCHANGED <<verdict, slots>>
  <2>1. phase'[r] = "slotted"
    BY <1>1 DEF IInv, Typed
  <2>2. PermitsFollow(r)
    BY <1>1, <2>1, Numbers DEF PollAcquire, gauges, PermitsFollow, OwnerPhases, CountedPhases
  <2> QED
    BY <1>1, <2>1, <2>2, Numbers, AdvanceStep
    DEF PollAcquire, receivers, gauges, Apart, IInv, Typed
<1>2. CASE /\ phase[r] = "granted"
           /\ DropSlot([phase EXCEPT ![r] = "dropping"])
           /\ verdict' = [verdict EXCEPT ![r] = "Stopped"]
  BY <1>2, GiveUpStep
  DEF PollAcquire, receivers, gauges, Apart, Verdict, ShedVerdicts, IInv, Typed
<1>3. CASE phase[r] = "waiting" /\ Refuse(r, "Stopped") /\ UNCHANGED slots
  BY <1>3, Numbers, RefuseStep
  DEF PollAcquire, receivers, gauges, Apart, Verdict, ShedVerdicts
<1> QED
  BY <1>1, <1>2, <1>3 DEF PollAcquire

LEMMA TimeOutKeeps ==
  ASSUME IInv, NEW r \in Requests, TimeOut(r)
  PROVE  IInv'
BY RefuseStep DEF TimeOut, receivers, Apart, Verdict, ShedVerdicts

LEMMA CancelKeeps ==
  ASSUME IInv, NEW r \in Requests, Cancel(r)
  PROVE  IInv'
<1>1. CASE phase[r] = "waiting" /\ Refuse(r, "Cancelled") /\ UNCHANGED slots
  BY <1>1, Numbers, RefuseStep
  DEF Cancel, receivers, gauges, Apart, Verdict, ShedVerdicts
<1>2. CASE phase[r] = "granted" /\ DropSlot([phase EXCEPT ![r] = "dropping"])
  BY <1>2, GiveUpStep
  DEF Cancel, receivers, gauges, Apart, Verdict, ShedVerdicts, IInv, Typed
<1> QED
  BY <1>1, <1>2 DEF Cancel, Refuse

LEMMA SendKeeps ==
  ASSUME IInv, NEW r \in Requests, Send(r)
  PROVE  IInv'
<1>1. /\ phase[r] = "slotted" /\ verdict[r] = "none"
      /\ UNCHANGED <<found_full, wstate, hand, late, pending, shed, failed_on_full_queue, stop>>
  BY DEF Send, receivers, gauges, IInv, MarksInOrder
<1>2. CASE /\ phase' = [phase EXCEPT ![r] = "queued"]
           /\ Enqueue(r)
           /\ UNCHANGED <<verdict, held, budget, slots>>
  <2>1. /\ phase' \in [Requests -> Phase] /\ phase'[r] = "queued"
        /\ \A x \in Requests \ {r} : phase'[x] = phase[x]
    BY <1>2 DEF IInv, Typed, Phase
  <2>2. /\ queue \in Seq(Requests) /\ Len(queue) \in Nat
        /\ queue' \in Seq(Requests) /\ Len(queue') = Len(queue) + 1
        /\ queue'[Len(queue) + 1] = r
        /\ \A i \in 1 .. Len(queue) : queue'[i] = queue[i] /\ queue[i] \in Requests
    BY <1>2 DEF Enqueue, IInv, Typed
  <2>3. \A i \in 1 .. Len(queue) : phase[queue[i]] = "queued" /\ queue[i] # r
    BY <1>1 DEF IInv, QueueOwned
  <2>4. QueueOwned'
    <3>1. \A i \in 1 .. Len(queue') : i \in 1 .. Len(queue) \/ i = Len(queue) + 1
      BY <2>2
    <3>2. \A i \in 1 .. Len(queue') : phase'[queue'[i]] = "queued"
      BY <2>1, <2>2, <2>3, <3>1
    <3>3. \A i, j \in 1 .. Len(queue') : queue'[i] = queue'[j] => i = j
      BY <2>2, <2>3, <3>1 DEF IInv, QueueOwned
    <3> QED
      BY <3>2, <3>3 DEF QueueOwned
  <2>5. HandOwned' /\ TakenInHand'
    BY <1>1, <2>1 DEF IInv, HandOwned, TakenInHand, InPhase
  <2>6. TypedStep /\ OthersKept(r)
    BY <1>1, <1>2, <2>1, <2>2 DEF TypedStep, OthersKept, IInv, Typed
  <2>7. MarksFollow(r) /\ FullFollows(r)
    BY <1>1, <1>2, <2>1 DEF MarksFollow, FullFollows
  <2>8. CountsFollow
    <3>1. /\ \A x \in Requests : phase'[x] \in OwnerPhases <=> phase[x] \in OwnerPhases
          /\ \A x \in Requests : phase'[x] \in CountedPhases <=> phase[x] \in CountedPhases
      BY <1>1, <2>1 DEF OwnerPhases, CountedPhases
    <3>2. /\ Size(phase', OwnerPhases) = Size(phase, OwnerPhases)
          /\ Size(phase', CountedPhases) = Size(phase, CountedPhases)
      BY <3>1 DEF Size
    <3> QED
      BY <1>1, <1>2, <3>2 DEF CountsFollow
  <2> QED
    BY <2>4, <2>5, <2>6, <2>7, <2>8, StepKeepsIInv
<1>3. CASE /\ DropSlot([phase EXCEPT ![r] = "dropping"])
           /\ verdict' = [verdict EXCEPT ![r] = "Stopped"]
           /\ DropBytes(r)
           /\ UNCHANGED queue
  BY <1>1, <1>3, DropBytesTyped, GiveUpStep DEF Apart, Verdict, ShedVerdicts
<1> QED
  BY <1>2, <1>3 DEF Send

LEMMA DropGuardKeeps ==
  ASSUME IInv, NEW r \in Requests, DropGuard(r)
  PROVE  IInv'
<1>1. /\ phase[r] = "dropping" /\ pending' = pending - 1
      /\ UNCHANGED <<verdict, found_full, slots, queue, wstate, hand, late, shed, stop>>
      /\ failed_on_full_queue' = failed_on_full_queue + (IF found_full[r] THEN 1 ELSE 0)
  BY DEF DropGuard, CountsFull, receivers
<1>2. /\ phase' \in [Requests -> Phase] /\ phase'[r] = "refused"
      /\ \A x \in Requests \ {r} : phase'[x] = phase[x]
  BY DEF DropGuard, IInv, Typed, Phase
<1>3. budget' \in Nat /\ held' \in [Requests -> 0 .. Budget]
  BY DropBytesTyped DEF DropGuard
<1>4. pending' \in Int /\ failed_on_full_queue' \in Nat
  BY <1>1, Numbers
<1>5. TypedStep /\ OthersKept(r)
  BY <1>1, <1>2, <1>3, <1>4 DEF TypedStep, OthersKept, IInv, Typed
<1>6. MarksFollow(r)
  BY <1>1, <1>2 DEF MarksFollow
<1>7. FullFollows(r)
  BY <1>1, <1>2, Numbers DEF FullFollows, IInv, Typed
<1>8. PermitsFollow(r)
  BY <1>1, <1>2, Numbers DEF PermitsFollow, OwnerPhases, CountedPhases
<1> QED
  BY <1>1, <1>2, <1>5, <1>6, <1>7, <1>8, SubmitStepKeepsIInv DEF Inside

LEMMA SubmissionKeeps ==
  ASSUME IInv, NEW r \in Requests, Submission(r)
  PROVE  IInv'
BY ReserveKeeps, GrowBodyKeeps, AbandonKeeps, ArmKeeps, TakeSlotKeeps, PollAcquireKeeps,
   TimeOutKeeps, CancelKeeps, SendKeeps, DropGuardKeeps
DEF Submission

\* A step of a thread or of stop() that moves no request.
LEMMA QuietStep ==
  ASSUME IInv, UNCHANGED <<admission, queue, hand, late, gauges>>,
         wstate' \in [Workers -> WState], stop' \in 0 .. 4,
         \A w \in Workers :
           wstate'[w] = wstate[w]
             \/ {wstate[w], wstate'[w]} \subseteq {"php", "receiving", "exited"}
  PROVE  IInv'
<1> USE DEF admission, gauges
<1>1. Typed'
  BY DEF IInv, Typed
<1>2. SlotsConserved' /\ PendingExact' /\ ShedExact' /\ FullQueueExact'
  BY DEF IInv, SlotsConserved, PendingExact, ShedExact, FullQueueExact, SlotOwners,
         Counted, InPhase
<1>3. QueueOwned' /\ TakenInHand' /\ MarksInOrder'
  BY DEF IInv, QueueOwned, TakenInHand, MarksInOrder, InPhase
<1>4. HandOwned'
  BY DEF IInv, HandOwned
<1> QED
  BY <1>1, <1>2, <1>3, <1>4 DEF IInv

\* The head of the channel: a queued request that occurs once.
LEMMA HeadOwned ==
  ASSUME IInv, queue # <<>>
  PROVE  /\ Head(queue) \in Requests /\ phase[Head(queue)] = "queued"
         /\ Tail(queue) \in Seq(Requests)
         /\ Len(Tail(queue)) \in Nat
         /\ \A i \in 1 .. Len(Tail(queue)) :
              /\ Tail(queue)[i] \in Requests /\ Tail(queue)[i] # Head(queue)
              /\ phase[Tail(queue)[i]] = "queued"
         /\ \A i, j \in 1 .. Len(Tail(queue)) :
              Tail(queue)[i] = Tail(queue)[j] => i = j
<1>1. /\ queue \in Seq(Requests) /\ Len(queue) \in Nat \ {0}
      /\ Head(queue) = queue[1] /\ Len(Tail(queue)) = Len(queue) - 1
      /\ Tail(queue) \in Seq(Requests)
      /\ \A i \in 1 .. Len(Tail(queue)) : Tail(queue)[i] = queue[i + 1]
  BY DEF IInv, Typed
<1>2. \A i \in 1 .. Len(queue) : queue[i] \in Requests /\ phase[queue[i]] = "queued"
  BY <1>1 DEF IInv, QueueOwned
<1>3. \A i \in 1 .. Len(Tail(queue)) : i + 1 \in 1 .. Len(queue) /\ i + 1 # 1
  BY <1>1
<1>4. \A i, j \in 1 .. Len(queue) : queue[i] = queue[j] => i = j
  BY DEF IInv, QueueOwned
<1>5. 1 \in 1 .. Len(queue)
  BY <1>1
<1>6. \A i \in 1 .. Len(Tail(queue)) : Tail(queue)[i] # Head(queue)
  BY <1>1, <1>3, <1>4, <1>5
<1>7. \A i, j \in 1 .. Len(Tail(queue)) : Tail(queue)[i] = Tail(queue)[j] => i = j
  BY <1>1, <1>3, <1>4
<1> QED
  BY <1>1, <1>2, <1>3, <1>5, <1>6, <1>7

LEMMA RecvUnitKeeps ==
  ASSUME IInv, NEW w \in Workers, RecvUnit(w)
  PROVE  IInv'
<1> DEFINE r == Head(queue)
<1>1. /\ wstate[w] = "receiving" /\ queue # <<>> /\ queue' = Tail(queue)
      /\ wstate' = [wstate EXCEPT ![w] = "counting"]
      /\ hand' = [hand EXCEPT ![w] = r]
      /\ phase' = [phase EXCEPT ![r] = "taken"]
      /\ late' = [late EXCEPT ![w] = @ + (IF Stopping THEN 1 ELSE 0)]
      /\ UNCHANGED <<verdict, held, found_full, budget, slots, pending, shed,
                     failed_on_full_queue, stop>>
  BY DEF RecvUnit, gauges
<1>2. /\ r \in Requests /\ phase[r] = "queued" /\ queue' \in Seq(Requests)
      /\ \A i \in 1 .. Len(queue') :
           queue'[i] \in Requests /\ queue'[i] # r /\ phase[queue'[i]] = "queued"
      /\ \A i, j \in 1 .. Len(queue') : queue'[i] = queue'[j] => i = j
  BY <1>1, HeadOwned
<1> HIDE DEF r
<1>3. /\ phase' \in [Requests -> Phase] /\ phase'[r] = "taken"
      /\ \A x \in Requests \ {r} : phase'[x] = phase[x]
  BY <1>1, <1>2 DEF IInv, Typed, Phase
<1>4. /\ wstate' \in [Workers -> WState] /\ wstate'[w] = "counting"
      /\ hand' \in [Workers -> Requests \cup {NoUnit}] /\ hand'[w] = r
      /\ late' \in [Workers -> Nat]
      /\ \A v \in Workers \ {w} : wstate'[v] = wstate[v] /\ hand'[v] = hand[v]
  BY <1>1, <1>2 DEF IInv, Typed, WState
<1>5. QueueOwned'
  BY <1>2, <1>3 DEF QueueOwned
<1>6. HandOwned' /\ TakenInHand'
  <2>1. r # NoUnit /\ \A v \in Workers : hand[v] # r
    BY <1>2, IntakeConstants DEF IInv, HandOwned
  <2>2. HandOwned'
    <3>1. \A v \in Workers \ {w} :
            /\ hand[v] \in Requests => phase'[hand[v]] = phase[hand[v]]
            /\ wstate'[v] = wstate[v] /\ hand'[v] = hand[v]
      BY <1>3, <1>4, <2>1
    <3>2. \A v \in Workers :
            /\ wstate'[v] = "counting" => hand'[v] \in Requests /\ phase'[hand'[v]] = "taken"
            /\ wstate'[v] = "releasing" => hand'[v] \in Requests /\ phase'[hand'[v]] = "uncounted"
            /\ wstate'[v] \notin {"counting", "releasing"} => hand'[v] = NoUnit
      BY <1>2, <1>3, <1>4, <3>1 DEF IInv, HandOwned
    <3>3. \A u, v \in Workers : hand'[u] = hand'[v] /\ hand'[u] # NoUnit => u = v
      BY <1>4, <2>1, <3>1 DEF IInv, HandOwned
    <3> QED
      BY <3>2, <3>3 DEF HandOwned
  <2>3. TakenInHand'
    <3>1. hand[w] = NoUnit
      BY <1>1 DEF IInv, HandOwned
    <3>2. SUFFICES ASSUME NEW x \in Requests, phase'[x] \in {"taken", "uncounted"}, x # r
                   PROVE  \E v \in Workers : hand'[v] = x
      BY <1>4 DEF TakenInHand, InPhase
    <3>3. PICK v \in Workers : hand[v] = x
      BY <1>3, <3>2 DEF IInv, TakenInHand, InPhase
    <3>4. v # w
      BY <3>1, <3>2, <3>3, IntakeConstants
    <3> QED
      BY <1>4, <3>3, <3>4
  <2> QED
    BY <2>2, <2>3
<1>7. TypedStep /\ OthersKept(r)
  BY <1>1, <1>2, <1>3, <1>4 DEF TypedStep, OthersKept, IInv, Typed
<1>8. MarksFollow(r) /\ FullFollows(r)
  BY <1>1, <1>2, <1>3 DEF MarksFollow, FullFollows, IInv, MarksInOrder
<1>9. CountsFollow
  <2>1. /\ \A x \in Requests : phase'[x] \in OwnerPhases <=> phase[x] \in OwnerPhases
        /\ \A x \in Requests : phase'[x] \in CountedPhases <=> phase[x] \in CountedPhases
    BY <1>2, <1>3 DEF OwnerPhases, CountedPhases
  <2>2. /\ Size(phase', OwnerPhases) = Size(phase, OwnerPhases)
        /\ Size(phase', CountedPhases) = Size(phase, CountedPhases)
    BY <2>1 DEF Size
  <2> QED
    BY <1>1, <2>2 DEF CountsFollow
<1> QED
  BY <1>2, <1>5, <1>6, <1>7, <1>8, <1>9, StepKeepsIInv

\* The gauge is decremented for a request in w's hand.
LEMMA CountOutKeeps ==
  ASSUME IInv, NEW w \in Workers, CountOut(w)
  PROVE  IInv'
<1> DEFINE r == hand[w]
<1>1. /\ wstate[w] = "counting" /\ pending' = pending - 1
      /\ wstate' = [wstate EXCEPT ![w] = "releasing"]
      /\ phase' = [phase EXCEPT ![r] = "uncounted"]
      /\ UNCHANGED <<verdict, held, found_full, budget, slots, queue, hand, late, shed,
                     failed_on_full_queue, stop>>
  BY DEF CountOut
<1>2. r \in Requests /\ phase[r] = "taken"
  BY <1>1 DEF IInv, HandOwned
<1>3. \A v \in Workers \ {w} : hand[v] # r
  BY <1>2, IntakeConstants DEF IInv, HandOwned
<1>4. hand'[w] = r
  BY <1>1
<1> HIDE DEF r
<1>5. /\ phase' \in [Requests -> Phase] /\ phase'[r] = "uncounted"
      /\ \A x \in Requests \ {r} : phase'[x] = phase[x]
  BY <1>1, <1>2 DEF IInv, Typed, Phase
<1>6. /\ wstate' \in [Workers -> WState] /\ wstate'[w] = "releasing"
      /\ \A v \in Workers \ {w} : wstate'[v] = wstate[v] /\ hand'[v] = hand[v]
  BY <1>1 DEF IInv, Typed, WState
<1>7. QueueOwned'
  <2>1. \A i \in 1 .. Len(queue) : queue[i] \in Requests \ {r}
    BY <1>2 DEF IInv, Typed, QueueOwned
  <2> QED
    BY <1>1, <1>5, <2>1 DEF IInv, QueueOwned
<1>8. HandOwned'
  <2>1. \A v \in Workers \ {w} :
          /\ hand[v] \in Requests => phase'[hand[v]] = phase[hand[v]]
          /\ wstate'[v] = wstate[v] /\ hand'[v] = hand[v]
    BY <1>3, <1>5, <1>6
  <2>2. \A v \in Workers :
          /\ wstate'[v] = "counting" => hand'[v] \in Requests /\ phase'[hand'[v]] = "taken"
          /\ wstate'[v] = "releasing" => hand'[v] \in Requests /\ phase'[hand'[v]] = "uncounted"
          /\ wstate'[v] \notin {"counting", "releasing"} => hand'[v] = NoUnit
    BY <1>2, <1>4, <1>5, <1>6, <2>1 DEF IInv, HandOwned
  <2> QED
    BY <1>1, <2>2 DEF IInv, HandOwned
<1>9. TakenInHand'
  BY <1>1, <1>2, <1>5 DEF IInv, TakenInHand, InPhase
<1>10. TypedStep /\ OthersKept(r)
  BY <1>1, <1>5, <1>6, Numbers DEF TypedStep, OthersKept, IInv, Typed
<1>11. MarksFollow(r) /\ FullFollows(r)
  BY <1>1, <1>2, <1>5 DEF MarksFollow, FullFollows, IInv, MarksInOrder
<1>12. CountsFollow
  <2>1. /\ Size(phase', OwnerPhases) = Size(phase, OwnerPhases)
        /\ Size(phase', CountedPhases) = Size(phase, CountedPhases) - 1
        /\ Size(phase, CountedPhases) \in Nat
    BY <1>2, <1>5, PhaseMove DEF OwnerPhases, CountedPhases
  <2> QED
    BY <1>1, <2>1, Numbers DEF CountsFollow
<1> QED
  BY <1>2, <1>7, <1>8, <1>9, <1>10, <1>11, <1>12, StepKeepsIInv

\* The rest of the Entry drops while its unit goes to PHP.
LEMMA ReleaseEntryKeeps ==
  ASSUME IInv, NEW w \in Workers, ReleaseEntry(w)
  PROVE  IInv'
<1> DEFINE r == hand[w]
<1>1. /\ wstate[w] = "releasing" /\ DropSlot([phase EXCEPT ![r] = "delivered"])
      /\ DropBytes(r)
      /\ hand' = [hand EXCEPT ![w] = NoUnit]
      /\ wstate' = [wstate EXCEPT ![w] = "php"]
      /\ UNCHANGED <<verdict, found_full, queue, late, pending, shed,
                     failed_on_full_queue, stop>>
  BY DEF ReleaseEntry, gauges
<1>2. r \in Requests /\ phase[r] = "uncounted"
  BY <1>1 DEF IInv, HandOwned
<1>3. \A v \in Workers \ {w} : hand[v] # r
  BY <1>2, IntakeConstants DEF IInv, HandOwned
<1>4. \A x \in Requests \ {r} : hand[w] # x
  OBVIOUS
<1> HIDE DEF r
<1>5. /\ phase' \in [Requests -> Phase]
      /\ phase'[r] = "delivered"
      /\ \A x \in Requests \ {r} :
           phase'[x] = phase[x] \/ (phase[x] = "waiting" /\ phase'[x] = "granted")
      /\ slots' \in Nat
      /\ slots' + Size(phase', OwnerPhases) = slots + Size(phase, OwnerPhases)
      /\ Size(phase', CountedPhases) = Size([phase EXCEPT ![r] = "delivered"], CountedPhases)
  <2>1. /\ Typed /\ "delivered" \in Phase /\ phase[r] \in OwnerPhases
        /\ "delivered" \notin OwnerPhases
    BY <1>2 DEF IInv, OwnerPhases, Phase
  <2> QED
    BY <1>1, <1>2, <2>1, DropSlotMoves
<1>6. /\ wstate' \in [Workers -> WState] /\ wstate'[w] = "php"
      /\ hand' \in [Workers -> Requests \cup {NoUnit}] /\ hand'[w] = NoUnit
      /\ \A v \in Workers \ {w} : wstate'[v] = wstate[v] /\ hand'[v] = hand[v]
  BY <1>1 DEF IInv, Typed, WState
<1>7. budget' \in Nat /\ held' \in [Requests -> 0 .. Budget]
  BY <1>1, <1>2, DropBytesTyped
<1>8. QueueOwned'
  <2>1. \A i \in 1 .. Len(queue) : queue[i] \in Requests \ {r} /\ phase[queue[i]] = "queued"
    BY <1>2 DEF IInv, Typed, QueueOwned
  <2>2. \A i \in 1 .. Len(queue) : phase'[queue[i]] = "queued"
    BY <1>5, <2>1
  <2> QED
    BY <1>1, <2>2 DEF IInv, QueueOwned
<1>9. HandOwned'
  <2>1. \A v \in Workers \ {w} : wstate'[v] = wstate[v] /\ hand'[v] = hand[v]
    BY <1>6
  <2>2. \A v \in Workers \ {w} :
          hand[v] \in Requests /\ phase[hand[v]] \in {"taken", "uncounted"} =>
            phase'[hand[v]] = phase[hand[v]]
    BY <1>3, <1>5
  <2>3. \A v \in Workers :
          /\ wstate'[v] = "counting" => hand'[v] \in Requests /\ phase'[hand'[v]] = "taken"
          /\ wstate'[v] = "releasing" => hand'[v] \in Requests /\ phase'[hand'[v]] = "uncounted"
          /\ wstate'[v] \notin {"counting", "releasing"} => hand'[v] = NoUnit
    BY <1>6, <2>1, <2>2 DEF IInv, HandOwned
  <2>4. \A u, v \in Workers : hand'[u] = hand'[v] /\ hand'[u] # NoUnit => u = v
    BY <1>6, <2>1 DEF IInv, HandOwned
  <2> QED
    BY <2>3, <2>4 DEF HandOwned
<1>10. TakenInHand'
  <2>1. SUFFICES ASSUME NEW x \in Requests, phase'[x] \in {"taken", "uncounted"}
                 PROVE  \E v \in Workers : hand'[v] = x
    BY DEF TakenInHand, InPhase
  <2>2. x # r /\ phase[x] \in {"taken", "uncounted"}
    BY <1>5, <2>1
  <2>3. PICK v \in Workers : hand[v] = x
    BY <2>2 DEF IInv, TakenInHand, InPhase
  <2>4. v # w
    BY <1>4, <2>2, <2>3
  <2> QED
    BY <1>6, <2>3, <2>4
<1>11. TypedStep /\ OthersKept(r)
  BY <1>1, <1>5, <1>6, <1>7 DEF TypedStep, OthersKept, IInv, Typed
<1>12. MarksFollow(r) /\ FullFollows(r)
  BY <1>1, <1>2, <1>5 DEF MarksFollow, FullFollows, IInv, MarksInOrder
<1>13. CountsFollow
  <2>1. Size([phase EXCEPT ![r] = "delivered"], CountedPhases) = Size(phase, CountedPhases)
    <3>1. \A x \in Requests : phase[x] \in CountedPhases
                                <=> [phase EXCEPT ![r] = "delivered"][x] \in CountedPhases
      BY <1>2 DEF IInv, Typed, CountedPhases
    <3> QED
      BY <3>1 DEF Size
  <2> QED
    BY <1>1, <1>5, <2>1, Numbers, SizeNat DEF CountsFollow
<1> QED
  BY <1>2, <1>8, <1>9, <1>10, <1>11, <1>12, <1>13, StepKeepsIInv

\* The destroyed channel drops its head.
LEMMA DestroyHeadKeeps ==
  ASSUME IInv, DestroyHead
  PROVE  IInv'
<1> DEFINE r == Head(queue)
<1>1. /\ queue # <<>> /\ queue' = Tail(queue)
      /\ DropSlot([phase EXCEPT ![r] = "destroyed"]) /\ DropBytes(r)
      /\ UNCHANGED <<verdict, found_full, wstate, hand, late, pending, shed,
                     failed_on_full_queue, stop>>
  BY DEF DestroyHead, receivers, gauges
<1>2. /\ r \in Requests /\ phase[r] = "queued" /\ queue' \in Seq(Requests)
      /\ \A i \in 1 .. Len(queue') :
           queue'[i] \in Requests /\ queue'[i] # r /\ phase[queue'[i]] = "queued"
      /\ \A i, j \in 1 .. Len(queue') : queue'[i] = queue'[j] => i = j
  BY <1>1, HeadOwned
<1> HIDE DEF r
<1>3. /\ phase' \in [Requests -> Phase]
      /\ phase'[r] = "destroyed"
      /\ \A x \in Requests \ {r} :
           phase'[x] = phase[x] \/ (phase[x] = "waiting" /\ phase'[x] = "granted")
      /\ slots' \in Nat
      /\ slots' + Size(phase', OwnerPhases) = slots + Size(phase, OwnerPhases)
      /\ Size(phase', CountedPhases) = Size([phase EXCEPT ![r] = "destroyed"], CountedPhases)
  <2>1. /\ Typed /\ "destroyed" \in Phase /\ phase[r] \in OwnerPhases
        /\ "destroyed" \notin OwnerPhases
    BY <1>2 DEF IInv, OwnerPhases, Phase
  <2> QED
    BY <1>1, <1>2, <2>1, DropSlotMoves
<1>4. budget' \in Nat /\ held' \in [Requests -> 0 .. Budget]
  BY <1>1, <1>2, DropBytesTyped
<1>5. QueueOwned'
  BY <1>2, <1>3 DEF QueueOwned
<1>6. HandOwned' /\ TakenInHand'
  <2>1. \A x \in Requests : phase[x] \in {"taken", "uncounted"}
                              \/ phase'[x] \in {"taken", "uncounted"} => phase'[x] = phase[x]
    BY <1>2, <1>3
  <2> QED
    BY <1>1, <2>1 DEF IInv, HandOwned, TakenInHand, InPhase
<1>7. TypedStep /\ OthersKept(r)
  BY <1>1, <1>2, <1>3, <1>4 DEF TypedStep, OthersKept, IInv, Typed
<1>8. MarksFollow(r) /\ FullFollows(r)
  BY <1>1, <1>2, <1>3 DEF MarksFollow, FullFollows, IInv, MarksInOrder
<1>9. CountsFollow
  <2>1. Size([phase EXCEPT ![r] = "destroyed"], CountedPhases) = Size(phase, CountedPhases)
    <3>1. \A x \in Requests : phase[x] \in CountedPhases
                                <=> [phase EXCEPT ![r] = "destroyed"][x] \in CountedPhases
      BY <1>2 DEF IInv, Typed, CountedPhases
    <3> QED
      BY <3>1 DEF Size
  <2> QED
    BY <1>1, <1>3, <2>1, Numbers, SizeNat DEF CountsFollow
<1> QED
  BY <1>2, <1>5, <1>6, <1>7, <1>8, <1>9, StepKeepsIInv

LEMMA ReceiveKeeps ==
  ASSUME IInv, NEW w \in Workers, Receive(w)
  PROVE  IInv'
<1>1. CASE StartRecv(w) \/ RecvNothing(w) \/ Exit(w)
  <2>1. /\ UNCHANGED <<admission, queue, hand, late, gauges>> /\ stop' = stop
        /\ \E s \in {"php", "receiving", "exited"} : wstate' = [wstate EXCEPT ![w] = s]
        /\ wstate[w] \in {"php", "receiving"}
    BY <1>1 DEF StartRecv, RecvNothing, Exit, MayReceive
  <2>2. PICK s \in {"php", "receiving", "exited"} : wstate' = [wstate EXCEPT ![w] = s]
    BY <2>1
  <2>3. /\ wstate' \in [Workers -> WState] /\ wstate'[w] = s
        /\ \A v \in Workers \ {w} : wstate'[v] = wstate[v]
    BY <2>2 DEF IInv, Typed, WState
  <2> QED
    BY <2>1, <2>2, <2>3, QuietStep DEF IInv, Typed
<1> QED
  BY <1>1, RecvUnitKeeps, CountOutKeeps, ReleaseEntryKeeps DEF Receive

LEMMA InitIInv ==
  ASSUME Init
  PROVE  IInv
<1> USE DEF Init
<1>1. Typed
  BY IntakeConstants DEF Typed, Phase, Verdict, WState
<1>2. SlotOwners = {} /\ Counted = {}
      /\ {r \in InPhase({"refused"}) : found_full[r]} = {}
      /\ {r \in Requests : verdict[r] \in {"OverBudget", "Saturated"}} = {}
  BY DEF SlotOwners, Counted, InPhase, OwnerPhases, CountedPhases
<1>3. SlotsConserved /\ PendingExact /\ ShedExact /\ FullQueueExact
  <2>1. Cardinality({}) = 0 /\ Slots \in Nat
    BY FS_EmptySet, IntakeConstants
  <2>2. /\ slots + Cardinality(SlotOwners) = Slots
        /\ pending = Cardinality(Counted)
    BY <1>2, <2>1
  <2>3. ShedExact
    BY <1>2, <2>1 DEF ShedExact
  <2>4. FullQueueExact
    BY <1>2, <2>1 DEF FullQueueExact
  <2> QED
    BY <2>2, <2>3, <2>4 DEF SlotsConserved, PendingExact
<1>4. QueueOwned /\ HandOwned /\ TakenInHand /\ MarksInOrder
  BY DEF QueueOwned, HandOwned, TakenInHand, MarksInOrder, InPhase
<1> QED
  BY <1>1, <1>3, <1>4 DEF IInv

LEMMA NextIInv ==
  ASSUME IInv, [Next]_vars
  PROVE  IInv'
<1>1. CASE UNCHANGED vars
  BY <1>1, QuietStep DEF vars, admission, receivers, gauges, IInv, Typed
<1>2. CASE StopStep
  BY <1>2, QuietStep DEF StopStep, receivers, IInv, Typed
<1> QED
  BY <1>1, <1>2, SubmissionKeeps, ReceiveKeeps, DestroyHeadKeeps DEF Next, Finished

\* Every reachable state of the intake, for every set of requests and threads,
\* every capacity and every body size, satisfies the inductive invariant.
THEOREM Invariance == Spec => []IInv
<1>1. Init => IInv
  BY InitIInv
<1>2. IInv /\ [Next]_vars => IInv'
  BY NextIInv
<1> QED
  BY <1>1, <1>2, PTL DEF Spec

\* The variables keep their types; no counter of free permits leaves its range.
THEOREM TypeCorrect == Spec => []TypeOK
<1>1. IInv => TypeOK
  BY CountsBySize, SizeNat DEF IInv, TypeOK
<1> QED
  BY <1>1, Invariance, PTL

\* Cancelled, refused, sent, received and destroyed requests return every slot
\* permit they own (work.rs, OwnedSemaphorePermit in Entry).
THEOREM SlotsNeverLeak == Spec => []SlotsConserved
BY Invariance, PTL DEF IInv

\* The pending gauge, the shed count and the full-queue count are exact in
\* every state, so pending never wraps and no refusal is lost or counted twice.
THEOREM CountersAreExact == Spec => []CountersExact
BY Invariance, PTL DEF IInv, CountersExact

-----------------------------------------------------------------------------
(* Waiters and late units.                                                 *)

\* Dropping a permit never leaves a free slot beside a waiter.
LEMMA DropSlotWakes ==
  ASSUME IInv, NoLostSlotWakeup, ~SlotsClosed, NEW r \in Requests, NEW p \in Phase,
         p # "waiting", DropSlot([phase EXCEPT ![r] = p]),
         NEW h \in Requests, phase'[h] = "waiting"
  PROVE  slots' = 0
<1> DEFINE next == [phase EXCEPT ![r] = p]
<1>1. next \in [Requests -> Phase] /\ next[r] = p
      /\ \A x \in Requests \ {r} : next[x] = phase[x]
  BY DEF IInv, Typed
<1> HIDE DEF next
<1>2. CASE /\ \E g \in InPhase({"waiting"}) : phase' = [next EXCEPT ![g] = "granted"]
           /\ slots' = slots
  BY <1>2 DEF NoLostSlotWakeup
<1>3. CASE InPhase({"waiting"}) = {} /\ phase' = next
  BY <1>1, <1>3 DEF InPhase
<1> QED
  BY <1>2, <1>3 DEF DropSlot, next

\* A slot is never free while a submission waits for one, whatever the order
\* of drops, cancellations, timeouts and grants.
THEOREM NoWakeupLost == Spec => []NoLostSlotWakeup
<1>1. Init => NoLostSlotWakeup
  BY DEF Init, NoLostSlotWakeup, InPhase
<1>2. IInv /\ NoLostSlotWakeup /\ [Next]_vars => NoLostSlotWakeup'
  <2> SUFFICES ASSUME IInv, NoLostSlotWakeup, [Next]_vars, ~SlotsClosed',
                      NEW h \in Requests, phase'[h] = "waiting"
               PROVE  slots' = 0
    BY DEF NoLostSlotWakeup, InPhase
  <2>1. ~SlotsClosed
    <3>1. stop' = stop \/ stop' = stop + 1
      BY DEF Next, vars, Submission, Receive, StopStep, Finished, DestroyHead, Reserve,
             GrowBody, Abandon, Arm, TakeSlot, PollAcquire, TimeOut, Cancel, Send, DropGuard,
             StartRecv, RecvUnit, RecvNothing, CountOut, ReleaseEntry, Exit
    <3> QED
      BY <3>1 DEF SlotsClosed, IInv, Typed
  <2>2. phase[h] = "waiting" => slots = 0
    BY <2>1 DEF NoLostSlotWakeup, InPhase
  <2>3. CASE UNCHANGED <<phase, slots>>
    BY <2>2, <2>3
  <2>4. ASSUME NEW r \in Requests, NEW p \in Phase \ {"waiting"},
               phase' = [phase EXCEPT ![r] = p], slots' = slots
        PROVE  slots' = 0
    BY <2>2, <2>4 DEF IInv, Typed
  <2>5. ASSUME NEW r \in Requests, NEW p \in Phase \ {"waiting"},
               DropSlot([phase EXCEPT ![r] = p])
        PROVE  slots' = 0
    BY <2>1, <2>5, DropSlotWakes
  <2>6. CASE \E r \in Requests : Submission(r)
    <3>1. PICK r \in Requests : Submission(r)
      BY <2>6
    <3>2. CASE Reserve(r) \/ Abandon(r) \/ Arm(r) \/ TimeOut(r) \/ DropGuard(r)
      BY <2>4, <3>2
      DEF Reserve, Abandon, Arm, TimeOut, DropGuard, RefuseBody, Refuse, Phase
    <3>3. ASSUME NEW n \in Bodies, GrowBody(r, n)
          PROVE  slots' = 0
      BY <2>3, <2>4, <3>3 DEF GrowBody, RefuseBody, Phase
    <3>4. CASE TakeSlot(r)
      <4>1. CASE slots = 0
        BY <2>4, <3>4, <4>1 DEF TakeSlot, Refuse, Phase
      <4>2. CASE slots # 0
        BY <2>2, <2>1, <3>4, <4>2 DEF TakeSlot, IInv, Typed
      <4> QED
        BY <4>1, <4>2
    <3>5. CASE PollAcquire(r) \/ Cancel(r) \/ Send(r)
      BY <2>4, <2>5, <3>5 DEF PollAcquire, Cancel, Send, Refuse, Phase
    <3> QED
      BY <3>1, <3>2, <3>3, <3>4, <3>5 DEF Submission
  <2>7. CASE \E w \in Workers : Receive(w)
    <3>1. PICK w \in Workers : Receive(w)
      BY <2>7
    <3>2. CASE StartRecv(w) \/ RecvNothing(w) \/ Exit(w)
      BY <2>3, <3>2 DEF StartRecv, RecvNothing, Exit, admission
    <3>3. CASE RecvUnit(w)
      BY <2>4, <3>3, HeadOwned DEF RecvUnit, Phase
    <3>4. CASE CountOut(w) \/ ReleaseEntry(w)
      <4>1. hand[w] \in Requests
        BY <3>4 DEF CountOut, ReleaseEntry, IInv, HandOwned
      <4> QED
        BY <2>4, <2>5, <3>4, <4>1 DEF CountOut, ReleaseEntry, Phase
    <3> QED
      BY <3>1, <3>2, <3>3, <3>4 DEF Receive
  <2>8. CASE DestroyHead
    BY <2>5, <2>8, HeadOwned DEF DestroyHead, Phase
  <2>9. CASE StopStep \/ UNCHANGED vars
    BY <2>3, <2>9 DEF StopStep, vars, admission
  <2> QED
    BY <2>6, <2>7, <2>8, <2>9 DEF Next, Finished
<1> QED
  BY <1>1, <1>2, Invariance, PTL DEF Spec

\* Slot permits are conserved and always handed on, for any number of
\* submissions and slots (work.rs, the semaphore of the intake).
THEOREM SlotsAreHandedOn == Spec => []SlotsHandedOn
BY SlotsNeverLeak, NoWakeupLost, PTL DEF SlotsHandedOn

-----------------------------------------------------------------------------
(* The body budget.                                                        *)

\* The requests that own no body permit, by their phase.
Settled == {"new", "refused", "delivered", "destroyed"}

\* One request changes the permits it owns by what the budget gives or takes.
LEMMA BytesMove ==
  ASSUME IInv, BytesConserved, NEW r \in Requests,
         held' \in [Requests -> 0 .. Budget], budget' \in Nat,
         \A x \in Requests \ {r} : held'[x] = held[x],
         budget' + held'[r] = budget + held[r],
         \A x \in Requests : phase'[x] \in Settled => held'[x] = 0
  PROVE  BytesConserved'
<1>1. /\ IsFiniteSet(Requests) /\ budget \in Nat
      /\ \A x \in Requests : held[x] \in Int /\ held'[x] \in Int
  BY IntakeConstants DEF IInv, Typed
<1>2. SumFunctionOnSet(held', Requests) = SumFunctionOnSet(held, Requests) + (held'[r] - held[r])
  BY <1>1, SumChange
<1>3. SumFunctionOnSet(held, Requests) \in Int
  BY <1>1, SumInt
<1>4. budget' + SumFunctionOnSet(held', Requests) = Budget
  BY <1>1, <1>2, <1>3 DEF BytesConserved
<1> QED
  BY <1>4 DEF BytesConserved, InPhase, Settled

\* Nothing moves in the budget, and no request with bytes settles.
LEMMA BytesKept ==
  ASSUME BytesConserved, UNCHANGED <<held, budget>>,
         \A x \in Requests : phase'[x] \in Settled => phase[x] \in Settled
  PROVE  BytesConserved'
BY DEF BytesConserved, InPhase, Settled

\* A request drops its permit, and may settle.
LEMMA BytesDropped ==
  ASSUME IInv, BytesConserved, NEW r \in Requests, DropBytes(r),
         \A x \in Requests \ {r} : phase'[x] \in Settled => phase[x] \in Settled
  PROVE  BytesConserved'
<1>1. held \in [Requests -> 0 .. Budget] /\ budget \in Nat
  BY DEF IInv, Typed
<1>2. /\ held'[r] = 0 /\ \A x \in Requests \ {r} : held'[x] = held[x]
      /\ budget' + held'[r] = budget + held[r]
  BY <1>1 DEF DropBytes
<1>3. \A x \in Requests : phase'[x] \in Settled => held'[x] = 0
  BY <1>2 DEF BytesConserved, InPhase, Settled
<1> QED
  BY <1>2, <1>3, DropBytesTyped, BytesMove

\* A slot that one request drops settles no other.
LEMMA DropSlotSettles ==
  ASSUME IInv, NEW r \in Requests, NEW p \in Phase, DropSlot([phase EXCEPT ![r] = p])
  PROVE  /\ \A x \in Requests \ {r} : phase'[x] \in Settled => phase[x] \in Settled
         /\ phase'[r] \in Settled => p \in Settled
<1> DEFINE next == [phase EXCEPT ![r] = p]
<1>1. next \in [Requests -> Phase] /\ next[r] = p
      /\ \A x \in Requests \ {r} : next[x] = phase[x]
  BY DEF IInv, Typed
<1> HIDE DEF next
<1>2. \A x \in Requests : phase'[x] = next[x] \/ phase'[x] = "granted"
  BY <1>1 DEF DropSlot, InPhase, next
<1> QED
  BY <1>1, <1>2 DEF Settled

\* One request changes its phase, and does not settle.
LEMMA PhaseSettles ==
  ASSUME IInv, NEW r \in Requests, NEW p, phase' = [phase EXCEPT ![r] = p]
  PROVE  /\ \A x \in Requests \ {r} : phase'[x] \in Settled => phase[x] \in Settled
         /\ phase'[r] = p
BY DEF IInv, Typed

LEMMA SubmissionKeepsBytes ==
  ASSUME IInv, BytesConserved, NEW r \in Requests, Submission(r)
  PROVE  BytesConserved'
<1>1. ASSUME NEW p \in Phase \ Settled, phase' = [phase EXCEPT ![r] = p], UNCHANGED <<held, budget>>
      PROVE  BytesConserved'
  BY <1>1, PhaseSettles, BytesKept
<1>2. ASSUME NEW p \in Phase \ Settled, DropSlot([phase EXCEPT ![r] = p]),
             UNCHANGED <<held, budget>>
      PROVE  BytesConserved'
  BY <1>2, DropSlotSettles, BytesKept
<1>3. ASSUME NEW p \in Phase, phase' = [phase EXCEPT ![r] = p], DropBytes(r)
      PROVE  BytesConserved'
  BY <1>3, PhaseSettles, BytesDropped
<1>4. CASE Reserve(r) \/ Abandon(r) \/ DropGuard(r)
  BY <1>1, <1>3, <1>4 DEF Reserve, Abandon, DropGuard, RefuseBody, Phase, Settled
<1>5. ASSUME NEW n \in Bodies, GrowBody(r, n)
      PROVE  BytesConserved'
  <2>1. CASE \E why \in Verdict : RefuseBody(r, why)
    BY <1>3, <2>1 DEF RefuseBody, Phase
  <2>2. CASE /\ Extra(r, n) <= budget /\ budget' = budget - Extra(r, n)
             /\ held' = [held EXCEPT ![r] = @ + Extra(r, n)] /\ phase' = phase
    <3> DEFINE e == Extra(r, n)
    <3>1. /\ held \in [Requests -> 0 .. Budget] /\ budget \in Nat /\ Budget \in Nat /\ n \in Nat
          /\ phase[r] = "buffering" /\ e > 0
      BY <1>5, IntakeConstants DEF IInv, Typed, GrowBody
    <3>2. e \in Int /\ held[r] + e \in 0 .. Budget
      BY <3>1 DEF Extra
    <3> HIDE DEF e
    <3>3. /\ held' \in [Requests -> 0 .. Budget] /\ budget' \in Nat
          /\ \A x \in Requests \ {r} : held'[x] = held[x]
          /\ budget' + held'[r] = budget + held[r]
      BY <2>2, <3>1, <3>2 DEF e
    <3>4. \A x \in Requests : phase'[x] \in Settled => held'[x] = 0
      BY <2>2, <3>1, <3>3 DEF BytesConserved, InPhase, Settled
    <3> QED
      BY <3>3, <3>4, BytesMove
  <2> QED
    BY <1>5, <2>1, <2>2 DEF GrowBody, Verdict
<1>6. CASE Arm(r) \/ TakeSlot(r) \/ TimeOut(r)
  BY <1>1, <1>6 DEF Arm, TakeSlot, TimeOut, Refuse, Phase, Settled
<1>7. CASE PollAcquire(r) \/ Cancel(r)
  BY <1>1, <1>2, <1>7 DEF PollAcquire, Cancel, Refuse, Phase, Settled
<1>8. CASE Send(r)
  <2>1. CASE phase' = [phase EXCEPT ![r] = "queued"] /\ UNCHANGED <<held, budget>>
    BY <1>1, <2>1 DEF Phase, Settled
  <2>2. CASE DropSlot([phase EXCEPT ![r] = "dropping"]) /\ DropBytes(r)
    BY <2>2, DropSlotSettles, BytesDropped DEF Phase
  <2> QED
    BY <1>8, <2>1, <2>2 DEF Send
<1> QED
  BY <1>4, <1>5, <1>6, <1>7, <1>8 DEF Submission

\* Every byte of the budget is free or reserved by one request, and comes back
\* with every request that is refused, delivered or destroyed, for any number of
\* requests and any body sizes (work.rs, reserve_body, grow_body and Entry).
THEOREM BytesNeverLeak == Spec => []BytesConserved
<1>1. Init => BytesConserved
  <2> SUFFICES ASSUME Init
               PROVE  BytesConserved
    OBVIOUS
  <2>1. IsFiniteSet(Requests) /\ \A r \in Requests : held[r] = 0
    BY IntakeConstants DEF Init
  <2>2. SumFunctionOnSet(held, Requests) = 0
    BY <2>1, SumOfZeros
  <2> QED
    BY <2>1, <2>2, IntakeConstants DEF Init, BytesConserved, InPhase
<1>2. IInv /\ BytesConserved /\ [Next]_vars => BytesConserved'
  <2> SUFFICES ASSUME IInv, BytesConserved, [Next]_vars
               PROVE  BytesConserved'
    OBVIOUS
  <2>1. ASSUME NEW w \in Workers, Receive(w)
        PROVE  BytesConserved'
    <3>1. CASE StartRecv(w) \/ RecvNothing(w) \/ Exit(w)
      BY <3>1, BytesKept DEF StartRecv, RecvNothing, Exit, admission
    <3>2. CASE RecvUnit(w)
      BY <3>2, HeadOwned, PhaseSettles, BytesKept DEF RecvUnit, Settled
    <3>3. CASE CountOut(w)
      <4>1. hand[w] \in Requests
        BY <3>3 DEF CountOut, IInv, HandOwned
      <4> QED
        BY <3>3, <4>1, PhaseSettles, BytesKept DEF CountOut, Settled
    <3>4. CASE ReleaseEntry(w)
      <4>1. hand[w] \in Requests
        BY <3>4 DEF ReleaseEntry, IInv, HandOwned
      <4> QED
        BY <3>4, <4>1, DropSlotSettles, BytesDropped DEF ReleaseEntry, Phase
    <3> QED
      BY <2>1, <3>1, <3>2, <3>3, <3>4 DEF Receive
  <2>2. CASE DestroyHead
    BY <2>2, HeadOwned, DropSlotSettles, BytesDropped DEF DestroyHead, Phase
  <2>3. CASE StopStep \/ UNCHANGED vars
    BY <2>3, BytesKept DEF StopStep, vars, admission
  <2> QED
    BY <2>1, <2>2, <2>3, SubmissionKeepsBytes DEF Next, Finished
<1> QED
  BY <1>1, <1>2, Invariance, PTL DEF Spec

\* What makes a thread take at most one late unit: it enters recv() only
\* before the flag is set.
LateInv ==
  \A w \in Workers :
    /\ late[w] <= 1
    /\ ~Stopping \/ wstate[w] = "receiving" => late[w] = 0

\* A thread that raced stop() dequeues at most one unit after the flag is set.
THEOREM OneLateUnit == Spec => []AtMostOneLateUnit
<1>1. Init => LateInv
  BY DEF Init, LateInv
<1>2. IInv /\ LateInv /\ [Next]_vars => LateInv'
  <2> SUFFICES ASSUME IInv, LateInv, [Next]_vars
               PROVE  LateInv'
    OBVIOUS
  <2>1. CASE UNCHANGED <<wstate, late, stop>>
    BY <2>1 DEF LateInv, Stopping
  <2>2. CASE StopStep
    BY <2>2 DEF StopStep, receivers, LateInv, Stopping, IInv, Typed
  <2>3. ASSUME NEW w \in Workers, Receive(w)
        PROVE  LateInv'
    <3>1. CASE RecvUnit(w)
      <4>1. late' = [late EXCEPT ![w] = @ + (IF Stopping THEN 1 ELSE 0)] /\ stop' = stop
            /\ wstate' = [wstate EXCEPT ![w] = "counting"] /\ late[w] = 0
        BY <3>1 DEF RecvUnit, LateInv
      <4> QED
        BY <4>1 DEF LateInv, Stopping, IInv, Typed
    <3>2. CASE StartRecv(w)
      BY <3>2 DEF StartRecv, MayReceive, LateInv, Stopping, IInv, Typed
    <3>3. CASE RecvNothing(w) \/ CountOut(w) \/ ReleaseEntry(w) \/ Exit(w)
      BY <3>3 DEF RecvNothing, CountOut, ReleaseEntry, Exit, LateInv, Stopping, IInv, Typed
    <3> QED
      BY <2>3, <3>1, <3>2, <3>3 DEF Receive
  <2>4. ASSUME NEW r \in Requests, Submission(r)
        PROVE  UNCHANGED <<wstate, late, stop>>
    BY <2>4 DEF Submission, Reserve, GrowBody, Abandon, Arm, TakeSlot, PollAcquire, TimeOut,
                Cancel, Send, DropGuard, receivers
  <2>5. CASE DestroyHead \/ UNCHANGED vars
    BY <2>1, <2>5 DEF DestroyHead, vars, receivers
  <2> QED
    BY <2>1, <2>2, <2>3, <2>4, <2>5 DEF Next, Finished
<1>3. LateInv => AtMostOneLateUnit
  BY DEF LateInv, AtMostOneLateUnit
<1> QED
  BY <1>1, <1>2, <1>3, Invariance, PTL DEF Spec

-----------------------------------------------------------------------------
(* The intake implements the bounded queue.                                *)

\* The status function that the refinement maps to.
Mapped == [r \in Requests |-> StatusOf(r)]

\* A step that moves one request between two statuses, waiters apart, is a
\* step of the mapped status.
LEMMA MappedMove ==
  ASSUME NEW r \in Requests,
         \A x \in Requests \ {r} :
           phase'[x] = phase[x] \/ (phase[x] = "waiting" /\ phase'[x] = "granted")
  PROVE  Mapped' = [Mapped EXCEPT ![r] = StatusOf(r)']
<1>1. \A x \in Requests \ {r} : StatusOf(x)' = StatusOf(x)
  BY DEF StatusOf
<1> QED
  BY <1>1 DEF Mapped

\* A step that moves nobody between statuses is a stutter of the mapping.
LEMMA MappedSame ==
  ASSUME \A x \in Requests : StatusOf(x)' = StatusOf(x)
  PROVE  Mapped' = Mapped
BY DEF Mapped

\* The intake's initial states are the queue's.
LEMMA InitMaps ==
  ASSUME Init
  PROVE  Promise!QInit
<1>1. \A r \in Requests : StatusOf(r) = "outside"
  BY DEF Init, StatusOf
<1>2. ~ReceiversGone
  BY IntakeConstants DEF Init, ReceiversGone
<1> QED
  BY <1>1, <1>2 DEF Init, Promise!QInit

\* The instance counts as this module does.
LEMMA SameCardinality ==
  ASSUME NEW S
  PROVE  Promise!Cardinality(S) = Cardinality(S)
BY DEF Promise!Cardinality, Cardinality

\* The units inside the queue are slot owners, and so fewer than Slots when a
\* request is about to be sent with a slot of its own.
LEMMA RoomToSend ==
  ASSUME IInv, NEW r \in Requests, phase[r] = "slotted"
  PROVE  Cardinality(Promise!Occupied) < Slots
<1> DEFINE inside == Promise!Occupied
<1>1. inside \subseteq SlotOwners /\ r \in SlotOwners /\ r \notin inside
  BY DEF Promise!Occupied, SlotOwners, InPhase, OwnerPhases, StatusOf
<1>2. IsFiniteSet(SlotOwners) /\ IsFiniteSet(inside)
      /\ Cardinality(SlotOwners) \in Nat /\ Cardinality(inside) \in Nat
  BY <1>1, IntakeConstants, FS_Subset, FS_CardinalityType DEF SlotOwners, InPhase
<1>3. inside \subseteq SlotOwners \ {r} /\ IsFiniteSet(SlotOwners \ {r})
  BY <1>1, <1>2, FS_Subset
<1>4. Cardinality(inside) <= Cardinality(SlotOwners \ {r})
  BY <1>3, FS_Subset
<1>5. Cardinality(SlotOwners \ {r}) = Cardinality(SlotOwners) - 1
  BY <1>1, <1>2, FS_RemoveElement
<1> HIDE DEF inside
<1>6. slots \in Nat /\ slots + Cardinality(SlotOwners) = Slots
  BY Numbers DEF IInv, SlotsConserved
<1>7. Cardinality(inside) < Slots
  BY <1>2, <1>4, <1>5, <1>6, IntakeConstants
<1> QED
  BY <1>7 DEF inside

\* Every step of a submission is an admission, a refusal or a stutter.
LEMMA SubmissionMaps ==
  ASSUME IInv, NEW r \in Requests, Submission(r)
  PROVE  [Promise!QNext]_(Promise!wq_vars)
<1>1. ReceiversGone' = ReceiversGone
  BY DEF Submission, Reserve, GrowBody, Abandon, Arm, TakeSlot, PollAcquire, TimeOut, Cancel,
         Send, DropGuard, receivers, ReceiversGone
<1>2. CASE Send(r) /\ ~ReceiversGone
  <2>1. /\ phase[r] = "slotted" /\ phase' = [phase EXCEPT ![r] = "queued"]
        /\ queue' = Append(queue, r)
    BY <1>2 DEF Send, Enqueue
  <2>2. /\ phase'[r] = "queued"
        /\ \A x \in Requests \ {r} : phase'[x] = phase[x]
    BY <2>1 DEF IInv, Typed
  <2>3. StatusOf(r) = "outside" /\ StatusOf(r)' = "admitted"
    BY <2>1, <2>2 DEF StatusOf
  <2>4. Mapped' = [Mapped EXCEPT ![r] = "admitted"] /\ Mapped[r] = "outside"
    BY <2>2, <2>3, MappedMove DEF Mapped
  <2>5. Cardinality(Promise!Occupied) < Slots
    BY <2>1, RoomToSend
  <2>6. Promise!Admit(r)
    <3>1. [x \in Requests |-> StatusOf(x)][r] = "outside"
      BY <2>3
    <3>2. [x \in Requests |-> StatusOf(x)]'
            = [[x \in Requests |-> StatusOf(x)] EXCEPT ![r] = "admitted"]
      BY <2>4 DEF Mapped
    <3> QED
      BY <1>1, <1>2, <2>1, <2>5, <3>1, <3>2, SameCardinality DEF Promise!Admit
  <2> QED
    BY <2>6 DEF Promise!QNext
<1>3. ASSUME phase[r] \in Phase \ {"queued", "taken", "uncounted", "delivered", "destroyed", "refused"},
             phase' \in [Requests -> Phase], queue' = queue,
             phase'[r] \notin {"queued", "taken", "uncounted", "delivered", "destroyed"},
             \A x \in Requests \ {r} :
               phase'[x] = phase[x] \/ (phase[x] = "waiting" /\ phase'[x] = "granted")
      PROVE  [Promise!QNext]_(Promise!wq_vars)
  <2>1. StatusOf(r) = "outside"
    BY <1>3 DEF StatusOf
  <2>2. CASE phase'[r] = "refused"
    <3>1. StatusOf(r)' = "refused"
      BY <2>2 DEF StatusOf
    <3>2. Mapped' = [Mapped EXCEPT ![r] = "refused"] /\ Mapped[r] = "outside"
      BY <1>3, <2>1, <3>1, MappedMove DEF Mapped
    <3>3. Promise!Turn(r)
      BY <1>1, <1>3, <3>2 DEF Promise!Turn, Mapped
    <3> QED
      BY <3>3 DEF Promise!QNext
  <2>3. CASE phase'[r] # "refused"
    <3>1. StatusOf(r)' = "outside"
      BY <1>3, <2>3 DEF StatusOf
    <3>2. \A x \in Requests : StatusOf(x)' = StatusOf(x)
      BY <1>3, <2>1, <3>1 DEF StatusOf
    <3>3. Mapped' = Mapped
      BY <3>2, MappedSame
    <3> QED
      BY <1>1, <1>3, <3>3 DEF Promise!wq_vars, Mapped
  <2> QED
    BY <2>2, <2>3
<1>4. CASE \/ Reserve(r) \/ Abandon(r) \/ Arm(r) \/ TakeSlot(r) \/ TimeOut(r)
           \/ DropGuard(r) \/ \E n \in Bodies : GrowBody(r, n)
  <2>1. /\ phase[r] \in {"new", "buffering", "armed", "waiting", "dropping"}
        /\ \E p \in {"refused", "buffering", "armed", "waiting", "slotted", "dropping"} :
             phase' = [phase EXCEPT ![r] = p]
        /\ queue' = queue
    <3>1. CASE \E n \in Bodies : GrowBody(r, n)
      BY <3>1 DEF GrowBody, RefuseBody, IInv, Typed
    <3> QED
      BY <1>4, <3>1 DEF Reserve, Abandon, Arm, TakeSlot, TimeOut, DropGuard, RefuseBody, Refuse
  <2>2. PICK p \in {"refused", "buffering", "armed", "waiting", "slotted", "dropping"} :
          phase' = [phase EXCEPT ![r] = p]
    BY <2>1
  <2>3. /\ phase' \in [Requests -> Phase] /\ phase'[r] = p
        /\ \A x \in Requests \ {r} : phase'[x] = phase[x]
    BY <2>2 DEF IInv, Typed, Phase
  <2> QED
    BY <1>3, <2>1, <2>2, <2>3 DEF Phase
<1>5. CASE PollAcquire(r) \/ Cancel(r) \/ (Send(r) /\ ReceiversGone)
  <2>1. phase[r] \in {"waiting", "granted", "slotted"} /\ queue' = queue
    BY <1>5 DEF PollAcquire, Cancel, Send
  <2>2. CASE phase[r] \in {"granted", "slotted"} /\ DropSlot([phase EXCEPT ![r] = "dropping"])
    <3>1. /\ phase' \in [Requests -> Phase] /\ phase'[r] = "dropping"
          /\ \A x \in Requests \ {r} :
               phase'[x] = phase[x] \/ (phase[x] = "waiting" /\ phase'[x] = "granted")
      BY <2>2, DropSlotMoves DEF IInv, OwnerPhases, Phase
    <3> QED
      BY <1>3, <2>1, <3>1 DEF Phase
  <2>3. ASSUME NEW p \in {"dropping", "slotted"}, phase' = [phase EXCEPT ![r] = p]
        PROVE  [Promise!QNext]_(Promise!wq_vars)
    <3>1. /\ phase' \in [Requests -> Phase] /\ phase'[r] = p
          /\ \A x \in Requests \ {r} : phase'[x] = phase[x]
      BY <2>3 DEF IInv, Typed, Phase
    <3> QED
      BY <1>3, <2>1, <3>1 DEF Phase
  <2> QED
    BY <1>5, <2>2, <2>3 DEF PollAcquire, Cancel, Send, Refuse
<1> QED
  BY <1>2, <1>4, <1>5 DEF Submission

\* Every step of a thread takes a unit, hands it over, leaves or stutters.
LEMMA ReceiveMaps ==
  ASSUME IInv, NEW w \in Workers, Receive(w)
  PROVE  [Promise!QNext]_(Promise!wq_vars)
<1>1. CASE RecvUnit(w)
  <2>0. PICK r \in Requests : r = Head(queue) /\ phase[r] = "queued"
    BY <1>1, HeadOwned DEF RecvUnit
  <2>1. /\ queue # <<>> /\ queue' = Tail(queue) /\ wstate[w] = "receiving"
        /\ wstate' = [wstate EXCEPT ![w] = "counting"]
        /\ phase' = [phase EXCEPT ![r] = "taken"]
    BY <1>1, <2>0 DEF RecvUnit
  <2>2. ~ReceiversGone /\ ~ReceiversGone'
    BY <2>1 DEF ReceiversGone, IInv, Typed
  <2>3. phase'[r] = "taken" /\ \A x \in Requests \ {r} : phase'[x] = phase[x]
    BY <2>1 DEF IInv, Typed
  <2>4. StatusOf(r)' = "taken"
    BY <2>3 DEF StatusOf
  <2>5. Mapped' = [Mapped EXCEPT ![r] = "taken"]
    BY <2>3, <2>4, MappedMove
  <2>6. Promise!Take
    <3>1. ReceiversGone' = ReceiversGone
      BY <2>2 DEF ReceiversGone
    <3> QED
      BY <2>0, <2>1, <2>2, <2>5, <3>1 DEF Promise!Take, Mapped
  <2> QED
    BY <2>6 DEF Promise!QNext
<1>2. CASE CountOut(w)
  <2>1. /\ wstate[w] = "counting" /\ hand[w] \in Requests /\ phase[hand[w]] = "taken"
        /\ phase' = [phase EXCEPT ![hand[w]] = "uncounted"] /\ queue' = queue
        /\ wstate' = [wstate EXCEPT ![w] = "releasing"]
    BY <1>2 DEF CountOut, IInv, HandOwned
  <2>2. ReceiversGone' = ReceiversGone
    BY <2>1 DEF ReceiversGone, IInv, Typed
  <2>3. \A x \in Requests : StatusOf(x)' = StatusOf(x)
    BY <2>1 DEF StatusOf, IInv, Typed
  <2> QED
    BY <2>1, <2>2, <2>3, MappedSame DEF Promise!wq_vars, Mapped
<1>3. CASE ReleaseEntry(w)
  <2>0. PICK r \in Requests : r = hand[w]
    BY <1>3 DEF ReleaseEntry, IInv, HandOwned
  <2>1. /\ wstate[w] = "releasing" /\ phase[r] = "uncounted"
        /\ DropSlot([phase EXCEPT ![r] = "delivered"]) /\ queue' = queue
        /\ wstate' = [wstate EXCEPT ![w] = "php"]
    BY <1>3, <2>0 DEF ReleaseEntry, IInv, HandOwned
  <2>2. ReceiversGone' = ReceiversGone
    BY <2>1 DEF ReceiversGone, IInv, Typed
  <2>3. /\ phase'[r] = "delivered"
        /\ \A x \in Requests \ {r} :
             phase'[x] = phase[x] \/ (phase[x] = "waiting" /\ phase'[x] = "granted")
    BY <2>1, DropSlotMoves DEF IInv, OwnerPhases, Phase
  <2>4. StatusOf(r) = "taken" /\ StatusOf(r)' = "handed"
    BY <2>1, <2>3 DEF StatusOf
  <2>5. Mapped' = [Mapped EXCEPT ![r] = "handed"] /\ Mapped[r] = "taken"
    BY <2>1, <2>3, <2>4, MappedMove DEF Mapped
  <2>6. Promise!HandOver(r)
    BY <2>1, <2>2, <2>5 DEF Promise!HandOver, Mapped
  <2> QED
    BY <2>1, <2>6 DEF Promise!QNext
<1>4. CASE StartRecv(w) \/ RecvNothing(w) \/ Exit(w)
  <2>1. /\ phase' = phase /\ queue' = queue /\ wstate[w] # "exited"
        /\ hand' = hand
        /\ wstate' = [wstate EXCEPT ![w] = wstate'[w]]
    BY <1>4 DEF StartRecv, RecvNothing, Exit, admission, IInv, Typed
  <2>2. Mapped' = Mapped
    BY <2>1, MappedSame DEF StatusOf
  <2>3. ~ReceiversGone
    BY <2>1 DEF ReceiversGone
  <2>4. CASE ReceiversGone'
    <3>1. \A v \in Workers : hand[v] = NoUnit
      <4>1. \A v \in Workers : wstate'[v] = "exited" /\ hand'[v] = hand[v]
        BY <2>1, <2>4 DEF ReceiversGone
      <4>2. HandOwned'
        BY ReceiveKeeps DEF IInv
      <4> QED
        BY <4>1, <4>2 DEF HandOwned
    <3>2. \A r \in Requests : phase[r] \notin {"taken", "uncounted"}
      BY <3>1, IntakeConstants DEF IInv, TakenInHand, InPhase
    <3>3. \A r \in Requests : Mapped[r] # "taken"
      BY <3>2 DEF Mapped, StatusOf
    <3>4. Promise!LastLeaves
      BY <2>1, <2>2, <2>3, <2>4, <3>3 DEF Promise!LastLeaves, Mapped
    <3> QED
      BY <3>4 DEF Promise!QNext
  <2>5. CASE ~ReceiversGone'
    <3>1. ReceiversGone' = ReceiversGone
      BY <2>3, <2>5 DEF ReceiversGone
    <3> QED
      BY <2>1, <2>2, <3>1 DEF Promise!wq_vars, Mapped
  <2> QED
    BY <2>4, <2>5
<1> QED
  BY <1>1, <1>2, <1>3, <1>4 DEF Receive

\* Dropping the head of the destroyed channel loses a unit.
LEMMA DestroyMaps ==
  ASSUME IInv, DestroyHead
  PROVE  [Promise!QNext]_(Promise!wq_vars)
<1>1. PICK r \in Requests : r = Head(queue) /\ phase[r] = "queued"
  BY HeadOwned DEF DestroyHead
<1>2. /\ queue # <<>> /\ queue' = Tail(queue) /\ ReceiversGone /\ wstate' = wstate
      /\ DropSlot([phase EXCEPT ![r] = "destroyed"])
  BY <1>1 DEF DestroyHead, receivers, Destroyed
<1>3. ReceiversGone'
  BY <1>2 DEF ReceiversGone
<1>4. /\ phase'[r] = "destroyed"
      /\ \A x \in Requests \ {r} :
           phase'[x] = phase[x] \/ (phase[x] = "waiting" /\ phase'[x] = "granted")
  BY <1>1, <1>2, DropSlotMoves DEF IInv, OwnerPhases, Phase
<1>5. StatusOf(r)' = "lost"
  BY <1>4 DEF StatusOf
<1>6. Mapped' = [Mapped EXCEPT ![r] = "lost"]
  BY <1>4, <1>5, MappedMove
<1>7. Promise!Lose
  BY <1>1, <1>2, <1>3, <1>6 DEF Promise!Lose, Mapped
<1> QED
  BY <1>7 DEF Promise!QNext

\* The intake implements the bounded queue of WorkQueue: every unit in order,
\* at most Slots inside, each handed to one thread or lost after the last one.
THEOREM IntakeIsAQueue == Spec => ImplementsQueue
<1>1. Init => Promise!QInit
  BY InitMaps
<1>2. IInv /\ [Next]_vars => [Promise!QNext]_(Promise!wq_vars)
  <2> SUFFICES ASSUME IInv, [Next]_vars
               PROVE  [Promise!QNext]_(Promise!wq_vars)
    OBVIOUS
  <2>1. CASE StopStep \/ UNCHANGED vars
    <3>1. phase' = phase /\ queue' = queue /\ wstate' = wstate
      BY <2>1 DEF StopStep, vars, admission, receivers
    <3>2. Mapped' = Mapped
      BY <3>1, MappedSame DEF StatusOf
    <3> QED
      BY <3>1, <3>2 DEF Promise!wq_vars, Mapped, ReceiversGone
  <2> QED
    BY <2>1, SubmissionMaps, ReceiveMaps, DestroyMaps DEF Next, Finished
<1> QED
  BY <1>1, <1>2, Invariance, PTL DEF Spec, ImplementsQueue, Promise!QSpec
=============================================================================
