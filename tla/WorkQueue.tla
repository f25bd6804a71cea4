------------------------------ MODULE WorkQueue ------------------------------
(***************************************************************************)
(* What an intake promises to the plugin and to the pool, with the         *)
(* semaphores, the gauge and the shutdown steps left out: a first-in       *)
(* first-out queue that admits a unit only while fewer than Slots units    *)
(* are admitted and not yet handed over, hands each admitted unit to one   *)
(* thread, never both refuses and runs a unit, and loses units only after  *)
(* every thread has left.                                                  *)
(***************************************************************************)
EXTENDS Naturals, Sequences, FiniteSets

CONSTANTS Requests, Slots

VARIABLES
  status, \* [Requests -> Status]
  fifo,   \* the admitted units that no thread has taken
  left    \* every thread of the pool has left for good

wq_vars == <<status, fifo, left>>

Status == {"outside", "admitted", "taken", "handed", "refused", "lost"}

Occupied == {r \in Requests : status[r] \in {"admitted", "taken"}}

QInit ==
  /\ status = [r \in Requests |-> "outside"]
  /\ fifo = <<>>
  /\ left = FALSE

Admit(r) ==
  /\ status[r] = "outside" /\ ~left
  /\ Cardinality(Occupied) < Slots
  /\ status' = [status EXCEPT ![r] = "admitted"]
  /\ fifo' = Append(fifo, r)
  /\ UNCHANGED left

Turn(r) ==
  /\ status[r] = "outside"
  /\ status' = [status EXCEPT ![r] = "refused"]
  /\ UNCHANGED <<fifo, left>>

Take ==
  /\ fifo # <<>> /\ ~left
  /\ status' = [status EXCEPT ![Head(fifo)] = "taken"]
  /\ fifo' = Tail(fifo)
  /\ UNCHANGED left

HandOver(r) ==
  /\ status[r] = "taken"
  /\ status' = [status EXCEPT ![r] = "handed"]
  /\ UNCHANGED <<fifo, left>>

\* The last thread leaves with no unit in its hands.
LastLeaves ==
  /\ ~left
  /\ \A r \in Requests : status[r] # "taken"
  /\ left' = TRUE
  /\ UNCHANGED <<status, fifo>>

Lose ==
  /\ fifo # <<>> /\ left
  /\ status' = [status EXCEPT ![Head(fifo)] = "lost"]
  /\ fifo' = Tail(fifo)
  /\ UNCHANGED left

QNext ==
  \/ \E r \in Requests : Admit(r) \/ Turn(r) \/ HandOver(r)
  \/ Take \/ LastLeaves \/ Lose

QSpec == QInit /\ [][QNext]_wq_vars
=============================================================================
