------------------------------ MODULE MCIntake ------------------------------
(* Intake on a small pool: TLC instance, symmetry and the abstract queue.  *)
EXTENDS Intake, TLC

Symmetry == Permutations(Requests) \cup Permutations(Workers)
=============================================================================
