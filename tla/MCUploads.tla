----------------------------- MODULE MCUploads ------------------------------
(* Uploads on small instances; requests are interchangeable. *)
EXTENDS Uploads, TLC

Symmetry == Permutations(Reqs) \cup Permutations(Pids)
=============================================================================
