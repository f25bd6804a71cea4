------------------------------ MODULE MCPhpPool ------------------------------
(* PhpPool on a small pool, for TLC.                                       *)
EXTENDS PhpPool

AllModes == {"classic", "worker", "dispatcher"}
=============================================================================
