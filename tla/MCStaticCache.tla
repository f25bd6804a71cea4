---------------------------- MODULE MCStaticCache ----------------------------
(* StaticCache with a few files, requests and ticks, for TLC.              *)
EXTENDS StaticCache, TLC

\* Two versions of one length, a longer one, and one too large for the cache.
Lengths == <<1, 1, 2, 3>>

Symmetry == Permutations(Requests) \cup Permutations(Paths)
=============================================================================
