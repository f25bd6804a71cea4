-------------------------- MODULE MCStaticCacheAge --------------------------
(* StaticCacheAge with one file, for TLC.                                  *)
EXTENDS StaticCacheAge

Lengths == <<1, 1>>
=============================================================================
