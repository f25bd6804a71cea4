----------------------------- MODULE MCGrpcCall -----------------------------
(* GrpcCall on a small instance. *)
EXTENDS GrpcCall
=============================================================================
