------------------------------ MODULE MCServer ------------------------------
(* Server with one HTTP and one gRPC plugin.                               *)
EXTENDS Server

GrpcIsSecond == {2}
=============================================================================
