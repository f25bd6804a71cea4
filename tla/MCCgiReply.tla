----------------------------- MODULE MCCgiReply -----------------------------
(* CgiReply on small instances. *)
EXTENDS CgiReply
=============================================================================
