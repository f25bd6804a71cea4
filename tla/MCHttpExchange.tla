--------------------------- MODULE MCHttpExchange ---------------------------
(* HttpExchange on small instances. *)
EXTENDS HttpExchange
=============================================================================
