----------------------------- MODULE FrameStream -----------------------------
(***************************************************************************)
(* What a producer of response frames promises to their consumer           *)
(* (enum Frame, crates/sapi/src/types.rs): Head? (Chunk|File)* End?, body  *)
(* bytes only after a head that admits them, never more of them than that  *)
(* head announced, and nothing after the End or the drop of the sender.    *)
(***************************************************************************)
EXTENDS Integers

Unknown == -1 \* a head that announces no length

VARIABLES phase, \* start, body, ended, or cut: the sender dropped before End
          limit, \* the body bytes that the head admits, or Unknown
          bytes  \* the body bytes sent

svars == <<phase, limit, bytes>>

SInit == phase = "start" /\ limit = Unknown /\ bytes = 0

Begin ==
  /\ phase = "start"
  /\ phase' = "body"
  /\ limit' \in Nat \cup {Unknown}
  /\ UNCHANGED bytes

Carry ==
  /\ phase = "body"
  /\ bytes' \in Nat /\ bytes' > bytes
  /\ limit = Unknown \/ bytes' <= limit
  /\ UNCHANGED <<phase, limit>>

End == phase \in {"start", "body"} /\ phase' = "ended" /\ UNCHANGED <<limit, bytes>>

Cut == phase \in {"start", "body"} /\ phase' = "cut" /\ UNCHANGED <<limit, bytes>>

SNext == Begin \/ Carry \/ End \/ Cut

SSpec == SInit /\ [][SNext]_svars
=============================================================================
