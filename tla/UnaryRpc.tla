------------------------------ MODULE UnaryRpc ------------------------------
(***************************************************************************)
(* What the gRPC plugin promises about a unary call (crates/plugins/grpc/  *)
(* src/php/call.rs: finish(), dispatch.rs: unary()).  The client gets one  *)
(* verdict; the script's answer is given once, while the client waits.     *)
(***************************************************************************)
CONSTANT Calls

VARIABLES verdict, \* what the client got, or "none"
          answer   \* of the script: open, given, denied, or never to come

rvars == <<verdict, answer>>

RInit == verdict = [c \in Calls |-> "none"] /\ answer = [c \in Calls |-> "open"]

Become(c, a) == answer[c] = "open" /\ answer' = [answer EXCEPT ![c] = a] /\ UNCHANGED verdict

\* Answer accepted: the client has no verdict yet.
Give(c) == verdict[c] = "none" /\ Become(c, "given")

\* The script is told that it is too late, and it is.
Deny(c) == verdict[c] \notin {"none", "lost"} /\ Become(c, "denied")

\* The script will not answer any more.
Forgo(c) == Become(c, "never")

\* The verdicts that each state of the answer admits.
FromAnswer == {"message", "status", "undecodable"}
OfNoAnswer == {"lost", "refused"}

Decide(c, v) ==
  /\ verdict[c] = "none" /\ v # "none"
  /\ v \in FromAnswer => answer[c] = "given"
  /\ v \in OfNoAnswer => answer[c] = "never"
  /\ verdict' = [verdict EXCEPT ![c] = v]
  /\ UNCHANGED answer

\* A queue that is destroyed ends every call in it at once.
ForgoAll == \E D \in SUBSET Calls :
  /\ \A c \in D : answer[c] = "open"
  /\ answer' = [c \in Calls |-> IF c \in D THEN "never" ELSE answer[c]]
  /\ UNCHANGED verdict

RNext == ForgoAll \/ \E c \in Calls : Give(c) \/ Deny(c) \/ Forgo(c) \/ \E v \in {verdict'[c]} : Decide(c, v)

RSpec == RInit /\ [][RNext]_rvars
=============================================================================
