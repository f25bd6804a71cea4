------------------------------- MODULE Uploads -------------------------------
(***************************************************************************)
(* A request body from its first frame to the script, and the files that   *)
(* its multipart parts are spooled to (crates/plugins/http/src: handler.rs,*)
(* multipart.rs, serve.rs, php/mod.rs, php/respond.rs; crates/sapi/src:    *)
(* types.rs).  One server after the other uses an upload directory, each   *)
(* with a spool directory named after its process id; the operating system *)
(* hands out an id again once its process is gone.  Two servers that share *)
(* a directory at a time are not modelled.                                 *)
(*                                                                         *)
(* pc of a request:  idle                      queued   in the intake      *)
(*   reading  its body is read                 held     a script's unit    *)
(*   inline   parsed on the connection's task  ending   its files are gone,*)
(*   task     parsed by spawn_blocking                  its reply ends     *)
(*   parsed   before the intake                shed     503 sent           *)
(*   done     nothing is left of it                                        *)
(***************************************************************************)
EXTENDS Integers, Sequences, FiniteSets, Functions

CONSTANTS Reqs, Pids,
          Budget,     \* BODY_BUDGET, in parts: a frame brings one
          MaxBody,    \* max_body_size, in parts
          InlineMax,  \* INLINE_PARSE_MAX, in parts
          MaxFiles,   \* Limits::max_files
          NoPid

ASSUME UploadConstants ==
  /\ IsFiniteSet(Reqs)
  /\ {Budget, MaxBody, InlineMax, MaxFiles} \subseteq Nat
  /\ NoPid \notin Pids

VARIABLES phase, pid,  \* of the server
  dirs,    \* process ids that have a spool directory
  kept,    \* of these, the ones that the last sweep failed to remove
  disk,    \* files in the directory of the running server
  stuck,   \* files that unlink() failed to remove
  free,    \* permits left of the budget
  pc, parts,
  held,    \* permits of a request
  owned,   \* files that a SpooledFile of a request names
  gone,    \* the client left
  ended    \* the client has seen the end of the reply

server == <<phase, pid, dirs, kept>>
vars == <<server, disk, stuck, free, pc, parts, held, owned, gone, ended>>

Each(v) == [r \in Reqs |-> v]

Init ==
  /\ phase = "off" /\ pid = NoPid /\ dirs = {} /\ kept = {}
  /\ disk = {} /\ stuck = {} /\ free = Budget
  /\ pc = Each("idle") /\ parts = Each(<<>>) /\ held = Each(0) /\ owned = Each({})
  /\ gone = Each(FALSE) /\ ended = Each(FALSE)

-----------------------------------------------------------------------------
(* The life of a server.  A Broken... operator stands for one plausible    *)
(* bug of the operator after it; no specification uses it.                 *)

BrokenReclaimable(p, me, living) == p \notin living \cup {me}

\* spool_dir_reclaimable, with living the other processes.  An id of this
\* process is a leftover of an earlier one.
Reclaimable(p, me, living) == p = me \/ p \notin living \cup {me}

\* Server::prepare sweeps what it can remove, before it creates its own.
Start ==
  /\ phase = "off" /\ phase' = "swept"
  /\ \E me \in Pids, living \in SUBSET Pids, failed \in SUBSET dirs :
       LET old == {p \in dirs : Reclaimable(p, me, living)}
       IN /\ me \notin living /\ failed \subseteq old
          /\ pid' = me /\ kept' = failed /\ dirs' = (dirs \ old) \cup failed
  /\ UNCHANGED <<disk, stuck, free, pc, parts, held, owned, gone, ended>>

\* create_worker_spool_dir fails on a directory that exists.
CreateDir ==
  /\ phase = "swept"
  /\ phase' = IF pid \in dirs THEN "blocked" ELSE "serving"
  /\ dirs' = dirs \cup {pid}
  /\ UNCHANGED <<pid, kept, disk, stuck, free, pc, parts, held, owned, gone, ended>>

\* The drain is over, within its grace or not: remove_dir_all.
RemoveDir ==
  /\ phase = "serving" /\ phase' = "closed"
  /\ \/ disk' = {} /\ dirs' = dirs \ {pid}
     \/ disk' \in SUBSET disk /\ dirs' = dirs
  /\ stuck' = stuck \cap disk'
  /\ UNCHANGED <<pid, kept, free, pc, parts, held, owned, gone, ended>>

\* The process ends, in order or not.  Its directory stays if it is there.
Die ==
  /\ phase # "off" /\ phase' = "off" /\ pid' = NoPid /\ kept' = {}
  /\ disk' = {} /\ stuck' = {} /\ free' = Budget
  /\ pc' = Each("idle") /\ parts' = Each(<<>>) /\ held' = Each(0) /\ owned' = Each({})
  /\ gone' = Each(FALSE) /\ ended' = Each(FALSE)
  /\ UNCHANGED dirs

-----------------------------------------------------------------------------
(* Steps that several operations share.                                    *)

Up == phase \in {"serving", "closed"}

\* SpooledFile::unlink of every file of r, also of one that a script has moved
\* away; a failure is only logged.
Unlink(r) ==
  \E failed \in SUBSET (owned[r] \cap disk) :
    /\ disk' = disk \ (owned[r] \ failed)
    /\ stuck' = stuck \cup failed
    /\ owned' = [owned EXCEPT ![r] = {}]

ReturnBytes(r) == free' = free + held[r] /\ held' = [held EXCEPT ![r] = 0]

Goto(r, to) == pc' = [pc EXCEPT ![r] = to]

\* The request is dropped with all that it owns.
Drop(r) == Unlink(r) /\ ReturnBytes(r) /\ parts' = [parts EXCEPT ![r] = <<>>] /\ Goto(r, "done")

\* An answer of the plugin's own follows the drop.
Refuse(r) == Drop(r) /\ ended' = [ended EXCEPT ![r] = TRUE] /\ UNCHANGED <<server, gone>>

-----------------------------------------------------------------------------
(* The handler of a request.                                               *)

Begin(r) ==
  /\ phase = "serving" /\ pc[r] = "idle"
  /\ Goto(r, "reading")
  /\ UNCHANGED <<server, disk, stuck, free, parts, held, owned, gone, ended>>

\* A frame beyond max_body_size gives a 413.
Fits(r) == Len(parts[r]) + 1 <= MaxBody

\* Intake::grow_body reserves before the bytes are kept.
Reserve(r) == free > 0 /\ held' = [held EXCEPT ![r] = @ + 1] /\ free' = free - 1

\* A frame is one part: a file, a field, or one that no limit or grammar allows.
Frame(r) ==
  /\ Up /\ pc[r] = "reading"
  /\ IF Fits(r) /\ free > 0
     THEN /\ Reserve(r)
          /\ \E kind \in {"file", "field", "bad"} : parts' = [parts EXCEPT ![r] = Append(@, kind)]
          /\ UNCHANGED <<server, disk, stuck, pc, owned, gone, ended>>
     ELSE Refuse(r)

\* A stalled or failed read, a repeated content type, a bad boundary, or no room
\* for another body.
ReadFails(r) == Up /\ pc[r] = "reading" /\ Refuse(r)

\* Only a multipart body is parsed; a long one off the connection's task.
BodyEnds(r) ==
  /\ Up /\ pc[r] = "reading"
  /\ \/ Goto(r, "parsed")
     \/ parts[r] # <<>> /\ Goto(r, IF Len(parts[r]) <= InlineMax THEN "inline" ELSE "task")
  /\ UNCHANGED <<server, disk, stuck, free, parts, held, owned, gone, ended>>

Parsing(r) == Up /\ pc[r] \in {"inline", "task"}

\* parse_part, for the first file part that is not spooled yet.
Spool(r) ==
  /\ Parsing(r)
  /\ \E i \in DOMAIN parts[r] :
       /\ parts[r][i] = "file" /\ <<r, i>> \notin owned[r]
       /\ \A j \in 1 .. i - 1 : parts[r][j] = "field" \/ <<r, j>> \in owned[r]
       /\ \/ /\ Cardinality(owned[r]) < MaxFiles
             /\ pid \in dirs
             /\ disk' = disk \cup {<<r, i>>}
             /\ owned' = [owned EXCEPT ![r] = @ \cup {<<r, i>>}]
             /\ UNCHANGED <<server, stuck, free, pc, parts, held, gone, ended>>
          \/ Refuse(r) \* max_files, or the write fails

\* parse: a bad part drops the files before it, the last part ends it.  The
\* result of a task whose client left is dropped.
ParseEnds(r) ==
  /\ Parsing(r)
  /\ \/ "bad" \in {parts[r][i] : i \in DOMAIN parts[r]} /\ Refuse(r)
     \/ /\ \A i \in DOMAIN parts[r] : parts[r][i] = "field" \/ <<r, i>> \in owned[r]
        /\ IF gone[r] THEN Drop(r) /\ UNCHANGED <<server, gone, ended>>
           ELSE /\ Goto(r, "parsed")
                /\ UNCHANGED <<server, disk, stuck, free, parts, held, owned, gone, ended>>

\* Intake::submit queues the unit with its permits, or refuses it.
Submit(r) ==
  /\ Up /\ pc[r] = "parsed"
  /\ \/ Goto(r, "queued") /\ UNCHANGED <<server, disk, stuck, free, parts, held, owned, gone, ended>>
     \/ Refuse(r)

BrokenKeepsBytes(r) == pc[r] = "queued"

\* The blocking parse owns the permits with the body, and so does a queued unit.
KeepsBytes(r) == pc[r] \in {"task", "queued"}

\* The connection drops its future; a parse on it does not stop half way.
Leave(r) ==
  /\ Up /\ ~gone[r] /\ pc[r] \notin {"idle", "inline", "done"}
  /\ gone' = [gone EXCEPT ![r] = TRUE]
  /\ IF pc[r] \in {"reading", "parsed"} THEN Drop(r) /\ UNCHANGED <<server, ended>>
     ELSE /\ IF KeepsBytes(r) THEN UNCHANGED <<free, held>> ELSE ReturnBytes(r)
          /\ UNCHANGED <<server, disk, stuck, pc, parts, owned, ended>>

-----------------------------------------------------------------------------
(* The unit.                                                               *)

\* The permits end with the queue entry; the body is the script's from here on.
Dequeue(r) == ReturnBytes(r) /\ parts' = [parts EXCEPT ![r] = <<>>]

\* A unit whose client left is dropped,
\* as is the queue of a stopped pool.
Receive(r) ==
  /\ Up /\ pc[r] = "queued"
  /\ \/ /\ ~gone[r] /\ Dequeue(r) /\ Goto(r, "held")
        /\ UNCHANGED <<server, disk, stuck, owned, gone, ended>>
     \/ Drop(r) /\ UNCHANGED <<server, gone, ended>>

\* A boot that failed: Exchange::shed answers first and drops the request then.
Shed(r) ==
  /\ Up /\ pc[r] = "queued"
  /\ Dequeue(r) /\ Goto(r, "shed")
  /\ ended' = [ended EXCEPT ![r] = TRUE]
  /\ UNCHANGED <<server, disk, stuck, owned, gone>>

ShedDrops(r) ==
  /\ Up /\ pc[r] = "shed"
  /\ Drop(r)
  /\ UNCHANGED <<server, gone, ended>>

\* The script moves or removes a file itself.
MoveAway(r) ==
  /\ Up /\ pc[r] = "held"
  /\ \E f \in owned[r] \cap disk : disk' = disk \ {f}
  /\ UNCHANGED <<server, stuck, free, pc, parts, held, owned, gone, ended>>

BrokenRelease(r) == UNCHANGED <<disk, stuck, owned>>

\* seal, discard_unit, exchange_drop and the field order of ExchangeState all
\* remove the files before the reply ends.
Release(r) == Unlink(r)

EndUnit(r) ==
  /\ Up /\ pc[r] = "held"
  /\ Release(r) /\ Goto(r, "ending")
  /\ UNCHANGED <<server, free, parts, held, gone, ended>>

EndReply(r) ==
  /\ Up /\ pc[r] = "ending"
  /\ Goto(r, "done")
  /\ ended' = [ended EXCEPT ![r] = TRUE]
  /\ UNCHANGED <<server, disk, stuck, free, parts, held, owned, gone>>

Next ==
  \/ Start \/ CreateDir \/ RemoveDir \/ Die
  \/ \E r \in Reqs :
       \/ Begin(r) \/ Frame(r) \/ ReadFails(r) \/ BodyEnds(r) \/ Spool(r) \/ ParseEnds(r)
       \/ Submit(r) \/ Leave(r) \/ Receive(r) \/ Shed(r) \/ ShedDrops(r) \/ MoveAway(r)
       \/ EndUnit(r) \/ EndReply(r)

Spec == Init /\ [][Next]_vars

-----------------------------------------------------------------------------
(* Properties.                                                             *)

\* A spooled file is always some request's to remove, unless a removal of it
\* has failed; and the client sees no end of a reply before the files of its
\* unit are gone.  Only a shed unit answers first.
SpoolsHaveOwners ==
  \A f \in disk \ stuck :
    /\ f \in owned[f[1]]
    /\ ended[f[1]] => pc[f[1]] = "shed"

\* The budget covers every body in memory until a script has it, also one that a
\* blocking parse works on after its client left; and every permit returns.
BytesReserved ==
  /\ \A r \in Reqs : pc[r] \in {"reading", "inline", "task", "parsed", "queued"}
                      => held[r] >= Len(parts[r])
  /\ free + SumFunctionOnSet(held, Reqs) = Budget

\* What servers before it left behind, dead in whatever state and with whatever
\* id, keeps no server from its start: only a directory that could not be
\* removed does.
StartIsNotBlocked == phase = "blocked" => pid \in kept
=============================================================================
