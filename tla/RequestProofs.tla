---------------------------- MODULE RequestProofs ----------------------------
(***************************************************************************)
(* What a request takes and what it gives: the spooled files, the spool    *)
(* directories and the memory of Uploads, and the reply of CgiReply, for   *)
(* any number of requests, process ids, parts, bytes and status codes.     *)
(*                                                                         *)
(* Uploads: the inductive invariant has a part about the files, which says *)
(* when a request still owns some and when its client may have seen its    *)
(* end, a part about the directory of a server that starts, and one about  *)
(* the permits that bodies in memory hold.                                 *)
(*                                                                         *)
(* CgiReply: until a reply is sealed, the invariant relates the Context to *)
(* what the script has printed (OpenInv) and to what went wrong (BlameInv, *)
(* FaultInv, CleanInv); from then on what is on the wire is a part of one  *)
(* reply that is true to the history (WireInv), and the properties and the *)
(* refinement of FrameStream follow from the three shapes a reply can have.*)
(***************************************************************************)
EXTENDS Uploads, CgiReply, SumTheorems, SequenceTheorems, TLAPS

-----------------------------------------------------------------------------
(* UPLOADS: the invariant.                                                 *)

Kind  == {"file", "field", "bad"}
Place == {"idle", "reading", "inline", "task", "parsed", "queued", "held", "ending", "shed", "done"}

Typed ==
  /\ pc \in [Reqs -> Place]
  /\ parts \in [Reqs -> Seq(Kind)]
  /\ owned \in [Reqs -> SUBSET (Reqs \X Nat)]
  /\ ended \in [Reqs -> BOOLEAN]

\* A request owns only files of its own, and none when its unit is over.
OwnInv ==
  \A r \in Reqs :
    /\ \A f \in owned[r] : f[1] = r
    /\ pc[r] \in {"ending", "done"} => owned[r] = {}

\* A client has seen an end only of a shed unit and of one that is over.
EndInv == \A r \in Reqs : ended[r] => pc[r] \in {"shed", "done"}

\* What is on disk is owned, or its removal failed.
DiskInv == \A f \in disk \ stuck : f[1] \in Reqs /\ f \in owned[f[1]]

FileInv == Typed /\ OwnInv /\ EndInv /\ DiskInv

\* After the sweep a server's own directory is there only if it could not be
\* removed.
DirInv ==
  /\ phase = "swept" /\ pid \in dirs => pid \in kept
  /\ phase = "blocked" => pid \in kept

IInv == FileInv /\ DirInv

LEMMA InitKeeps == Init => IInv
BY DEF Init, IInv, FileInv, Typed, OwnInv, EndInv, DiskInv, DirInv, Each, Place, Kind

-----------------------------------------------------------------------------
(* The files.                                                              *)

\* A request moves on; neither its files nor the disk change with it.
LEMMA MoveKeepsFiles ==
  ASSUME FileInv, NEW r \in Reqs, NEW p \in Place, Goto(r, p),
         UNCHANGED <<disk, stuck, owned>>,
         parts' \in [Reqs -> Seq(Kind)],
         \/ ended' = ended /\ (ended[r] => p \in {"shed", "done"})
         \/ p \in {"shed", "done"} /\ ended' = [ended EXCEPT ![r] = TRUE],
         p \in {"ending", "done"} => pc[r] \in {"ending", "done"}
  PROVE  FileInv'
<1>1. pc' \in [Reqs -> Place] /\ pc'[r] = p /\ \A q \in Reqs \ {r} : pc'[q] = pc[q]
  BY DEF FileInv, Typed, Goto
<1>2. ended' \in [Reqs -> BOOLEAN] /\ \A q \in Reqs \ {r} : ended'[q] = ended[q]
  BY DEF FileInv, Typed
<1>3. Typed'
  BY <1>1, <1>2 DEF FileInv, Typed
<1>4. OwnInv'
  BY <1>1 DEF FileInv, OwnInv
<1>5. EndInv'
  <2>1. ended'[r] => p \in {"shed", "done"}
    OBVIOUS
  <2> QED
    BY <1>1, <1>2, <2>1 DEF FileInv, EndInv
<1>6. DiskInv'
  BY DEF FileInv, DiskInv
<1> QED
  BY <1>3, <1>4, <1>5, <1>6 DEF FileInv

\* The files of a request are unlinked, wherever it goes.
LEMMA UnlinkKeepsFiles ==
  ASSUME FileInv, NEW r \in Reqs, NEW p \in Place, Goto(r, p), Unlink(r),
         parts' \in [Reqs -> Seq(Kind)],
         \/ ended' = ended /\ (ended[r] => p \in {"shed", "done"})
         \/ p \in {"shed", "done"} /\ ended' = [ended EXCEPT ![r] = TRUE]
  PROVE  FileInv'
<1>1. pc' \in [Reqs -> Place] /\ pc'[r] = p /\ \A q \in Reqs \ {r} : pc'[q] = pc[q]
  BY DEF FileInv, Typed, Goto
<1>2. ended' \in [Reqs -> BOOLEAN] /\ \A q \in Reqs \ {r} : ended'[q] = ended[q]
  BY DEF FileInv, Typed
<1>3. PICK failed \in SUBSET (owned[r] \cap disk) :
        /\ disk' = disk \ (owned[r] \ failed)
        /\ stuck' = stuck \cup failed
        /\ owned' = [owned EXCEPT ![r] = {}]
  BY DEF Unlink
<1>4. owned' \in [Reqs -> SUBSET (Reqs \X Nat)] /\ owned'[r] = {}
      /\ \A q \in Reqs \ {r} : owned'[q] = owned[q]
  BY <1>3 DEF FileInv, Typed
<1>5. Typed'
  BY <1>1, <1>2, <1>4 DEF FileInv, Typed
<1>6. OwnInv'
  BY <1>1, <1>4 DEF FileInv, OwnInv
<1>7. EndInv'
  <2>1. ended'[r] => p \in {"shed", "done"}
    OBVIOUS
  <2> QED
    BY <1>1, <1>2, <2>1 DEF FileInv, EndInv
<1>8. DiskInv'
  <2> SUFFICES ASSUME NEW f \in disk' \ stuck'
               PROVE  f[1] \in Reqs /\ f \in owned'[f[1]]
    BY DEF DiskInv
  <2>1. f \in disk \ stuck /\ f \notin owned[r]
    BY <1>3
  <2>2. f[1] \in Reqs /\ f \in owned[f[1]] /\ f[1] # r
    BY <2>1 DEF FileInv, DiskInv
  <2> QED
    BY <1>4, <2>2
<1> QED
  BY <1>5, <1>6, <1>7, <1>8 DEF FileInv

LEMMA DropKeepsFiles ==
  ASSUME FileInv, NEW r \in Reqs, Drop(r),
         ended' = ended \/ ended' = [ended EXCEPT ![r] = TRUE]
  PROVE  FileInv'
<1>1. parts' \in [Reqs -> Seq(Kind)]
  BY DEF Drop, FileInv, Typed
<1> QED
  BY <1>1, UnlinkKeepsFiles DEF Drop, Place

LEMMA RefuseKeepsFiles ==
  ASSUME FileInv, NEW r \in Reqs, Refuse(r)
  PROVE  FileInv'
BY DropKeepsFiles DEF Refuse

LEMMA FrameKeepsFiles ==
  ASSUME FileInv, NEW r \in Reqs, Frame(r)
  PROVE  FileInv'
<1>1. CASE Fits(r) /\ free > 0
  <2>1. UNCHANGED <<disk, stuck, pc, owned, ended>>
    BY <1>1 DEF Frame
  <2>2. PICK kind \in Kind : parts' = [parts EXCEPT ![r] = Append(@, kind)]
    BY <1>1 DEF Frame, Kind
  <2>3. parts[r] \in Seq(Kind)
    BY DEF FileInv, Typed
  <2>4. Append(parts[r], kind) \in Seq(Kind)
    BY <2>3
  <2>5. parts' \in [Reqs -> Seq(Kind)]
    BY <2>2, <2>4 DEF FileInv, Typed
  <2> QED
    BY <2>1, <2>5 DEF FileInv, Typed, OwnInv, EndInv, DiskInv
<1>2. CASE ~(Fits(r) /\ free > 0)
  BY <1>2, RefuseKeepsFiles DEF Frame
<1> QED
  BY <1>1, <1>2

\* A new file is owned from its first byte.
LEMMA SpoolKeepsFiles ==
  ASSUME FileInv, NEW r \in Reqs, Spool(r)
  PROVE  FileInv'
<1>1. PICK i \in DOMAIN parts[r] :
        \/ /\ disk' = disk \cup {<<r, i>>}
           /\ owned' = [owned EXCEPT ![r] = @ \cup {<<r, i>>}]
           /\ UNCHANGED <<stuck, pc, parts, ended>>
        \/ Refuse(r)
  BY DEF Spool
<1>2. CASE Refuse(r)
  BY <1>2, RefuseKeepsFiles
<1>3. CASE ~Refuse(r)
  <2> DEFINE f == <<r, i>>
  <2>1. /\ disk' = disk \cup {f}
        /\ owned' = [owned EXCEPT ![r] = @ \cup {f}]
        /\ UNCHANGED <<stuck, pc, parts, ended>>
    BY <1>1, <1>3
  <2>2. parts[r] \in Seq(Kind)
    BY DEF FileInv, Typed
  <2>3. f \in Reqs \X Nat /\ f[1] = r
    BY <2>2
  <2> HIDE DEF f
  <2>4. owned' \in [Reqs -> SUBSET (Reqs \X Nat)] /\ owned'[r] = owned[r] \cup {f}
        /\ \A q \in Reqs \ {r} : owned'[q] = owned[q]
    BY <2>1, <2>3 DEF FileInv, Typed
  <2>5. pc[r] \in {"inline", "task"}
    BY DEF Spool, Parsing
  <2>6. Typed'
    BY <2>1, <2>4 DEF FileInv, Typed
  <2>7. OwnInv'
    BY <2>1, <2>3, <2>4, <2>5 DEF FileInv, OwnInv
  <2>8. EndInv'
    BY <2>1 DEF FileInv, EndInv
  <2>9. DiskInv'
    BY <2>1, <2>3, <2>4 DEF FileInv, DiskInv
  <2> QED
    BY <2>6, <2>7, <2>8, <2>9 DEF FileInv
<1> QED
  BY <1>2, <1>3

\* Whatever a request does.
LEMMA RequestKeepsFiles ==
  ASSUME FileInv, NEW r \in Reqs,
         \/ Begin(r) \/ Frame(r) \/ ReadFails(r) \/ BodyEnds(r) \/ Spool(r) \/ ParseEnds(r)
         \/ Submit(r) \/ Leave(r) \/ Receive(r) \/ Shed(r) \/ ShedDrops(r) \/ MoveAway(r)
         \/ EndUnit(r) \/ EndReply(r)
  PROVE  FileInv'
<1> USE DEF Place
<1>0. parts \in [Reqs -> Seq(Kind)] /\ (ended[r] => pc[r] \in {"shed", "done"})
  BY DEF FileInv, Typed, EndInv
<1>1. CASE Begin(r)
  BY <1>0, <1>1, MoveKeepsFiles DEF Begin
<1>2. CASE Frame(r)
  BY <1>2, FrameKeepsFiles
<1>3. CASE ReadFails(r)
  BY <1>3, RefuseKeepsFiles DEF ReadFails
<1>4. CASE BodyEnds(r)
  <2>1. PICK p \in {"parsed", "inline", "task"} : Goto(r, p)
    BY <1>4 DEF BodyEnds
  <2> QED
    BY <1>0, <1>4, <2>1, MoveKeepsFiles DEF BodyEnds
<1>5. CASE Spool(r)
  BY <1>5, SpoolKeepsFiles
<1>6. CASE ParseEnds(r)
  <2>1. CASE Refuse(r)
    BY <2>1, RefuseKeepsFiles
  <2>2. CASE Drop(r) /\ UNCHANGED ended
    BY <2>2, DropKeepsFiles
  <2>3. CASE Goto(r, "parsed") /\ UNCHANGED <<disk, stuck, parts, owned, ended>>
    BY <1>0, <1>6, <2>3, MoveKeepsFiles DEF ParseEnds, Parsing
  <2> QED
    BY <1>6, <2>1, <2>2, <2>3 DEF ParseEnds
<1>7. CASE Submit(r)
  <2>1. CASE Refuse(r)
    BY <2>1, RefuseKeepsFiles
  <2>2. CASE Goto(r, "queued") /\ UNCHANGED <<disk, stuck, parts, owned, ended>>
    BY <1>0, <1>7, <2>2, MoveKeepsFiles DEF Submit
  <2> QED
    BY <1>7, <2>1, <2>2 DEF Submit
<1>8. CASE Leave(r)
  <2>1. CASE pc[r] \in {"reading", "parsed"}
    BY <1>8, <2>1, DropKeepsFiles DEF Leave
  <2>2. CASE pc[r] \notin {"reading", "parsed"}
    BY <1>8, <2>2 DEF Leave, FileInv, Typed, OwnInv, EndInv, DiskInv
  <2> QED
    BY <2>1, <2>2
<1>9. CASE Receive(r)
  <2>1. CASE Drop(r) /\ UNCHANGED ended
    BY <2>1, DropKeepsFiles
  <2>2. CASE Dequeue(r) /\ Goto(r, "held") /\ UNCHANGED <<disk, stuck, owned, ended>>
    <3>1. parts' \in [Reqs -> Seq(Kind)]
      BY <1>0, <2>2 DEF Dequeue
    <3> QED
      BY <1>0, <1>9, <2>2, <3>1, MoveKeepsFiles DEF Receive
  <2> QED
    BY <1>9, <2>1, <2>2 DEF Receive
<1>10. CASE Shed(r)
  <2>1. parts' \in [Reqs -> Seq(Kind)]
    BY <1>0, <1>10 DEF Shed, Dequeue
  <2> QED
    BY <1>10, <2>1, MoveKeepsFiles DEF Shed
<1>11. CASE ShedDrops(r)
  BY <1>11, DropKeepsFiles DEF ShedDrops
<1>12. CASE MoveAway(r)
  BY <1>12 DEF MoveAway, FileInv, Typed, OwnInv, EndInv, DiskInv
<1>13. CASE EndUnit(r)
  BY <1>0, <1>13, UnlinkKeepsFiles DEF EndUnit, Release
<1>14. CASE EndReply(r)
  BY <1>0, <1>14, MoveKeepsFiles DEF EndReply
<1> QED
  BY <1>1, <1>2, <1>3, <1>4, <1>5, <1>6, <1>7, <1>8, <1>9, <1>10, <1>11, <1>12, <1>13, <1>14

LEMMA NextKeepsFiles ==
  ASSUME FileInv, [Next]_vars
  PROVE  FileInv'
<1>1. CASE Start \/ CreateDir
  BY <1>1 DEF Start, CreateDir, FileInv, Typed, OwnInv, EndInv, DiskInv
<1>2. CASE RemoveDir
  <2>1. disk' \subseteq disk /\ stuck' = stuck \cap disk'
        /\ UNCHANGED <<pc, parts, owned, ended>>
    BY <1>2 DEF RemoveDir
  <2> QED
    BY <2>1 DEF FileInv, Typed, OwnInv, EndInv, DiskInv
<1>3. CASE Die
  BY <1>3 DEF Die, FileInv, Typed, OwnInv, EndInv, DiskInv, Each, Place, Kind
<1>4. CASE UNCHANGED vars
  BY <1>4 DEF vars, FileInv, Typed, OwnInv, EndInv, DiskInv
<1> QED
  BY <1>1, <1>2, <1>3, <1>4, RequestKeepsFiles DEF Next

-----------------------------------------------------------------------------
(* The directory.                                                          *)

\* A directory of the server's own id is always its to sweep.
LEMMA StartKeepsDir ==
  ASSUME Start
  PROVE  DirInv'
<1>1. PICK me \in Pids, living \in SUBSET Pids, failed \in SUBSET dirs :
        LET old == {p \in dirs : Reclaimable(p, me, living)}
        IN  pid' = me /\ kept' = failed /\ dirs' = (dirs \ old) \cup failed
  BY DEF Start
<1>2. Reclaimable(me, me, living)
  BY DEF Reclaimable
<1>3. pid' \in dirs' => pid' \in kept'
  BY <1>1, <1>2
<1> QED
  BY <1>3 DEF Start, DirInv

LEMMA NextKeepsDir ==
  ASSUME DirInv, [Next]_vars
  PROVE  DirInv'
<1>1. CASE Start
  BY <1>1, StartKeepsDir
<1>2. CASE CreateDir \/ RemoveDir \/ Die
  BY <1>2 DEF CreateDir, RemoveDir, Die, DirInv
<1>3. ASSUME NEW r \in Reqs,
             \/ Begin(r) \/ Frame(r) \/ ReadFails(r) \/ BodyEnds(r) \/ Spool(r) \/ ParseEnds(r)
             \/ Submit(r) \/ Leave(r) \/ Receive(r) \/ Shed(r) \/ ShedDrops(r) \/ MoveAway(r)
             \/ EndUnit(r) \/ EndReply(r)
      PROVE  UNCHANGED server
  BY <1>3 DEF Begin, Frame, ReadFails, BodyEnds, Spool, ParseEnds, Submit, Leave, Receive, Shed,
     ShedDrops, MoveAway, EndUnit, EndReply, Refuse
<1>4. CASE UNCHANGED server
  BY <1>4 DEF server, DirInv
<1>5. CASE UNCHANGED vars
  BY <1>4, <1>5 DEF vars
<1> QED
  BY <1>1, <1>2, <1>3, <1>4, <1>5 DEF Next

-----------------------------------------------------------------------------
(* The bytes of the bodies.                                                *)

BytesTyped == held \in [Reqs -> Nat] /\ free \in Nat

\* Where a body is in memory, or may come into it.
Buffered == {"idle", "reading", "inline", "task", "parsed", "queued"}

Covered(r) == pc[r] \in Buffered => held[r] >= Len(parts[r])

ByteInv ==
  /\ BytesTyped
  /\ free + SumFunctionOnSet(held, Reqs) = Budget
  /\ \A r \in Reqs : Covered(r)

LEMMA NothingHeld ==
  ASSUME NEW h, h = Each(0)
  PROVE  h \in [Reqs -> Nat] /\ SumFunctionOnSet(h, Reqs) = 0
<1>1. h \in [Reqs -> Nat] /\ \A r \in Reqs : h[r] = 0
  BY DEF Each
<1> QED
  BY <1>1, UploadConstants, SumOfZeros

LEMMA InitKeepsBytes == Init => ByteInv
<1> SUFFICES ASSUME Init PROVE ByteInv
  OBVIOUS
<1>1. held \in [Reqs -> Nat] /\ SumFunctionOnSet(held, Reqs) = 0
  BY NothingHeld DEF Init
<1>2. \A r \in Reqs : Len(parts[r]) = 0 /\ held[r] = 0
  BY DEF Init, Each
<1>3. free = Budget /\ Budget \in Nat
  BY UploadConstants DEF Init
<1> QED
  BY <1>1, <1>2, <1>3 DEF ByteInv, BytesTyped, Covered

\* A step changes the body and the permits of one request at a time.
OthersKeep(r) ==
  \A q \in Reqs \ {r} : pc'[q] = pc[q] /\ parts'[q] = parts[q] /\ held'[q] = held[q]

LEMMA BytesMove ==
  ASSUME ByteInv, NEW r \in Reqs, OthersKeep(r),
         held' \in [Reqs -> Nat], free' \in Nat, free' + held'[r] = free + held[r],
         Covered(r)'
  PROVE  ByteInv'
<1>1. /\ IsFiniteSet(Reqs) /\ free \in Nat
      /\ \A q \in Reqs : held[q] \in Int /\ held'[q] \in Int
      /\ \A q \in Reqs \ {r} : held'[q] = held[q]
  BY UploadConstants DEF ByteInv, BytesTyped, OthersKeep
<1>2. SumFunctionOnSet(held', Reqs) = SumFunctionOnSet(held, Reqs) + (held'[r] - held[r])
  BY <1>1, SumChange
<1>3. SumFunctionOnSet(held, Reqs) \in Int
  BY <1>1, SumInt
<1>4. free' + SumFunctionOnSet(held', Reqs) = Budget
  BY <1>1, <1>2, <1>3 DEF ByteInv
<1>5. ASSUME NEW q \in Reqs \ {r}
      PROVE  Covered(q)'
  BY DEF Covered, OthersKeep, ByteInv
<1> QED
  BY <1>4, <1>5 DEF ByteInv, BytesTyped

\* Permits go back when the body is gone, or is the script's.
LEMMA ReturnKeepsBytes ==
  ASSUME FileInv, ByteInv, NEW r \in Reqs, ReturnBytes(r), NEW p \in Place, Goto(r, p),
         p \notin Buffered \/ parts'[r] = <<>>, \A q \in Reqs \ {r} : parts'[q] = parts[q]
  PROVE  ByteInv'
<1>1. held \in [Reqs -> Nat] /\ free \in Nat
  BY DEF ByteInv, BytesTyped
<1>2. /\ held' \in [Reqs -> Nat] /\ \A q \in Reqs \ {r} : held'[q] = held[q]
      /\ held'[r] = 0 /\ free' \in Nat /\ free' + held'[r] = free + held[r]
  BY <1>1 DEF ReturnBytes
<1>3. pc'[r] = p /\ \A q \in Reqs \ {r} : pc'[q] = pc[q]
  BY DEF FileInv, Typed, Goto
<1>4. OthersKeep(r)
  BY <1>2, <1>3 DEF OthersKeep
<1>5. Covered(r)'
  BY <1>2, <1>3 DEF Covered
<1> QED
  BY <1>2, <1>4, <1>5, BytesMove

LEMMA DropKeepsBytes ==
  ASSUME FileInv, ByteInv, NEW r \in Reqs, Drop(r)
  PROVE  ByteInv'
<1>1. \A q \in Reqs \ {r} : parts'[q] = parts[q]
  BY DEF Drop, FileInv, Typed
<1> QED
  BY <1>1, ReturnKeepsBytes DEF Drop, Place, Buffered

LEMMA RefuseKeepsBytes ==
  ASSUME FileInv, ByteInv, NEW r \in Reqs, Refuse(r)
  PROVE  ByteInv'
BY DropKeepsBytes DEF Refuse

LEMMA DequeueKeepsBytes ==
  ASSUME FileInv, ByteInv, NEW r \in Reqs, Dequeue(r), NEW p \in Place, Goto(r, p)
  PROVE  ByteInv'
<1>1. parts'[r] = <<>> /\ \A q \in Reqs \ {r} : parts'[q] = parts[q]
  BY DEF Dequeue, FileInv, Typed
<1> QED
  BY <1>1, ReturnKeepsBytes DEF Dequeue

\* The body goes on with its permits, or is out of memory.
LEMMA MoveKeepsBytes ==
  ASSUME FileInv, ByteInv, NEW r \in Reqs, UNCHANGED <<free, held, parts>>,
         NEW p \in Place, Goto(r, p), p \in Buffered => pc[r] \in Buffered
  PROVE  ByteInv'
<1>1. pc'[r] = p /\ \A q \in Reqs \ {r} : pc'[q] = pc[q]
  BY DEF FileInv, Typed, Goto
<1>2. OthersKeep(r) /\ Covered(r)'
  BY <1>1 DEF OthersKeep, Covered, ByteInv
<1> QED
  BY <1>1, <1>2 DEF ByteInv, BytesTyped, OthersKeep, Covered

LEMMA SameKeepsBytes ==
  ASSUME ByteInv, UNCHANGED <<free, held, parts, pc>>
  PROVE  ByteInv'
BY DEF ByteInv, BytesTyped, Covered

\* A permit is taken for a part before the part is kept.
LEMMA FrameKeepsBytes ==
  ASSUME FileInv, ByteInv, NEW r \in Reqs, Frame(r)
  PROVE  ByteInv'
<1>1. CASE Refuse(r)
  BY <1>1, RefuseKeepsBytes
<1>2. CASE Fits(r) /\ free > 0
  <2>1. /\ Reserve(r) /\ pc' = pc
        /\ \E kind \in Kind : parts' = [parts EXCEPT ![r] = Append(@, kind)]
    BY <1>2 DEF Frame, Kind
  <2>2. PICK kind \in Kind : parts' = [parts EXCEPT ![r] = Append(@, kind)]
    BY <2>1
  <2>3. held \in [Reqs -> Nat] /\ free \in Nat /\ held[r] \in Nat
    BY DEF ByteInv, BytesTyped
  <2>4. /\ held' \in [Reqs -> Nat] /\ \A q \in Reqs \ {r} : held'[q] = held[q]
        /\ held'[r] = held[r] + 1 /\ free' \in Nat /\ free' + held'[r] = free + held[r]
    BY <2>1, <2>3 DEF Reserve
  <2>5. parts[r] \in Seq(Kind)
    BY DEF FileInv, Typed
  <2>6. /\ Len(parts[r]) \in Nat /\ Len(Append(parts[r], kind)) = Len(parts[r]) + 1
    BY <2>5
  <2>7. /\ Len(parts'[r]) = Len(parts[r]) + 1
        /\ \A q \in Reqs \ {r} : parts'[q] = parts[q]
    BY <2>2, <2>6 DEF FileInv, Typed
  <2>8. pc[r] = "reading" /\ held[r] >= Len(parts[r])
    BY DEF Frame, ByteInv, Covered, Buffered
  <2>9. Covered(r)'
    BY <2>3, <2>4, <2>6, <2>7, <2>8 DEF Covered
  <2>10. OthersKeep(r)
    BY <2>1, <2>4, <2>7 DEF OthersKeep
  <2> QED
    BY <2>4, <2>9, <2>10, BytesMove
<1> QED
  BY <1>1, <1>2 DEF Frame

LEMMA LeaveKeepsBytes ==
  ASSUME FileInv, ByteInv, NEW r \in Reqs, Leave(r)
  PROVE  ByteInv'
<1>1. CASE Drop(r)
  BY <1>1, DropKeepsBytes
<1>2. CASE UNCHANGED <<free, held, pc, parts>>
  BY <1>2, SameKeepsBytes
<1>3. CASE /\ pc[r] \notin {"idle", "inline", "done", "reading", "parsed", "task", "queued"}
           /\ ReturnBytes(r) /\ UNCHANGED <<pc, parts>>
  <2>1. pc[r] \in Place /\ Goto(r, pc[r]) /\ pc[r] \notin Buffered
    BY <1>3 DEF FileInv, Typed, Goto, Buffered
  <2> QED
    BY <1>3, <2>1, ReturnKeepsBytes
<1> QED
  BY <1>1, <1>2, <1>3 DEF Leave, KeepsBytes

LEMMA RequestKeepsBytes ==
  ASSUME FileInv, ByteInv, NEW r \in Reqs,
         \/ Begin(r) \/ Frame(r) \/ ReadFails(r) \/ BodyEnds(r) \/ Spool(r) \/ ParseEnds(r)
         \/ Submit(r) \/ Leave(r) \/ Receive(r) \/ Shed(r) \/ ShedDrops(r) \/ MoveAway(r)
         \/ EndUnit(r) \/ EndReply(r)
  PROVE  ByteInv'
<1> USE DEF Place, Buffered
<1>1. CASE Refuse(r) \/ Drop(r)
  BY <1>1, RefuseKeepsBytes, DropKeepsBytes
<1>2. CASE Frame(r)
  BY <1>2, FrameKeepsBytes
<1>3. CASE Leave(r)
  BY <1>3, LeaveKeepsBytes
<1>4. CASE Begin(r)
  BY <1>4, MoveKeepsBytes DEF Begin
<1>5. CASE BodyEnds(r)
  <2>1. PICK p \in {"parsed", "inline", "task"} : Goto(r, p)
    BY <1>5 DEF BodyEnds
  <2> QED
    BY <1>5, <2>1, MoveKeepsBytes DEF BodyEnds
<1>6. CASE Spool(r) \/ MoveAway(r)
  BY <1>1, <1>6, SameKeepsBytes DEF Spool, MoveAway
<1>7. CASE ParseEnds(r)
  BY <1>1, <1>7, MoveKeepsBytes DEF ParseEnds, Parsing
<1>8. CASE Submit(r)
  BY <1>1, <1>8, MoveKeepsBytes DEF Submit
<1>9. CASE Receive(r)
  BY <1>1, <1>9, DequeueKeepsBytes DEF Receive
<1>10. CASE Shed(r)
  BY <1>10, DequeueKeepsBytes DEF Shed
<1>11. CASE EndUnit(r)
  BY <1>11, MoveKeepsBytes DEF EndUnit
<1>12. CASE EndReply(r)
  BY <1>12, MoveKeepsBytes DEF EndReply
<1>13. CASE ReadFails(r) \/ ShedDrops(r)
  BY <1>1, <1>13 DEF ReadFails, ShedDrops
<1> QED
  BY <1>2, <1>3, <1>4, <1>5, <1>6, <1>7, <1>8, <1>9, <1>10, <1>11, <1>12, <1>13

LEMMA NextKeepsBytes ==
  ASSUME FileInv, ByteInv, [Next]_vars
  PROVE  ByteInv'
<1>1. CASE Start \/ CreateDir \/ RemoveDir \/ UNCHANGED vars
  BY <1>1, SameKeepsBytes DEF Start, CreateDir, RemoveDir, vars
<1>2. CASE Die
  <2>1. held' = Each(0) /\ parts' = Each(<<>>) /\ free' = Budget
    BY <1>2 DEF Die
  <2>2. held' \in [Reqs -> Nat] /\ SumFunctionOnSet(held', Reqs) = 0
    BY <2>1, NothingHeld
  <2>3. \A r \in Reqs : Len(parts'[r]) = 0 /\ held'[r] = 0
    BY <2>1 DEF Each
  <2> QED
    BY <2>1, <2>2, <2>3, UploadConstants DEF ByteInv, BytesTyped, Covered
<1> QED
  BY <1>1, <1>2, RequestKeepsBytes DEF Next

-----------------------------------------------------------------------------
(* The theorems.                                                           *)

\* The inductive invariant holds of every behaviour (multipart.rs, php/mod.rs).
THEOREM UploadsInvariance == Spec => []IInv
<1>1. IInv /\ [Next]_vars => IInv'
  BY NextKeepsFiles, NextKeepsDir DEF IInv
<1> QED
  BY InitKeeps, <1>1, PTL DEF Spec

\* No spooled file outlives its owner unless its removal failed, and no client
\* sees an end before its files are gone: the drops of SpooledFile, of a unit
\* and of a blocking parse whose client left (multipart.rs, php/respond.rs,
\* sapi/types.rs), for any number of requests and files.
THEOREM SpoolsAreRemoved == Spec => []SpoolsHaveOwners
<1>1. IInv => SpoolsHaveOwners
  <2> SUFFICES ASSUME FileInv, NEW f \in disk \ stuck
               PROVE  f \in owned[f[1]] /\ (ended[f[1]] => pc[f[1]] = "shed")
    BY DEF IInv, SpoolsHaveOwners
  <2> DEFINE r == f[1]
  <2>1. r \in Reqs /\ f \in owned[r]
    BY DEF FileInv, DiskInv
  <2>2. pc[r] # "done"
    BY <2>1 DEF FileInv, OwnInv
  <2> QED
    BY <2>1, <2>2 DEF FileInv, EndInv
<1> QED
  BY <1>1, UploadsInvariance, PTL

\* Only a directory that could not be removed keeps a server from its start,
\* whatever the servers before it left and whatever ids come back (serve.rs,
\* multipart.rs).
THEOREM StartsAreNotBlocked == Spec => []StartIsNotBlocked
<1>1. IInv => StartIsNotBlocked
  BY DEF IInv, DirInv, StartIsNotBlocked
<1> QED
  BY <1>1, UploadsInvariance, PTL

\* The permits of the body budget cover every body in memory, also that of a
\* client who left while a blocking parse works on it, and each returns once,
\* whichever of refusal, departure, dequeue or drop comes first (handler.rs,
\* multipart.rs, php/respond.rs), for any number of requests and parts.
THEOREM BodiesAreCovered == Spec => []BytesReserved
<1>1. ByteInv => BytesReserved
  BY DEF ByteInv, Covered, Buffered, BytesReserved
<1>2. IInv /\ ByteInv /\ [Next]_vars => ByteInv'
  BY NextKeepsBytes DEF IInv
<1>3. Spec => []ByteInv
  BY InitKeepsBytes, <1>2, UploadsInvariance, PTL DEF Spec
<1> QED
  BY <1>1, <1>3, PTL

-----------------------------------------------------------------------------
(* CGI REPLY: the invariant.                                               *)

Stages == {"idle", "script", "shutdown", "flush", "teardown", "seal", "after"}

Contexts ==
  [head : Nat \cup {NoHead}, body : Nat, stream : {"NotSent", "HeadSent", "BodyStreamed"},
   tearing_down : BOOLEAN, errored : BOOLEAN, sender : BOOLEAN, head_method : BOOLEAN]

Globals == [code : Nat, field : Nat, headers_sent : BOOLEAN, ob : Nat, fatal : BOOLEAN]

Histories ==
  [printed : Int, early : Nat, chosen : SUBSET Nat, fault : BOOLEAN, own : BOOLEAN,
   sealer : {"none", "abort", "script", "end", "shed"}, event : {"none", "ok", "errored"}]

HeadFrames == [kind : {"head"}, status : Nat, bodiless : BOOLEAN, length : Nat \cup {Unknown}]
ChunkFrames == [kind : {"chunk"}, bytes : Nat \ {0}]
EndFrames == [kind : {"end"}, truncated : BOOLEAN]
AnyFrame == HeadFrames \cup ChunkFrames \cup EndFrames

ReplyTyped ==
  /\ mode \in {"classic", "worker"} /\ stage \in Stages
  /\ sg \in Globals /\ cx \in Contexts /\ past \in Histories
  /\ outcome \in {"ok", "throw", "bailout"} /\ recycle \in BOOLEAN /\ left \in BOOLEAN
  /\ frames \in Seq(AnyFrame) /\ todo \in Seq(AnyFrame)

\* What the engine, the Context and the executor hold against a request is its
\* own doing.
BlameInv ==
  stage # "idle" =>
    /\ sg.fatal \/ cx.errored \/ outcome # "ok" \/ recycle => past.own
    /\ HeadStatus(sg.code) \in past.chosen \/ past.own
    /\ sg.field \in 100 .. 599 => sg.field \in past.chosen

\* What a stage starts without.
CleanInv ==
  /\ stage \in {"idle", "script"} => ~sg.fatal
  /\ stage \in {"idle", "script", "shutdown"} => ~recycle
  /\ stage = "seal" => sg.ob = 0
  /\ past.event = "errored" => past.own

\* A reply that nothing has sealed yet.
Open == stage # "idle" /\ cx.sender

\* A failed script is on record until its reply is sealed.
FaultInv ==
  /\ stage = "script" => ~past.fault /\ ~cx.tearing_down
  /\ past.fault /\ Open =>
       /\ mode = "classic" \/ stage \in {"flush", "teardown", "seal"} => cx.errored
       /\ mode = "worker" /\ stage = "shutdown" => outcome # "ok"

\* Until then what was printed is in the Context or in an output buffer.
OpenInv ==
  Open =>
    /\ frames = <<>> /\ todo = <<>>
    /\ past.sealer = "none"
    /\ past.printed = cx.body + sg.ob
    /\ cx.head_method => sg.ob = 0
    /\ past.early > 0 => cx.stream = "BodyStreamed"
    /\ cx.head = NoHead \/ cx.head \in past.chosen \/ past.own

\* The replies that finish() makes.
Shape(w) ==
  \/ Len(w) = 1 /\ w[1] \in EndFrames
  \/ Len(w) = 2 /\ w[1] \in HeadFrames /\ w[2] \in EndFrames
  \/ /\ Len(w) = 3 /\ w[1] \in HeadFrames /\ w[2] \in ChunkFrames /\ w[3] \in EndFrames
     /\ w[1].length # Unknown => w[2].bytes <= w[1].length

\* f is what has been sent of the reply w.
Prefix(f, w) == Len(f) <= Len(w) /\ \A i \in 1 .. Len(f) : f[i] = w[i]

\* The frames sent, and those to be sent to a client that is there, make up w.
Carries(w) ==
  /\ Prefix(frames, w)
  /\ ~left => /\ Len(frames) + Len(todo) = Len(w)
              /\ \A i \in 1 .. Len(todo) : todo[i] = w[Len(frames) + i]

CutAtEnd(w) == w[Len(w)].truncated
BytesIn(w) == IF Len(w) = 3 THEN w[2].bytes ELSE 0

\* The reply w is true to the history p of its request.
Tells(w, p) ==
  /\ CutAtEnd(w) => p.own \/ p.sealer = "abort"
  /\ Len(w) >= 2 => w[1].status \in p.chosen \/ p.own
  /\ Len(w) >= 2 /\ ~CutAtEnd(w) => p.printed = BytesIn(w)
  /\ p.fault /\ p.early > 0 /\ p.sealer = "end" => CutAtEnd(w)

\* What is on the wire belongs to the reply w, which is true unless nobody saw
\* any of it.
Underway(w) ==
  /\ w \in Seq(AnyFrame) /\ Shape(w) /\ Carries(w)
  /\ Tells(w, past) \/ (left /\ frames = <<>>)

WireInv ==
  \/ frames = <<>> /\ todo = <<>>
  \/ \E w : Underway(w)

ReplyInv == ReplyTyped /\ BlameInv /\ CleanInv /\ FaultInv /\ OpenInv /\ WireInv

LEMMA ReplyInitKeeps == ReplyInit => ReplyInv
<1> SUFFICES ASSUME ReplyInit
             PROVE  ReplyInv
  OBVIOUS
<1>1. ReplyTyped
  <2>1. NewContext(FALSE) \in Contexts
    BY DEF NewContext, Contexts
  <2>2. cx \in Contexts
    BY <2>1 DEF ReplyInit, Contexts
  <2>3. sg \in Globals /\ past \in Histories
    BY DEF ReplyInit, Fresh, Globals, NewPast, Histories
  <2>4. frames \in Seq(AnyFrame) /\ todo \in Seq(AnyFrame)
    BY DEF ReplyInit
  <2>5. stage \in Stages
    BY DEF ReplyInit, Stages
  <2> QED
    BY <2>2, <2>3, <2>4, <2>5 DEF ReplyInit, ReplyTyped
<1>2. BlameInv /\ FaultInv /\ OpenInv /\ WireInv
  BY DEF ReplyInit, BlameInv, FaultInv, OpenInv, WireInv, Open
<1>3. CleanInv
  BY DEF ReplyInit, CleanInv, Fresh, NewPast
<1> QED
  BY <1>1, <1>2, <1>3 DEF ReplyInv

-----------------------------------------------------------------------------
(* The replies.                                                            *)

LEMMA HeadFrameType ==
  ASSUME NEW c \in Contexts, c.head # NoHead, NEW t \in BOOLEAN
  PROVE  /\ HeadFrame(c, t) \in HeadFrames
         /\ HeadFrame(c, t).status = c.head
         /\ HeadFrame(c, t).length \in {Unknown, c.body}
BY DEF HeadFrame, Contexts, HeadFrames, Unknown

LEMMA Joined ==
  ASSUME NEW a, NEW b, NEW c
  PROVE  <<a>> \o <<>> \o <<c>> = <<a, c>> /\ <<a>> \o <<b>> \o <<c>> = <<a, b, c>>
<1> DEFINE T == Seq({a, b, c})
<1>1. <<>> \in T /\ <<a>> \in T /\ <<b>> \in T /\ <<c>> \in T
      /\ <<a, b>> \in T /\ <<a, c>> \in T /\ <<a, b, c>> \in T
  OBVIOUS
<1>2. <<a>> \o <<>> = <<a>>
  BY <1>1, ConcatEmptySeq
<1>3. Append(<<a>>, b) = <<a, b>> /\ Append(<<a>>, c) = <<a, c>>
      /\ Append(<<a, b>>, c) = <<a, b, c>>
  <2>1. ASSUME NEW x \in {a, b, c}, NEW y \in {a, b, c}
        PROVE  Append(<<x>>, y) = <<x, y>>
    <3> DEFINE u == Append(<<x>>, y)
               v == <<x, y>>
    <3>1. u \in T /\ Len(u) = 2 /\ u[1] = x /\ u[2] = y
      BY AppendProperties
    <3>2. v \in T /\ Len(v) = 2 /\ v[1] = x /\ v[2] = y
      OBVIOUS
    <3> HIDE DEF u, v
    <3>3. \A i \in 1 .. Len(u) : u[i] = v[i]
      BY <3>1, <3>2
    <3>4. u = v
      BY <3>1, <3>2, <3>3, SeqEqual
    <3> QED
      BY <3>4 DEF u, v
  <2>2. Append(<<a, b>>, c) = <<a, b, c>>
    <3> DEFINE u == Append(<<a, b>>, c)
               v == <<a, b, c>>
    <3>1. u \in T /\ Len(u) = 3 /\ u[1] = a /\ u[2] = b /\ u[3] = c
      BY <1>1, AppendProperties
    <3>2. v \in T /\ Len(v) = 3 /\ v[1] = a /\ v[2] = b /\ v[3] = c
      BY <1>1
    <3> HIDE DEF u, v
    <3>3. \A i \in 1 .. Len(u) : u[i] = v[i]
      BY <3>1, <3>2
    <3>4. u = v
      BY <3>1, <3>2, <3>3, SeqEqual
    <3> QED
      BY <3>4 DEF u, v
  <2> QED
    BY <1>1, <2>1, <2>2
<1>4. <<a>> \o <<b>> = <<a, b>> /\ <<a>> \o <<c>> = <<a, c>>
      /\ <<a, b>> \o <<c>> = <<a, b, c>>
  BY <1>1, <1>3, AppendIsConcat
<1> QED
  BY <1>2, <1>4

\* What finish() makes of a Context.
LEMMA ReplyOf ==
  ASSUME NEW c \in Contexts, NEW t \in BOOLEAN
  PROVE  /\ Reply(c, t) \in Seq(AnyFrame) /\ Shape(Reply(c, t))
         /\ CutAtEnd(Reply(c, t)) = t
         /\ Len(Reply(c, t)) >= 2 => /\ c.head # NoHead /\ Reply(c, t)[1].status = c.head
                                     /\ BytesIn(Reply(c, t)) = c.body
<1> DEFINE h == HeadFrame(c, t)
           k == [kind |-> "chunk", bytes |-> c.body]
           e == [kind |-> "end", truncated |-> t]
           w == Reply(c, t)
<1>1. e \in EndFrames /\ e.truncated = t /\ e \in AnyFrame
  BY DEF EndFrames, AnyFrame
<1>2. c.body \in Nat
  BY DEF Contexts
<1>3. CASE c.head = NoHead
  <2>1. w = <<e>>
    BY <1>3 DEF Reply
  <2> HIDE DEF w, e
  <2>2. w \in Seq(AnyFrame) /\ Len(w) = 1 /\ w[1] = e
    BY <1>1, <2>1
  <2> QED
    BY <1>1, <2>2 DEF Shape, CutAtEnd, w
<1>4. CASE c.head # NoHead
  <2>1. h \in HeadFrames /\ h.status = c.head /\ h.length \in {Unknown, c.body} /\ h \in AnyFrame
    BY <1>4, HeadFrameType DEF AnyFrame
  <2>2. CASE c.body = 0
    <3>1. w = <<h>> \o <<>> \o <<e>>
      BY <1>2, <1>4, <2>2 DEF Reply
    <3> HIDE DEF w, e, h
    <3>2. w = <<h, e>>
      BY <3>1, Joined
    <3>3. w \in Seq(AnyFrame) /\ Len(w) = 2 /\ w[1] = h /\ w[2] = e
      BY <1>1, <2>1, <3>2
    <3> QED
      BY <1>1, <1>4, <2>1, <2>2, <3>3 DEF Shape, CutAtEnd, BytesIn, w
  <2>3. CASE c.body > 0
    <3>1. w = <<h>> \o <<k>> \o <<e>>
      BY <1>2, <1>4, <2>3 DEF Reply
    <3>2. k \in ChunkFrames /\ k.bytes = c.body /\ k \in AnyFrame
      BY <1>2, <2>3 DEF ChunkFrames, AnyFrame
    <3> HIDE DEF w, e, h, k
    <3>3. w = <<h, k, e>>
      BY <3>1, Joined
    <3>4. w \in Seq(AnyFrame) /\ Len(w) = 3 /\ w[1] = h /\ w[2] = k /\ w[3] = e
      BY <1>1, <2>1, <3>2, <3>3
    <3> QED
      BY <1>1, <1>2, <1>4, <2>1, <3>2, <3>4 DEF Shape, CutAtEnd, BytesIn, w
  <2> QED
    BY <1>2, <2>2, <2>3
<1> QED
  BY <1>3, <1>4

\* A reply that is true to its request, or whose client left, is put on the wire.
LEMMA Sealed ==
  ASSUME NEW c \in Contexts, NEW t \in BOOLEAN,
         frames' = <<>>, todo' = Reply(c, t),
         \/ left'
         \/ /\ t => past'.own \/ past'.sealer = "abort"
            /\ c.head # NoHead => c.head \in past'.chosen \/ past'.own
            /\ c.head # NoHead /\ ~t => past'.printed = c.body
            /\ past'.fault /\ past'.early > 0 /\ past'.sealer = "end" => t
  PROVE  WireInv' /\ todo' \in Seq(AnyFrame) /\ frames' \in Seq(AnyFrame)
<1> DEFINE w == Reply(c, t)
<1>1. /\ w \in Seq(AnyFrame) /\ Shape(w) /\ CutAtEnd(w) = t
      /\ Len(w) >= 2 => c.head # NoHead /\ w[1].status = c.head /\ BytesIn(w) = c.body
  BY ReplyOf
<1> HIDE DEF w
<1>2. Carries(w)'
  <2>1. Len(frames') = 0 /\ Len(todo') = Len(w) /\ Len(w) \in Nat /\ todo' = w
    BY <1>1 DEF w
  <2> QED
    BY <1>1, <2>1 DEF Carries, Prefix
<1>3. Tells(w, past') \/ left'
  BY <1>1 DEF Tells
<1>4. WireInv'
  BY <1>1, <1>2, <1>3 DEF WireInv, Underway
<1> QED
  BY <1>1, <1>4 DEF w

\* A history that goes on leaves a reply true; what the reply tells of the output
\* does not change any more.
LEMMA Quiet ==
  ASSUME WireInv, UNCHANGED <<frames, todo, left>>,
         past.own => past'.own, past.chosen \subseteq past'.chosen,
         past'.sealer = past.sealer,
         \/ frames = <<>> /\ todo = <<>>
         \/ past'.printed = past.printed /\ past'.early = past.early /\ past'.fault = past.fault
  PROVE  WireInv'
<1>1. CASE frames = <<>> /\ todo = <<>>
  BY <1>1 DEF WireInv, Underway
<1>2. CASE past'.printed = past.printed /\ past'.early = past.early /\ past'.fault = past.fault
  <2>1. CASE \E w : Underway(w)
    <3>1. PICK w : Underway(w)
      BY <2>1
    <3>2. Carries(w)'
      BY <3>1 DEF Carries, Underway
    <3>3. Tells(w, past) => Tells(w, past')
      BY <1>2 DEF Tells
    <3> QED
      BY <3>1, <3>2, <3>3 DEF WireInv, Underway
  <2> QED
    BY <1>1, <2>1 DEF WireInv, Underway
<1> QED
  BY <1>1, <1>2

-----------------------------------------------------------------------------
(* The Context.                                                            *)

\* d is c with a head, or with none as before; its status is one that the
\* request may have.
Grown(c, d) ==
  /\ d \in Contexts
  /\ d.body = c.body /\ d.tearing_down = c.tearing_down /\ d.errored = c.errored
  /\ d.sender = c.sender /\ d.head_method = c.head_method
  /\ c.stream = "BodyStreamed" <=> d.stream = "BodyStreamed"
  /\ d.head = c.head \/ d.head \in past.chosen \/ past.own

LEMMA CommitHeadOf ==
  ASSUME NEW c \in Contexts, NEW status \in Nat, NEW field \in Nat
  PROVE  LET d == CommitHead(c, status, field)
         IN /\ d \in Contexts
            /\ d.body = c.body /\ d.tearing_down = c.tearing_down /\ d.errored = c.errored
            /\ d.sender = c.sender /\ d.head_method = c.head_method /\ d.stream = "HeadSent"
            /\ d.head = IF field \in 100 .. 599 THEN field ELSE status
<1> DEFINE h == IF field \in 100 .. 599 THEN field ELSE status
           d == CommitHead(c, status, field)
<1>1. h \in Nat /\ d = [c EXCEPT !.head = h, !.stream = "HeadSent"]
  BY DEF CommitHead
<1> HIDE DEF d
<1>2. /\ d \in Contexts
      /\ d.body = c.body /\ d.tearing_down = c.tearing_down /\ d.errored = c.errored
      /\ d.sender = c.sender /\ d.head_method = c.head_method /\ d.stream = "HeadSent"
      /\ d.head = h
  <2> HIDE DEF h
  <2> QED
    BY <1>1 DEF Contexts
<1> QED
  BY <1>2 DEF d

LEMMA HeadStatusType == \A code \in Nat : HeadStatus(code) \in Nat
BY DEF HeadStatus

\* Whatever commits a head keeps the rest of the Context.
LEMMA HeadsGrow ==
  ASSUME ReplyTyped, BlameInv, stage # "idle"
  PROVE  /\ \A c \in Contexts : Grown(c, SendHeaders(c))
         /\ Grown(cx, Headed)
         /\ \A c \in Contexts, errored \in BOOLEAN :
              (errored => past.own) => Grown(c, ErrorHead(c, errored))
<1>1. /\ sg.code \in Nat /\ sg.field \in Nat /\ HeadStatus(sg.code) \in Nat /\ cx \in Contexts
  BY HeadStatusType DEF ReplyTyped, Globals
<1>2. ASSUME NEW c \in Contexts
      PROVE  Grown(c, c)
  BY DEF Grown
<1>3. ASSUME NEW c \in Contexts, c.stream = "NotSent", NEW status \in Nat, NEW field \in Nat,
             (IF field \in 100 .. 599 THEN field ELSE status) \in past.chosen \/ past.own
      PROVE  Grown(c, CommitHead(c, status, field))
  BY <1>3, CommitHeadOf DEF Grown
<1>4. ASSUME NEW c \in Contexts
      PROVE  Grown(c, SendHeaders(c))
  BY <1>1, <1>2, <1>3 DEF SendHeaders, BlameInv
<1>5. Grown(cx, Headed)
  <2> DEFINE d == SendHeaders(cx)
  <2>1. Grown(cx, d)
    BY <1>1, <1>4
  <2> HIDE DEF d
  <2>2. d.stream = "NotSent" => Grown(d, CommitHead(d, HeadStatus(sg.code), 0))
    <3>1. 0 \notin 100 .. 599 /\ d \in Contexts
      BY <2>1 DEF Grown
    <3> QED
      BY <1>1, <1>3, <3>1 DEF BlameInv
  <2>3. Headed = IF d.stream = "NotSent" THEN CommitHead(d, HeadStatus(sg.code), 0) ELSE d
    BY DEF Headed, d
  <2> HIDE DEF Headed
  <2> QED
    BY <2>1, <2>2, <2>3 DEF Grown
<1>6. ASSUME NEW c \in Contexts, NEW errored \in BOOLEAN, errored => past.own
      PROVE  Grown(c, ErrorHead(c, errored))
  BY <1>2, <1>3, <1>6 DEF ErrorHead
<1> QED
  BY <1>4, <1>5, <1>6

-----------------------------------------------------------------------------
(* What seals a reply, and what writes to it.                              *)

\* The history p is that of the request, but for the sealer and the early output.
SamePast(p) ==
  /\ p \in Histories
  /\ p.own = past.own /\ p.chosen = past.chosen /\ p.event = past.event
  /\ p.printed = past.printed /\ p.fault = past.fault

LEMMA FinishKeeps ==
  ASSUME ReplyTyped, OpenInv, WireInv, stage # "idle", todo = <<>>, UNCHANGED <<frames, left>>,
         NEW c \in Contexts, c.sender = cx.sender, NEW t \in BOOLEAN, NEW p, SamePast(p),
         p.early = past.early, Finish(c, t, p),
         c.sender =>
           \/ left
           \/ /\ t => p.own \/ p.sealer = "abort"
              /\ c.head # NoHead => c.head \in p.chosen \/ p.own
              /\ c.head # NoHead /\ ~t => p.printed = c.body
              /\ p.fault /\ p.early > 0 /\ p.sealer = "end" => t
  PROVE  /\ cx' \in Contexts /\ ~cx'.sender
         /\ cx'.errored = c.errored /\ cx'.tearing_down = c.tearing_down
         /\ SamePast(past') /\ todo' \in Seq(AnyFrame) /\ frames' \in Seq(AnyFrame) /\ WireInv'
<1>1. CASE c.sender
  <2>1. /\ cx' = [c EXCEPT !.sender = FALSE, !.body = 0, !.head = NoHead]
        /\ todo' = Reply(c, t) /\ past' = p
    BY <1>1 DEF Finish
  <2>2. /\ cx' \in Contexts /\ ~cx'.sender
        /\ cx'.errored = c.errored /\ cx'.tearing_down = c.tearing_down
    BY <2>1 DEF Contexts
  <2>3. frames' = <<>>
    BY <1>1 DEF OpenInv, Open
  <2>4. WireInv' /\ todo' \in Seq(AnyFrame) /\ frames' \in Seq(AnyFrame)
    BY <1>1, <2>1, <2>3, Sealed
  <2> QED
    BY <2>1, <2>2, <2>4
<1>2. CASE ~c.sender
  <2>1. cx' = c /\ UNCHANGED <<todo, past>>
    BY <1>2 DEF Finish
  <2>2. WireInv'
    BY <2>1, Quiet
  <2> QED
    BY <1>2, <2>1, <2>2 DEF ReplyTyped, SamePast
<1> QED
  BY <1>1, <1>2

\* rapira_rs_finish_response, from the script or at the end of the request.
LEMMA FinishResponseKeeps ==
  ASSUME ReplyInv, stage # "idle", todo = <<>>, sg.ob = 0, UNCHANGED <<frames, left>>,
         NEW c, Grown(cx, c), NEW by \in {"script", "end"}, by = "end" => stage = "seal",
         FinishResponse(c, sg.fatal, by)
  PROVE  /\ cx' \in Contexts /\ ~cx'.sender /\ (cx'.errored => past.own)
         /\ cx'.tearing_down = cx.tearing_down
         /\ SamePast(past') /\ todo' \in Seq(AnyFrame) /\ frames' \in Seq(AnyFrame) /\ WireInv'
<1> DEFINE errored == c.errored \/ sg.fatal
           e == ErrorHead(c, errored)
           d == [e EXCEPT !.errored = errored]
           t == Truncated(c, errored)
           p == SealedBy(by)
<1>1. c \in Contexts /\ errored \in BOOLEAN /\ (errored => past.own)
  BY DEF Grown, ReplyInv, ReplyTyped, Globals, Contexts, BlameInv
<1>2. Grown(c, e)
  <2> HIDE DEF errored
  <2> QED
    BY <1>1, HeadsGrow DEF ReplyInv
<1>3. /\ d \in Contexts /\ d.errored = errored /\ d.body = cx.body
      /\ d.tearing_down = cx.tearing_down /\ d.sender = cx.sender
      /\ d.head = e.head
  <2> HIDE DEF errored, e
  <2> QED
    BY <1>1, <1>2 DEF Grown, Contexts
<1>4. t \in BOOLEAN /\ (t <=> errored /\ cx.stream = "BodyStreamed")
  BY <1>1 DEF Truncated, Grown
<1>5. SamePast(p) /\ p.early = past.early /\ p.sealer = by
  BY DEF SealedBy, SamePast, ReplyInv, ReplyTyped, Histories
<1>6. Finish(d, t, p)
  BY DEF FinishResponse
<1>7. cx.head = NoHead \/ cx.head \in past.chosen \/ past.own
      => (d.head # NoHead => d.head \in past.chosen \/ past.own)
  BY <1>2, <1>3 DEF Grown
<1> HIDE DEF d, t, p, e, errored
<1>8. d.sender => /\ t => p.own \/ p.sealer = "abort"
                  /\ d.head # NoHead => d.head \in p.chosen \/ p.own
                  /\ d.head # NoHead /\ ~t => p.printed = d.body
                  /\ p.fault /\ p.early > 0 /\ p.sealer = "end" => t
  <2> SUFFICES ASSUME d.sender
               PROVE  /\ t => p.own
                      /\ d.head # NoHead => d.head \in p.chosen \/ p.own
                      /\ p.printed = d.body
                      /\ p.fault /\ p.early > 0 /\ p.sealer = "end" => t
    OBVIOUS
  <2>1. Open
    BY <1>3 DEF Open
  <2>2. /\ past.printed = cx.body + sg.ob /\ (past.early > 0 => cx.stream = "BodyStreamed")
        /\ cx.head = NoHead \/ cx.head \in past.chosen \/ past.own
    BY <2>1 DEF ReplyInv, OpenInv
  <2>3. p.printed = d.body
    BY <1>3, <1>5, <2>2 DEF SamePast, ReplyInv, ReplyTyped, Contexts
  <2>4. ASSUME past.fault, by = "end"
        PROVE  errored
    BY <2>1, <2>4 DEF ReplyInv, FaultInv, Grown, errored
  <2> QED
    BY <1>1, <1>4, <1>5, <1>7, <2>2, <2>3, <2>4 DEF SamePast
<1> QED
  BY <1>1, <1>3, <1>4, <1>5, <1>6, <1>8, FinishKeeps DEF ReplyInv

\* What a write leaves of the Context, when it does not abort.
LEMMA WrittenOf ==
  ASSUME ReplyInv, stage # "idle"
  PROVE  LET n == sg.ob
             d == Written(n)
         IN /\ d \in Contexts
            /\ d.tearing_down = cx.tearing_down /\ d.errored = cx.errored
            /\ d.sender = cx.sender /\ d.head_method = cx.head_method
            /\ cx.stream = "BodyStreamed" => d.stream = "BodyStreamed"
            /\ d.head = cx.head \/ d.head \in past.chosen \/ past.own
            /\ Open => d.body = cx.body + n
            /\ Open /\ n > 0 /\ ~cx.tearing_down => d.stream = "BodyStreamed"
<1> DEFINE n == sg.ob
           h == SendHeaders(cx)
           g == Headed
           d == Written(n)
<1>1. n \in Nat /\ cx \in Contexts /\ cx.body \in Nat /\ Grown(cx, h) /\ Grown(cx, g)
  BY HeadsGrow DEF ReplyInv, ReplyTyped, Globals, Contexts
<1>2. Open /\ cx.head_method => n = 0
  BY DEF ReplyInv, OpenInv
<1>3. CASE n = 0 \/ cx.head_method
  <2>1. d = h
    BY <1>3 DEF Written
  <2> HIDE DEF d, n, h
  <2> QED
    BY <1>1, <1>2, <1>3, <2>1 DEF Grown, d, n
<1>4. CASE ~(n = 0 \/ cx.head_method) /\ ~cx.sender
  <2>1. d = g
    BY <1>4 DEF Written
  <2> HIDE DEF d, n, g
  <2> QED
    BY <1>1, <1>4, <2>1 DEF Grown, Open, d, n
<1>5. CASE ~(n = 0 \/ cx.head_method) /\ cx.sender
  <2> DEFINE s == IF cx.tearing_down THEN g.stream ELSE "BodyStreamed"
             b == g.body + n
  <2>1. d = [g EXCEPT !.body = b, !.stream = s]
    BY <1>5 DEF Written
  <2>2. g \in Contexts /\ s \in {"NotSent", "HeadSent", "BodyStreamed"} /\ b \in Nat
    <3> HIDE DEF g, n
    <3> QED
      BY <1>1 DEF Grown, Contexts
  <2> HIDE DEF d, n, g, s, b
  <2>3. /\ d \in Contexts
        /\ d.tearing_down = g.tearing_down /\ d.errored = g.errored
        /\ d.sender = g.sender /\ d.head_method = g.head_method
        /\ d.head = g.head /\ d.body = b /\ d.stream = s
    BY <2>1, <2>2 DEF Contexts
  <2> QED
    BY <1>1, <2>3 DEF Grown, s, b, d, n
<1> QED
  BY <1>3, <1>4, <1>5

\* The output buffer is flushed into the reply.
LEMMA EmitKeeps ==
  ASSUME ReplyInv, stage # "idle", todo = <<>>, UNCHANGED <<frames, left>>, Emit(sg.ob)
  PROVE  /\ cx' \in Contexts /\ SamePast(past')
         /\ cx'.errored = cx.errored /\ cx'.tearing_down = cx.tearing_down
         /\ todo' \in Seq(AnyFrame) /\ frames' \in Seq(AnyFrame) /\ WireInv'
         /\ cx'.sender => /\ cx.sender /\ frames' = <<>> /\ todo' = <<>>
                          /\ past'.sealer = "none" /\ past'.printed = cx'.body
                          /\ past'.early > 0 => cx'.stream = "BodyStreamed"
                          /\ cx'.head = NoHead \/ cx'.head \in past'.chosen \/ past'.own
<1> DEFINE n == sg.ob
<1>0. n \in Nat /\ cx \in Contexts /\ left \in BOOLEAN /\ past \in Histories
  BY DEF ReplyInv, ReplyTyped, Globals
<1>1. CASE Aborts(n)
  <2> DEFINE p == SealedBy("abort")
             g == Headed
  <2>1. Finish(g, ~left, p) /\ cx.sender
    BY <1>1 DEF Emit, Aborts
  <2>2. SamePast(p) /\ p.early = past.early /\ p.sealer = "abort"
    BY <1>0 DEF SealedBy, SamePast, Histories
  <2>3. Grown(cx, g)
    BY HeadsGrow DEF ReplyInv
  <2>4. cx.head = NoHead \/ cx.head \in past.chosen \/ past.own
    BY <2>1 DEF ReplyInv, OpenInv, Open
  <2> HIDE DEF p, g
  <2>5. g.head # NoHead => g.head \in p.chosen \/ p.own
    BY <2>2, <2>3, <2>4 DEF Grown, SamePast
  <2> QED
    BY <1>0, <2>1, <2>2, <2>3, <2>5, FinishKeeps DEF Grown, ReplyInv
<1>2. CASE ~Aborts(n)
  <2> DEFINE counted == IF cx.sender /\ stage = "script" THEN n ELSE 0
             p == [past EXCEPT !.early = @ + counted]
             d == Written(n)
  <2>1. cx' = d /\ past' = p /\ UNCHANGED todo
    BY <1>2 DEF Emit
  <2>2. SamePast(p) /\ p.sealer = past.sealer /\ p.early = past.early + counted /\ past.early \in Nat
        /\ counted \in Nat
    BY <1>0 DEF SamePast, Histories
  <2>3. /\ d \in Contexts
        /\ d.tearing_down = cx.tearing_down /\ d.errored = cx.errored
        /\ d.sender = cx.sender /\ d.head_method = cx.head_method
        /\ cx.stream = "BodyStreamed" => d.stream = "BodyStreamed"
        /\ d.head = cx.head \/ d.head \in past.chosen \/ past.own
        /\ Open => d.body = cx.body + n
        /\ Open /\ n > 0 /\ ~cx.tearing_down => d.stream = "BodyStreamed"
    BY WrittenOf
  <2> HIDE DEF d, p
  <2>4. Open => /\ frames = <<>> /\ todo = <<>> /\ past.sealer = "none"
                /\ past.printed = cx.body + n
                /\ past.early > 0 => cx.stream = "BodyStreamed"
                /\ cx.head = NoHead \/ cx.head \in past.chosen \/ past.own
    BY DEF ReplyInv, OpenInv
  <2>5. WireInv'
    <3>1. cx.sender \/ p.early = past.early
      BY <2>2
    <3> HIDE DEF counted, n
    <3> QED
      BY <2>1, <2>2, <2>4, <3>1, Quiet DEF Open, SamePast, ReplyInv
  <2>6. counted > 0 => n > 0 /\ ~cx.tearing_down
    BY <1>0 DEF ReplyInv, FaultInv
  <2>7. Open => (p.early > 0 => d.stream = "BodyStreamed")
    <3> HIDE DEF counted, n
    <3> QED
      BY <2>2, <2>3, <2>4, <2>6, <1>0 DEF Open
  <2>8. todo' \in Seq(AnyFrame) /\ frames' \in Seq(AnyFrame)
    BY <2>1 DEF ReplyInv, ReplyTyped
  <2>9. Open <=> cx'.sender
    BY <2>1, <2>3 DEF Open
  <2> HIDE DEF counted, n
  <2> QED
    BY <2>1, <2>2, <2>3, <2>4, <2>5, <2>7, <2>8, <2>9 DEF SamePast, Open
<1> QED
  BY <1>1, <1>2

-----------------------------------------------------------------------------
(* The actions.                                                            *)

LEMMA NewContextType ==
  \A hd \in BOOLEAN :
    LET c == NewContext(hd)
    IN /\ c \in Contexts /\ c.body = 0 /\ c.head = NoHead /\ c.stream = "NotSent"
       /\ c.sender /\ ~c.errored /\ ~c.tearing_down /\ c.head_method = hd
BY DEF NewContext, Contexts

LEMMA NewPastType ==
  /\ NewPast \in Histories /\ NewPast.printed = 0 /\ NewPast.early = 0 /\ NewPast.chosen = {200}
  /\ ~NewPast.fault /\ ~NewPast.own /\ NewPast.sealer = "none" /\ NewPast.event = "none"
BY DEF NewPast, Histories

LEMMA GlobalsOf ==
  ASSUME NEW g \in Globals
  PROVE  /\ Populated(g) \in Globals /\ Populated(g).code = 200 /\ Populated(g).field = 0
         /\ Populated(g).ob = 0 /\ Populated(g).fatal = g.fatal
         /\ Recorded(g) \in Globals /\ Recorded(g).ob = g.ob /\ Recorded(g).field = g.field
         /\ Cleared(g) \in Globals /\ ~Cleared(g).fatal
<1>1. /\ Populated(g) \in Globals /\ Populated(g).code = 200 /\ Populated(g).field = 0
      /\ Populated(g).ob = 0 /\ Populated(g).fatal = g.fatal
  <2> DEFINE p == Populated(g)
  <2>1. p = [g EXCEPT !.code = 200, !.field = 0, !.headers_sent = FALSE, !.ob = 0]
    BY DEF Populated
  <2> HIDE DEF p
  <2>2. p \in Globals
    <3> DEFINE k == 200
               z == 0
               no == FALSE
    <3>1. p = [g EXCEPT !.code = k, !.field = z, !.headers_sent = no, !.ob = z]
          /\ k \in Nat /\ z \in Nat /\ no \in BOOLEAN
      BY <2>1
    <3> HIDE DEF k, z, no
    <3> QED
      BY <3>1 DEF Globals
  <2>3. p.code = 200 /\ p.field = 0 /\ p.ob = 0
    BY <2>1 DEF Globals
  <2>4. p.fatal = g.fatal
    BY <2>1 DEF Globals
  <2> QED
    BY <2>2, <2>3, <2>4 DEF p
<1>2. Cleared(g) \in Globals /\ ~Cleared(g).fatal
  BY DEF Cleared, Globals
<1>3. Recorded(g) \in Globals /\ Recorded(g).ob = g.ob /\ Recorded(g).field = g.field
  <2> DEFINE k == IF ~g.headers_sent /\ g.code = 200 THEN 500 ELSE g.code
  <2>1. Recorded(g) = [g EXCEPT !.fatal = TRUE, !.code = k] /\ k \in Nat
    BY DEF Recorded, Globals
  <2> HIDE DEF k
  <2> QED
    BY <2>1 DEF Globals
<1> QED
  BY <1>1, <1>2, <1>3

LEMMA BindKeeps == ReplyInv /\ Bind => ReplyInv'
<1> SUFFICES ASSUME ReplyInv, Bind
             PROVE  ReplyInv'
  OBVIOUS
<1>1. PICK hd \in BOOLEAN : cx' = NewContext(hd)
  BY DEF Bind
<1>2. /\ stage = "idle" /\ todo = <<>> /\ stage' = "script" /\ outcome' = "ok"
      /\ frames' = <<>> /\ left' = FALSE /\ past' = NewPast /\ UNCHANGED <<mode, recycle, todo>>
      /\ sg' = Populated(sg) /\ sg \in Globals
  BY DEF Bind, Idle, ReplyInv, ReplyTyped
<1>3. /\ sg' \in Globals /\ sg'.code = 200 /\ sg'.field = 0 /\ sg'.ob = 0 /\ ~sg'.fatal
      /\ ~recycle
  BY <1>2, GlobalsOf DEF ReplyInv, CleanInv
<1>4. ReplyTyped'
  BY <1>1, <1>2, <1>3, NewContextType, NewPastType DEF ReplyInv, ReplyTyped, Stages
<1>5. BlameInv' /\ CleanInv' /\ FaultInv'
  <2>1. HeadStatus(200) = 200
    BY DEF HeadStatus
  <2> QED
    BY <1>1, <1>2, <1>3, <2>1, NewContextType, NewPastType DEF BlameInv, CleanInv, FaultInv
<1>6. OpenInv' /\ WireInv'
  BY <1>1, <1>2, <1>3, NewContextType, NewPastType DEF OpenInv, WireInv
<1> QED
  BY <1>4, <1>5, <1>6 DEF ReplyInv

LEMMA ShedUnitKeeps == ReplyInv /\ ShedUnit => ReplyInv'
<1> SUFFICES ASSUME ReplyInv, ShedUnit
             PROVE  ReplyInv'
  OBVIOUS
<1> DEFINE c == CommitHead(NewContext(FALSE), 503, 0)
<1>1. c \in Contexts /\ c.body = 0
  <2> DEFINE n == NewContext(FALSE)
  <2>1. n \in Contexts /\ n.body = 0
    BY NewContextType
  <2> HIDE DEF n
  <2>2. CommitHead(n, 503, 0) \in Contexts /\ CommitHead(n, 503, 0).body = n.body
    BY <2>1, CommitHeadOf
  <2> QED
    BY <2>1, <2>2 DEF n
<1>2. /\ stage = "idle" /\ todo' = Reply(c, FALSE)
      /\ past' = [NewPast EXCEPT !.own = TRUE, !.sealer = "shed"]
      /\ frames' = <<>> /\ left' = FALSE
      /\ UNCHANGED <<mode, stage, sg, cx, outcome, recycle>>
  BY DEF ShedUnit, Idle
<1>3. /\ past' \in Histories /\ past'.own /\ past'.printed = 0 /\ ~past'.fault
      /\ past'.event = "none"
  BY <1>2, NewPastType DEF Histories
<1> HIDE DEF c
<1>4. WireInv' /\ todo' \in Seq(AnyFrame) /\ frames' \in Seq(AnyFrame)
  BY <1>1, <1>2, <1>3, Sealed
<1>5. ReplyTyped'
  BY <1>2, <1>3, <1>4 DEF ReplyInv, ReplyTyped
<1>6. BlameInv' /\ CleanInv' /\ FaultInv' /\ OpenInv'
  BY <1>2, <1>3 DEF ReplyInv, BlameInv, CleanInv, FaultInv, OpenInv, Open
<1> QED
  BY <1>4, <1>5, <1>6 DEF ReplyInv

LEMMA StartFailsKeeps == ReplyInv /\ StartFails => ReplyInv'
<1> SUFFICES ASSUME ReplyInv, StartFails
             PROVE  ReplyInv'
  OBVIOUS
<1>0. /\ cx \in Contexts /\ sg \in Globals /\ past \in Histories
  BY DEF ReplyInv, ReplyTyped
<1>1. /\ stage = "script" /\ todo = <<>> /\ past.printed = 0
      /\ sg = Populated(sg) /\ cx = NewContext(cx.head_method)
      /\ UNCHANGED <<mode, recycle, frames, left>>
  BY DEF StartFails
<1>2. /\ cx.body = 0 /\ cx.head = NoHead /\ cx.stream = "NotSent" /\ cx.sender /\ ~cx.errored
      /\ cx.head_method \in BOOLEAN
  BY <1>0, <1>1, NewContextType DEF Contexts
<1>3. /\ frames = <<>> /\ past.sealer = "none" /\ ~past.fault /\ ~sg.fatal /\ ~recycle
      /\ ~(past.early > 0) /\ past.early \in Nat /\ sg.ob = 0 /\ sg.field = 0
  BY <1>0, <1>1, <1>2, GlobalsOf DEF ReplyInv, OpenInv, Open, FaultInv, CleanInv, Histories
<1>4. CASE mode = "classic"
  <2> DEFINE c == CommitHead(cx, 500, 0)
  <2>1. c \in Contexts /\ c.body = 0
    BY <1>0, <1>2, CommitHeadOf
  <2>2. /\ stage' = "idle" /\ todo' = Reply(c, FALSE)
        /\ cx' = [c EXCEPT !.sender = FALSE]
        /\ past' = [past EXCEPT !.own = TRUE, !.sealer = "end", !.event = "errored"]
        /\ UNCHANGED <<sg, outcome>>
    BY <1>4 DEF StartFails
  <2>3. past' \in Histories /\ past'.own /\ past'.printed = 0 /\ ~past'.fault
    BY <1>0, <1>1, <1>3, <2>2 DEF Histories
  <2> HIDE DEF c
  <2>4. cx' \in Contexts /\ frames' = <<>>
    BY <1>1, <1>3, <2>1, <2>2 DEF Contexts
  <2>5. WireInv' /\ todo' \in Seq(AnyFrame) /\ frames' \in Seq(AnyFrame)
    BY <2>1, <2>2, <2>3, <2>4, Sealed
  <2>6. ReplyTyped'
    BY <1>1, <2>2, <2>3, <2>4, <2>5 DEF ReplyInv, ReplyTyped, Stages
  <2>7. BlameInv' /\ CleanInv' /\ FaultInv' /\ OpenInv'
    BY <1>1, <1>3, <2>2, <2>3 DEF BlameInv, CleanInv, FaultInv, OpenInv, Open
  <2> QED
    BY <2>5, <2>6, <2>7 DEF ReplyInv
<1>5. CASE mode # "classic"
  <2>1. /\ stage' = "flush" /\ outcome' = "bailout" /\ UNCHANGED todo
        /\ cx' = [cx EXCEPT !.tearing_down = TRUE, !.errored = TRUE]
        /\ past' = [past EXCEPT !.own = TRUE]
    BY <1>5 DEF StartFails
  <2>2. sg' = sg \/ sg' = [sg EXCEPT !.fatal = TRUE, !.code = 500]
    BY <1>5 DEF StartFails
  <2>3. sg' \in Globals /\ sg'.ob = 0 /\ sg'.field = sg.field
    <3>1. CASE sg' = sg
      BY <1>0, <1>3, <3>1
    <3>2. CASE sg' = [sg EXCEPT !.fatal = TRUE, !.code = 500]
      <4> DEFINE k == 500
      <4>1. sg' = [sg EXCEPT !.fatal = TRUE, !.code = k] /\ k \in Nat
        BY <3>2
      <4> HIDE DEF k
      <4> QED
        BY <1>0, <1>3, <4>1 DEF Globals
    <3> QED
      BY <2>2, <3>1, <3>2
  <2>4. /\ cx' \in Contexts /\ cx'.body = 0 /\ cx'.head = NoHead
        /\ cx'.head_method = cx.head_method
    BY <1>0, <1>2, <2>1 DEF Contexts
  <2>5. /\ past' \in Histories /\ past'.own /\ past'.printed = 0 /\ ~past'.fault
        /\ past'.early = past.early /\ past'.sealer = past.sealer /\ past'.event = past.event
    BY <1>0, <1>1, <1>3, <2>1 DEF Histories
  <2>6. ReplyTyped'
    BY <1>1, <2>1, <2>3, <2>4, <2>5 DEF ReplyInv, ReplyTyped, Stages
  <2>7. BlameInv' /\ CleanInv' /\ FaultInv'
    <3>1. past'.event = "errored" => past'.own
      BY <2>5
    <3>2. stage' = "flush" /\ ~past'.fault /\ past'.own /\ sg'.field \notin 100 .. 599
      BY <1>3, <2>1, <2>3, <2>5
    <3> QED
      BY <3>1, <3>2 DEF BlameInv, CleanInv, FaultInv
  <2>8. OpenInv' /\ WireInv'
    BY <1>1, <1>3, <2>1, <2>3, <2>4, <2>5 DEF OpenInv, WireInv
  <2> QED
    BY <2>6, <2>7, <2>8 DEF ReplyInv
<1> QED
  BY <1>4, <1>5

LEMMA SetStatusKeeps == ReplyInv /\ SetStatus => ReplyInv'
<1> SUFFICES ASSUME ReplyInv, SetStatus
             PROVE  ReplyInv'
  OBVIOUS
<1>0. sg \in Globals /\ past \in Histories
  BY DEF ReplyInv, ReplyTyped
<1>1. /\ stage \in {"script", "shutdown"} /\ todo = <<>>
      /\ UNCHANGED <<mode, stage, cx, outcome, recycle, todo, frames, left>>
  BY DEF SetStatus, UserCode
<1>2. PICK code \in Codes :
        /\ \/ sg' = [sg EXCEPT !.code = code]
           \/ sg' = [sg EXCEPT !.field = code]
        /\ past' = [past EXCEPT !.chosen = @ \cup {code, HeadStatus(code)}]
  BY DEF SetStatus
<1>3. code \in Nat /\ HeadStatus(code) \in Nat
  BY ReplyConstants, HeadStatusType
<1>4. /\ past' \in Histories /\ past'.chosen = past.chosen \cup {code, HeadStatus(code)}
      /\ past'.own = past.own /\ past'.fault = past.fault /\ past'.early = past.early
      /\ past'.sealer = past.sealer /\ past'.printed = past.printed /\ past'.event = past.event
  BY <1>0, <1>2, <1>3 DEF Histories
<1>5. /\ sg' \in Globals /\ sg'.ob = sg.ob /\ sg'.fatal = sg.fatal
      /\ sg'.code \in {sg.code, code} /\ sg'.field \in {sg.field, code}
  <2>1. CASE sg' = [sg EXCEPT !.code = code]
    BY <1>0, <1>3, <2>1 DEF Globals
  <2>2. CASE sg' = [sg EXCEPT !.field = code]
    BY <1>0, <1>3, <2>2 DEF Globals
  <2> QED
    BY <1>2, <2>1, <2>2
<1>6. ReplyTyped'
  BY <1>1, <1>4, <1>5 DEF ReplyInv, ReplyTyped
<1>7. BlameInv' /\ CleanInv'
  BY <1>1, <1>4, <1>5 DEF ReplyInv, BlameInv, CleanInv
<1>8. FaultInv' /\ OpenInv'
  BY <1>1, <1>4, <1>5 DEF ReplyInv, FaultInv, OpenInv, Open
<1>9. WireInv'
  BY <1>1, <1>4, Quiet DEF ReplyInv
<1> QED
  BY <1>6, <1>7, <1>8, <1>9 DEF ReplyInv

LEMMA EchoKeeps == ReplyInv /\ Echo => ReplyInv'
<1> SUFFICES ASSUME ReplyInv, Echo
             PROVE  ReplyInv'
  OBVIOUS
<1>0. /\ sg \in Globals /\ past \in Histories /\ cx \in Contexts /\ cx.body \in Nat
      /\ sg.ob \in Nat /\ past.printed \in Int
  BY DEF ReplyInv, ReplyTyped, Globals, Histories, Contexts
<1>1. /\ stage \in {"script", "shutdown"} /\ todo = <<>> /\ ~cx.head_method
      /\ UNCHANGED <<mode, stage, cx, outcome, recycle, todo, frames, left>>
  BY DEF Echo, UserCode
<1> DEFINE k == IF cx.sender THEN past.printed + 1 ELSE past.printed
           n == sg.ob + 1
<1>2. sg' = [sg EXCEPT !.ob = n] /\ past' = [past EXCEPT !.printed = k]
  BY DEF Echo
<1>3. n \in Nat /\ k \in Int
  BY <1>0
<1> HIDE DEF k, n
<1>4. /\ past' \in Histories /\ past'.chosen = past.chosen
      /\ past'.own = past.own /\ past'.fault = past.fault /\ past'.early = past.early
      /\ past'.sealer = past.sealer /\ past'.printed = k /\ past'.event = past.event
  BY <1>0, <1>2, <1>3 DEF Histories
<1>5. /\ sg' \in Globals /\ sg'.ob = n /\ sg'.fatal = sg.fatal
      /\ sg'.code = sg.code /\ sg'.field = sg.field
  BY <1>0, <1>2, <1>3 DEF Globals
<1>6. ReplyTyped'
  BY <1>1, <1>4, <1>5 DEF ReplyInv, ReplyTyped
<1>7. BlameInv' /\ CleanInv'
  BY <1>1, <1>4, <1>5 DEF ReplyInv, BlameInv, CleanInv
<1>8. FaultInv'
  BY <1>1, <1>4 DEF ReplyInv, FaultInv, Open
<1>9. OpenInv'
  <2>1. Open => past'.printed = cx.body + n
    BY <1>0, <1>4 DEF ReplyInv, OpenInv, Open, k, n
  <2> QED
    BY <1>1, <1>4, <1>5, <2>1 DEF ReplyInv, OpenInv, Open
<1>10. WireInv'
  <2>1. CASE cx.sender
    BY <1>1, <1>4, <2>1, Quiet DEF ReplyInv, OpenInv, Open
  <2>2. CASE ~cx.sender
    <3>1. k = past.printed
      BY <2>2 DEF k
    <3> QED
      BY <1>1, <1>4, <3>1, Quiet DEF ReplyInv
  <2> QED
    BY <2>1, <2>2
<1> QED
  BY <1>6, <1>7, <1>8, <1>9, <1>10 DEF ReplyInv

LEMMA WarnKeeps == ReplyInv /\ Warn => ReplyInv'
<1> SUFFICES ASSUME ReplyInv, Warn
             PROVE  ReplyInv'
  OBVIOUS
<1>1. /\ stage \in {"script", "shutdown"} /\ todo = <<>>
      /\ UNCHANGED <<mode, stage, cx, outcome, recycle, todo, frames, left, past>>
  BY DEF Warn, UserCode
<1>2. /\ sg' \in Globals /\ sg'.ob = sg.ob /\ ~sg'.fatal
      /\ sg'.code = sg.code /\ sg'.field = sg.field
  BY DEF ReplyInv, ReplyTyped, Warn, Globals
<1>3. ReplyTyped' /\ WireInv'
  BY <1>1, <1>2, Quiet DEF ReplyInv, ReplyTyped
<1>4. BlameInv' /\ CleanInv'
  BY <1>1, <1>2 DEF ReplyInv, BlameInv, CleanInv
<1>5. FaultInv' /\ OpenInv'
  BY <1>1, <1>2 DEF ReplyInv, FaultInv, OpenInv, Open
<1> QED
  BY <1>3, <1>4, <1>5 DEF ReplyInv

\* The buffers are flushed, in user code or at the end of the request.
LEMMA EmptiedKeeps ==
  ASSUME ReplyInv, todo = <<>>, Emit(sg.ob), sg' = [sg EXCEPT !.headers_sent = TRUE, !.ob = 0],
         UNCHANGED <<mode, outcome, recycle, frames, left>>,
         \/ stage \in {"script", "shutdown"} /\ stage' = stage
         \/ stage = "flush" /\ stage' = "teardown"
         \/ stage = "teardown" /\ stage' = "seal"
  PROVE  ReplyInv'
<1>1. /\ stage # "idle" /\ stage' # "idle" /\ stage' \in Stages
      /\ stage' \in {"script", "shutdown"} => stage' = stage
      /\ stage' \in {"teardown", "seal"} => stage \in {"flush", "teardown"}
      /\ stage' \in {"script", "shutdown", "teardown", "seal"}
  BY DEF Stages
<1>2. /\ cx' \in Contexts /\ SamePast(past')
      /\ cx'.errored = cx.errored /\ cx'.tearing_down = cx.tearing_down
      /\ todo' \in Seq(AnyFrame) /\ frames' \in Seq(AnyFrame) /\ WireInv'
      /\ cx'.sender => /\ cx.sender /\ frames' = <<>> /\ todo' = <<>>
                       /\ past'.sealer = "none" /\ past'.printed = cx'.body
                       /\ past'.early > 0 => cx'.stream = "BodyStreamed"
                       /\ cx'.head = NoHead \/ cx'.head \in past'.chosen \/ past'.own
  BY <1>1, EmitKeeps
<1>3. /\ sg' \in Globals /\ sg'.ob = 0 /\ sg'.fatal = sg.fatal
      /\ sg'.code = sg.code /\ sg'.field = sg.field
  <2> DEFINE z == 0
             yes == TRUE
  <2>1. sg' = [sg EXCEPT !.headers_sent = yes, !.ob = z] /\ z \in Nat /\ yes \in BOOLEAN
    OBVIOUS
  <2>2. sg \in Globals
    BY DEF ReplyInv, ReplyTyped
  <2> HIDE DEF yes, z
  <2>3. sg' \in Globals /\ sg'.ob = z /\ sg'.fatal = sg.fatal
        /\ sg'.code = sg.code /\ sg'.field = sg.field
    BY <2>1, <2>2 DEF Globals
  <2> QED
    BY <2>3 DEF z
<1>4. ReplyTyped'
  BY <1>1, <1>2, <1>3 DEF ReplyInv, ReplyTyped, SamePast
<1>5. BlameInv' /\ CleanInv'
  BY <1>1, <1>2, <1>3 DEF ReplyInv, BlameInv, CleanInv, SamePast
<1>6. FaultInv'
  BY <1>1, <1>2 DEF ReplyInv, FaultInv, Open, SamePast
<1>7. OpenInv'
  <2>1. cx'.body = cx'.body + sg'.ob
    BY <1>2, <1>3 DEF Contexts
  <2> QED
    BY <1>1, <1>2, <1>3, <2>1 DEF OpenInv, Open
<1> QED
  BY <1>2, <1>4, <1>5, <1>6, <1>7 DEF ReplyInv

LEMMA FlushKeeps == ReplyInv /\ Flush => ReplyInv'
BY EmptiedKeeps DEF Flush, UserCode

LEMMA FinishRequestKeeps == ReplyInv /\ FinishRequest => ReplyInv'
<1> SUFFICES ASSUME ReplyInv, FinishRequest
             PROVE  ReplyInv'
  OBVIOUS
<1>1. /\ stage \in {"script", "shutdown"} /\ todo = <<>> /\ sg.ob = 0
      /\ sg' = [sg EXCEPT !.headers_sent = TRUE]
      /\ FinishResponse(SendHeaders(cx), sg.fatal, "script")
      /\ UNCHANGED <<mode, stage, outcome, recycle, frames, left>>
  BY DEF FinishRequest, UserCode
<1>2. Grown(cx, SendHeaders(cx))
  BY <1>1, HeadsGrow DEF ReplyInv, ReplyTyped
<1>3. /\ cx' \in Contexts /\ ~cx'.sender /\ (cx'.errored => past.own)
      /\ cx'.tearing_down = cx.tearing_down
      /\ SamePast(past') /\ todo' \in Seq(AnyFrame) /\ frames' \in Seq(AnyFrame) /\ WireInv'
  BY <1>1, <1>2, FinishResponseKeeps
<1>4. /\ sg' \in Globals /\ sg'.ob = 0 /\ sg'.fatal = sg.fatal
      /\ sg'.code = sg.code /\ sg'.field = sg.field
  BY <1>1 DEF ReplyInv, ReplyTyped, Globals
<1>5. ReplyTyped'
  BY <1>1, <1>3, <1>4 DEF ReplyInv, ReplyTyped, SamePast
<1>6. BlameInv' /\ CleanInv'
  BY <1>1, <1>3, <1>4 DEF ReplyInv, BlameInv, CleanInv, SamePast
<1>7. FaultInv' /\ OpenInv'
  BY <1>1, <1>3 DEF ReplyInv, FaultInv, OpenInv, Open, SamePast
<1> QED
  BY <1>3, <1>5, <1>6, <1>7 DEF ReplyInv

\* User code ends with o: the script does, or its shutdown functions do.
LEMMA EndsKeep ==
  ASSUME ReplyInv, UserCode, NEW o \in {"ok", "throw", "bailout"}, NEW fatal \in BOOLEAN,
         UNCHANGED <<mode, recycle, todo, frames, left>>,
         sg' \in Globals, sg'.ob = sg.ob, sg'.field = sg.field, past' \in Histories,
         \/ past'.own
         \/ o = "ok" /\ past'.own = past.own /\ sg'.fatal = sg.fatal /\ sg'.code = sg.code,
         past'.chosen = past.chosen, past'.printed = past.printed, past'.early = past.early,
         past'.sealer = past.sealer, past'.event = past.event, past.own => past'.own,
         past'.fault <=> past.fault \/ (o # "ok" /\ fatal /\ stage = "script" /\ cx.sender),
         EndScript(o, fatal) \/ EndShutdown(o)
  PROVE  ReplyInv'
<1>0. cx \in Contexts /\ todo = <<>> /\ stage \in {"script", "shutdown"}
      /\ mode \in {"classic", "worker"} /\ past \in Histories
  BY DEF ReplyInv, ReplyTyped, UserCode
<1>1. WireInv'
  <2>1. CASE cx.sender
    BY <1>0, <2>1, Quiet DEF ReplyInv, OpenInv, Open
  <2>2. CASE ~cx.sender
    <3>1. past'.fault \in BOOLEAN /\ past.fault \in BOOLEAN
      BY <1>0 DEF Histories
    <3>2. past'.fault = past.fault
      BY <2>2, <3>1
    <3> QED
      BY <3>2, Quiet DEF ReplyInv
  <2> QED
    BY <2>1, <2>2
\* What the two ways of ending have in common.
<1>2. ASSUME stage' \in Stages \ {"idle", "script", "seal"}, outcome' \in {"ok", "throw", "bailout"},
             cx' \in Contexts, cx'.body = cx.body, cx'.stream = cx.stream, cx'.sender = cx.sender,
             cx'.head = cx.head, cx'.head_method = cx.head_method,
             cx'.errored \/ outcome' # "ok" => past'.own,
             past'.fault /\ Open' =>
               /\ mode' = "classic" \/ stage' \in {"flush", "teardown"} => cx'.errored
               /\ mode' = "worker" /\ stage' = "shutdown" => outcome' # "ok"
      PROVE  ReplyInv'
  <2>1. ReplyTyped'
    BY <1>2 DEF ReplyInv, ReplyTyped
  <2>2. BlameInv'
    BY <1>0, <1>2 DEF ReplyInv, BlameInv, CleanInv
  <2>3. CleanInv'
    BY <1>0, <1>2 DEF ReplyInv, CleanInv
  <2>4. FaultInv'
    BY <1>2 DEF FaultInv
  <2>5. OpenInv'
    BY <1>0, <1>2 DEF ReplyInv, OpenInv, Open
  <2> QED
    BY <1>1, <2>1, <2>2, <2>3, <2>4, <2>5 DEF ReplyInv
<1>3. CASE EndScript(o, fatal)
  <2>1. stage = "script" /\ stage' = "shutdown" /\ outcome' = o /\ ~past.fault
    BY <1>3 DEF EndScript, ReplyInv, FaultInv
  <2>2. CASE mode = "worker"
    <3>1. cx' = cx
      BY <1>3, <2>2 DEF EndScript
    <3>2. cx.errored => past.own
      BY <2>1 DEF ReplyInv, BlameInv
    <3> QED
      BY <1>0, <1>2, <2>1, <2>2, <3>1, <3>2 DEF Stages
  <2>3. CASE mode # "worker"
    <3> DEFINE e == o # "ok" /\ fatal
    <3>1. cx' = [cx EXCEPT !.tearing_down = TRUE, !.errored = e] /\ e \in BOOLEAN
      BY <1>3, <2>3 DEF EndScript
    <3> HIDE DEF e
    <3>2. /\ cx' \in Contexts /\ cx'.body = cx.body /\ cx'.stream = cx.stream
          /\ cx'.sender = cx.sender /\ cx'.head = cx.head /\ cx'.head_method = cx.head_method
          /\ cx'.errored = e
      BY <1>0, <3>1 DEF Contexts
    <3> QED
      BY <1>0, <1>2, <2>1, <2>3, <3>2 DEF Stages, e
  <2> QED
    BY <2>2, <2>3
<1>4. CASE EndShutdown(o)
  <2>0. /\ stage = "shutdown" /\ past'.fault = past.fault
        /\ cx.errored \/ outcome # "ok" => past.own
        /\ outcome \in {"ok", "throw", "bailout"}
    BY <1>4 DEF EndShutdown, ReplyInv, ReplyTyped, BlameInv, Histories
  <2>1. CASE mode = "worker"
    <3> DEFINE e == outcome' # "ok"
    <3>1. /\ cx' = [cx EXCEPT !.tearing_down = TRUE, !.errored = e] /\ e \in BOOLEAN
          /\ outcome' = IF o # "ok" THEN o ELSE outcome
          /\ stage' = IF e THEN "flush" ELSE "teardown"
      BY <1>4, <2>1 DEF EndShutdown
    <3>2. e => past'.own
      BY <2>0, <3>1
    <3>3. past.fault /\ cx.sender => e
      BY <1>0, <2>0, <2>1, <3>1 DEF ReplyInv, FaultInv, Open
    <3>4. outcome' \in {"ok", "throw", "bailout"}
      BY <2>0, <3>1
    <3>5. stage' \in {"flush", "teardown"}
      BY <3>1
    <3>6. ~e => outcome' = "ok"
      OBVIOUS
    <3> HIDE DEF e
    <3>7. /\ cx' \in Contexts /\ cx'.body = cx.body /\ cx'.stream = cx.stream
          /\ cx'.sender = cx.sender /\ cx'.head = cx.head /\ cx'.head_method = cx.head_method
          /\ cx'.errored = e
      BY <1>0, <3>1 DEF Contexts
    <3> QED
      BY <1>0, <1>2, <2>0, <2>1, <3>2, <3>3, <3>4, <3>5, <3>6, <3>7 DEF Stages, Open
  <2>2. CASE mode # "worker"
    <3>1. cx' = cx /\ outcome' = outcome /\ stage' = "teardown"
      BY <1>0, <1>4, <2>2 DEF EndShutdown
    <3>2. past.fault /\ cx.sender => cx.errored
      BY <1>0, <2>0, <2>2 DEF ReplyInv, FaultInv, Open
    <3> QED
      BY <1>0, <1>2, <2>0, <2>2, <3>1, <3>2 DEF Stages, Open
  <2> QED
    BY <2>1, <2>2
<1> QED
  BY <1>3, <1>4

LEMMA ReturnKeeps == ReplyInv /\ Return => ReplyInv'
<1> SUFFICES ASSUME ReplyInv, Return
             PROVE  ReplyInv'
  OBVIOUS
<1>1. UserCode /\ UNCHANGED <<mode, sg, recycle, todo, frames, left, past>>
  BY DEF Return
<1>3. EndScript("ok", FALSE) \/ EndShutdown("ok")
  BY Zenon DEF Return
<1>2. sg \in Globals /\ past \in Histories /\ past.fault \in BOOLEAN
  BY DEF ReplyInv, ReplyTyped, Histories
<1> QED
  BY <1>1, <1>2, <1>3, EndsKeep

LEMMA FailKeeps == ReplyInv /\ Fail => ReplyInv'
<1> SUFFICES ASSUME ReplyInv, Fail
             PROVE  ReplyInv'
  OBVIOUS
<1>0. sg \in Globals /\ past \in Histories
  BY DEF ReplyInv, ReplyTyped
<1>1. PICK o \in {"throw", "bailout"}, fatal \in BOOLEAN :
        /\ sg' = IF fatal THEN Recorded(sg) ELSE sg
        /\ past' = [past EXCEPT !.own = TRUE,
                                !.fault = @ \/ (fatal /\ stage = "script" /\ cx.sender)]
        /\ EndScript(o, fatal) \/ EndShutdown(o)
  BY Zenon DEF Fail
<1>2. UserCode /\ UNCHANGED <<mode, recycle, todo, frames, left>>
  BY DEF Fail
<1>3. sg' \in Globals /\ sg'.ob = sg.ob /\ sg'.field = sg.field
  BY <1>0, <1>1, GlobalsOf
<1>4. /\ past' \in Histories /\ past'.own
      /\ past'.chosen = past.chosen /\ past'.printed = past.printed /\ past'.early = past.early
      /\ past'.sealer = past.sealer /\ past'.event = past.event
      /\ past'.fault <=> past.fault \/ (fatal /\ stage = "script" /\ cx.sender)
  <2> DEFINE b == past.fault \/ (fatal /\ stage = "script" /\ cx.sender)
             yes == TRUE
  <2>1. past' = [past EXCEPT !.own = yes, !.fault = b] /\ b \in BOOLEAN /\ yes \in BOOLEAN
    BY <1>1
  <2> HIDE DEF b, yes
  <2>2. /\ past' \in Histories /\ past'.own = yes
        /\ past'.chosen = past.chosen /\ past'.printed = past.printed /\ past'.early = past.early
        /\ past'.sealer = past.sealer /\ past'.event = past.event
        /\ past'.fault = b
    BY <1>0, <2>1 DEF Histories
  <2> QED
    BY <2>2 DEF b, yes
<1> QED
  BY <1>1, <1>2, <1>3, <1>4, EndsKeep

\* An output callback bails out of a flush at the end of the request.
LEMMA BailsKeep ==
  ASSUME ReplyInv, FlushBails, todo = <<>>, UNCHANGED <<mode, outcome, frames, left>>,
         \/ stage = "flush" /\ stage' = "teardown"
         \/ stage = "teardown" /\ stage' = "seal"
  PROVE  ReplyInv'
<1>0. /\ sg \in Globals /\ past \in Histories /\ cx \in Contexts
      /\ sg.ob \in Nat /\ past.printed \in Int /\ cx.body \in Nat
  BY DEF ReplyInv, ReplyTyped, Globals, Histories, Contexts
<1>1. recycle' = TRUE /\ UNCHANGED <<cx, todo>>
  BY DEF FlushBails
<1>2. PICK fatal \in BOOLEAN : sg' = [(IF fatal THEN Recorded(sg) ELSE sg) EXCEPT !.ob = 0]
  BY DEF FlushBails
<1>3. sg' \in Globals /\ sg'.ob = 0 /\ sg'.field = sg.field
  <2> DEFINE g == IF fatal THEN Recorded(sg) ELSE sg
  <2>1. g \in Globals /\ g.field = sg.field /\ sg' = [g EXCEPT !.ob = 0]
    BY <1>0, <1>2, GlobalsOf
  <2> HIDE DEF g
  <2> QED
    BY <2>1 DEF Globals
<1> DEFINE k == IF cx.sender THEN past.printed - sg.ob ELSE past.printed
           yes == TRUE
<1>4. past' = [past EXCEPT !.own = yes, !.printed = k] /\ yes \in BOOLEAN
  BY DEF FlushBails
<1>5. k \in Int
  BY <1>0
<1> HIDE DEF k, yes
<1>6. /\ past' \in Histories /\ past'.own = yes /\ past'.printed = k
      /\ past'.chosen = past.chosen /\ past'.fault = past.fault /\ past'.early = past.early
      /\ past'.sealer = past.sealer /\ past'.event = past.event
  BY <1>0, <1>4, <1>5 DEF Histories
<1>7. past'.own /\ (~cx.sender => past'.printed = past.printed)
  BY <1>6 DEF k, yes
<1>8. stage \in {"flush", "teardown"} /\ stage' \in {"teardown", "seal"}
  OBVIOUS
<1>9. ReplyTyped' /\ BlameInv' /\ CleanInv'
  BY <1>1, <1>3, <1>6, <1>7, <1>8 DEF ReplyInv, ReplyTyped, Stages, BlameInv, CleanInv
<1>10. FaultInv'
  BY <1>1, <1>6, <1>8 DEF ReplyInv, FaultInv, Open
<1>11. OpenInv'
  <2>1. Open => past'.printed = cx.body + 0
    BY <1>0, <1>6 DEF ReplyInv, OpenInv, Open, k
  <2> QED
    BY <1>1, <1>3, <1>6, <1>7, <1>8, <2>1 DEF ReplyInv, OpenInv, Open
<1>12. WireInv'
  <2>1. cx.sender => frames = <<>>
    BY <1>8 DEF ReplyInv, OpenInv, Open
  <2> QED
    BY <1>1, <1>6, <1>7, <2>1, Quiet DEF ReplyInv
<1> QED
  BY <1>9, <1>10, <1>11, <1>12 DEF ReplyInv

LEMMA FlushAllKeeps ==
  ASSUME ReplyInv, FlushAll, todo = <<>>, UNCHANGED <<mode, outcome, frames, left>>,
         \/ stage = "flush" /\ stage' = "teardown"
         \/ stage = "teardown" /\ stage' = "seal"
  PROVE  ReplyInv'
<1>1. CASE FlushBails
  BY <1>1, BailsKeep
<1>2. CASE sg' = [sg EXCEPT !.headers_sent = TRUE, !.ob = 0] /\ Emit(sg.ob) /\ UNCHANGED recycle
  BY <1>2, EmptiedKeeps
<1> QED
  BY <1>1, <1>2 DEF FlushAll

LEMMA FlushFailedKeeps == ReplyInv /\ FlushFailed => ReplyInv'
BY FlushAllKeeps DEF FlushFailed

LEMMA TearDownKeeps == ReplyInv /\ TearDown => ReplyInv'
BY FlushAllKeeps DEF TearDown

LEMMA SealReplyKeeps == ReplyInv /\ SealReply => ReplyInv'
<1> SUFFICES ASSUME ReplyInv, SealReply
             PROVE  ReplyInv'
  OBVIOUS
<1> DEFINE c == IF mode = "classic" THEN SendHeaders(cx) ELSE cx
<1>1. /\ stage = "seal" /\ todo = <<>> /\ stage' = "after"
      /\ UNCHANGED <<mode, sg, outcome, recycle, frames, left>>
  BY DEF SealReply
<1>2. FinishResponse(c, sg.fatal, "end") /\ sg.ob = 0
  BY <1>1 DEF SealReply, ReplyInv, CleanInv
<1>3. Grown(cx, c)
  <2>1. Grown(cx, cx) /\ Grown(cx, SendHeaders(cx))
    BY <1>1, HeadsGrow DEF ReplyInv, ReplyTyped, Grown
  <2> QED
    BY <2>1
<1> HIDE DEF c
<1>4. /\ cx' \in Contexts /\ ~cx'.sender /\ (cx'.errored => past.own)
      /\ cx'.tearing_down = cx.tearing_down
      /\ SamePast(past') /\ todo' \in Seq(AnyFrame) /\ frames' \in Seq(AnyFrame) /\ WireInv'
  BY <1>1, <1>2, <1>3, FinishResponseKeeps
<1>5. ReplyTyped' /\ BlameInv' /\ CleanInv'
  BY <1>1, <1>4 DEF ReplyInv, ReplyTyped, Stages, SamePast, BlameInv, CleanInv
<1>6. FaultInv' /\ OpenInv'
  BY <1>1, <1>4 DEF FaultInv, OpenInv, Open
<1> QED
  BY <1>4, <1>5, <1>6 DEF ReplyInv

LEMMA AfterKeeps == ReplyInv /\ After => ReplyInv'
<1> SUFFICES ASSUME ReplyInv, After
             PROVE  ReplyInv'
  OBVIOUS
<1>0. /\ sg \in Globals /\ past \in Histories /\ Fresh \in Globals /\ ~Fresh.fatal
  BY DEF ReplyInv, ReplyTyped, Fresh, Globals
<1>1. /\ stage = "after" /\ todo = <<>> /\ stage' = "idle" /\ cx' = NewContext(FALSE)
      /\ UNCHANGED <<mode, outcome, todo, frames, left>> /\ recycle' = FALSE
  BY DEF After
<1>2. PICK bails \in BOOLEAN :
        LET bailed == mode = "worker" /\ (bails \/ recycle \/ outcome = "bailout")
            errored == IF mode = "worker" THEN bailed \/ outcome # "ok" ELSE cx.errored
        IN /\ sg' = IF bailed THEN Fresh ELSE Cleared(sg)
           /\ past' = [past EXCEPT !.own = @ \/ (bails /\ mode = "worker"),
                                   !.event = IF errored THEN "errored" ELSE "ok"]
  BY Zenon DEF After
<1> DEFINE bailed == mode = "worker" /\ (bails \/ recycle \/ outcome = "bailout")
           errored == IF mode = "worker" THEN bailed \/ outcome # "ok" ELSE cx.errored
           own == past.own \/ (bails /\ mode = "worker")
           event == IF errored THEN "errored" ELSE "ok"
<1>3. sg' \in Globals /\ ~sg'.fatal
  <2>1. sg' = Fresh \/ sg' = Cleared(sg)
    BY <1>2
  <2> QED
    BY <1>0, <2>1, GlobalsOf
<1>4. past' = [past EXCEPT !.own = own, !.event = event]
  BY <1>2
<1>5. /\ own \in BOOLEAN /\ event \in {"ok", "errored"} /\ (past.own => own)
      /\ event = "errored" => own
  <2>1. cx.errored \/ outcome # "ok" \/ recycle => past.own
    BY <1>1 DEF ReplyInv, BlameInv
  <2>2. errored => own
    BY <2>1
  <2>3. event = "errored" => errored
    OBVIOUS
  <2>4. own \in BOOLEAN
    BY <1>0 DEF Histories
  <2> QED
    BY <2>2, <2>3, <2>4
<1> HIDE DEF bailed, errored, own, event
<1>6. /\ past' \in Histories /\ past'.own = own /\ past'.event = event
      /\ past'.chosen = past.chosen /\ past'.fault = past.fault /\ past'.early = past.early
      /\ past'.sealer = past.sealer /\ past'.printed = past.printed
  BY <1>0, <1>4, <1>5 DEF Histories
<1>7. ReplyTyped'
  BY <1>1, <1>3, <1>6, NewContextType DEF ReplyInv, ReplyTyped, Stages
<1>8. BlameInv' /\ CleanInv' /\ FaultInv' /\ OpenInv'
  BY <1>1, <1>3, <1>5, <1>6 DEF BlameInv, CleanInv, FaultInv, OpenInv, Open
<1>9. WireInv'
  BY <1>1, <1>5, <1>6, Quiet DEF ReplyInv
<1> QED
  BY <1>7, <1>8, <1>9 DEF ReplyInv

LEMMA ClientLeavesKeeps == ReplyInv /\ ClientLeaves => ReplyInv'
<1> SUFFICES ASSUME ReplyInv, ClientLeaves
             PROVE  ReplyInv'
  OBVIOUS
<1>1. left' = TRUE /\ UNCHANGED <<mode, stage, sg, cx, outcome, recycle, todo, frames, past>>
  BY DEF ClientLeaves
<1>2. ReplyTyped' /\ BlameInv' /\ CleanInv'
  BY <1>1 DEF ReplyInv, ReplyTyped, BlameInv, CleanInv
<1>3. FaultInv' /\ OpenInv'
  BY <1>1 DEF ReplyInv, FaultInv, OpenInv, Open
<1>4. WireInv'
  <2>1. CASE frames = <<>> /\ todo = <<>>
    BY <1>1, <2>1 DEF WireInv, Underway
  <2>2. CASE \E w : Underway(w)
    <3>1. PICK w : Underway(w)
      BY <2>2
    <3>2. Carries(w)'
      BY <1>1, <3>1 DEF Carries, Prefix, Underway
    <3> QED
      BY <1>1, <3>1, <3>2 DEF WireInv, Underway, Tells
  <2> QED
    BY <2>1, <2>2 DEF ReplyInv, WireInv
<1> QED
  BY <1>2, <1>3, <1>4 DEF ReplyInv

\* Sending one frame of w leaves the rest of it to be sent.
LEMMA SendFrameCarries ==
  ASSUME ReplyTyped, NEW w \in Seq(AnyFrame), Carries(w), SendFrame
  PROVE  /\ Carries(w)' /\ frames' \in Seq(AnyFrame) /\ todo' \in Seq(AnyFrame)
         /\ ~left => Len(frames') = Len(frames) + 1
<1>1. /\ todo # <<>> /\ todo' = Tail(todo) /\ left' = left
      /\ frames' = IF left THEN frames ELSE Append(frames, Head(todo))
  BY DEF SendFrame
<1>2. frames \in Seq(AnyFrame) /\ todo \in Seq(AnyFrame) /\ left \in BOOLEAN
  BY DEF ReplyTyped
<1>3. /\ todo' \in Seq(AnyFrame) /\ Len(todo') = Len(todo) - 1 /\ Head(todo) \in AnyFrame
      /\ \A i \in 1 .. Len(todo') : todo'[i] = todo[i + 1]
      /\ Head(todo) = todo[1] /\ Len(todo) \in Nat /\ Len(todo) >= 1
  BY <1>1, <1>2, HeadTailProperties, EmptySeq
<1>4. CASE left
  BY <1>1, <1>2, <1>3, <1>4 DEF Carries, Prefix
<1>5. CASE ~left
  <2>1. frames' = Append(frames, todo[1])
    BY <1>1, <1>3, <1>5
  <2>2. /\ frames' \in Seq(AnyFrame) /\ Len(frames') = Len(frames) + 1
        /\ \A i \in 1 .. Len(frames) : frames'[i] = frames[i]
        /\ frames'[Len(frames) + 1] = todo[1]
    BY <1>2, <1>3, <2>1, AppendProperties
  <2>3. /\ Len(frames) + Len(todo) = Len(w) /\ Len(frames) \in Nat /\ Len(w) \in Nat
        /\ \A i \in 1 .. Len(frames) : frames[i] = w[i]
        /\ \A i \in 1 .. Len(todo) : todo[i] = w[Len(frames) + i]
    BY <1>2, <1>5 DEF Carries, Prefix
  <2>4. \A i \in 1 .. Len(frames') : frames'[i] = w[i]
    <3>1. w[Len(frames) + 1] = todo[1]
      BY <1>3, <2>3
    <3> QED
      BY <2>2, <2>3, <3>1
  <2>5. \A i \in 1 .. Len(todo') : todo'[i] = w[Len(frames') + i]
    BY <1>3, <2>2, <2>3
  <2>6. Len(frames') <= Len(w) /\ Len(frames') + Len(todo') = Len(w)
    <3>1. Len(todo') = Len(todo) - 1 /\ Len(frames') = Len(frames) + 1 /\ Len(todo) >= 1
      BY <1>3, <2>2
    <3>2. Len(frames) + Len(todo) = Len(w) /\ Len(frames) \in Nat /\ Len(todo) \in Nat
      BY <1>3, <2>3
    <3>3. (Len(frames) + 1) + (Len(todo) - 1) = Len(w) /\ Len(frames) + 1 <= Len(w)
      BY <3>1, <3>2
    <3> QED
      BY <3>1, <3>3
  <2> QED
    BY <1>3, <2>2, <2>4, <2>5, <2>6 DEF Carries, Prefix
<1> QED
  BY <1>2, <1>4, <1>5

LEMMA SendFrameKeeps == ReplyInv /\ SendFrame => ReplyInv'
<1> SUFFICES ASSUME ReplyInv, SendFrame
             PROVE  ReplyInv'
  OBVIOUS
<1>1. /\ todo # <<>> /\ UNCHANGED <<mode, stage, sg, cx, outcome, recycle, left, past>>
      /\ left => frames' = frames
  BY DEF SendFrame
<1>2. PICK w : Underway(w)
  BY <1>1 DEF ReplyInv, WireInv
<1>3. Carries(w)' /\ frames' \in Seq(AnyFrame) /\ todo' \in Seq(AnyFrame)
  BY <1>2, SendFrameCarries DEF Underway, ReplyInv
<1>4. Underway(w)'
  BY <1>1, <1>2, <1>3 DEF Underway, Tells, ReplyInv, ReplyTyped
<1>5. ReplyTyped' /\ BlameInv' /\ CleanInv'
  BY <1>1, <1>3 DEF ReplyInv, ReplyTyped, BlameInv, CleanInv
<1>6. FaultInv' /\ OpenInv'
  BY <1>1 DEF ReplyInv, FaultInv, OpenInv, Open
<1> QED
  BY <1>4, <1>5, <1>6 DEF ReplyInv, WireInv

LEMMA ReplyStepKeeps == ReplyInv /\ [ReplyNext]_reply_vars => ReplyInv'
<1>1. ASSUME ReplyInv, UNCHANGED reply_vars
      PROVE  ReplyInv'
  <2>1. UNCHANGED <<mode, stage, sg, cx, outcome, recycle, todo, frames, left, past>>
    BY <1>1 DEF reply_vars
  <2>2. ReplyTyped' /\ BlameInv' /\ CleanInv'
    BY <1>1, <2>1 DEF ReplyInv, ReplyTyped, BlameInv, CleanInv
  <2>3. FaultInv' /\ OpenInv'
    BY <1>1, <2>1 DEF ReplyInv, FaultInv, OpenInv, Open
  <2>4. WireInv'
    BY <1>1, <2>1, Quiet DEF ReplyInv
  <2> QED
    BY <2>2, <2>3, <2>4 DEF ReplyInv
<1> QED
  BY <1>1, BindKeeps, ShedUnitKeeps, StartFailsKeeps, SetStatusKeeps, EchoKeeps, FlushKeeps,
     FinishRequestKeeps, WarnKeeps, ReturnKeeps, FailKeeps, FlushFailedKeeps, TearDownKeeps,
     SealReplyKeeps, AfterKeeps, SendFrameKeeps, ClientLeavesKeeps DEF ReplyNext

LEMMA ReplyAlways == ReplySpec => []ReplyInv
BY ReplyInitKeeps, ReplyStepKeeps, PTL DEF ReplySpec

-----------------------------------------------------------------------------
(* What the client sees of a reply.                                        *)

\* The frames of a kind in f, which has been sent of the reply w.
LEMMA Seen ==
  ASSUME NEW f \in Seq(AnyFrame), NEW w \in Seq(AnyFrame), Shape(w), Prefix(f, w)
  PROVE  /\ Places(f, "head") = IF Len(f) >= 1 /\ Len(w) >= 2 THEN {1} ELSE {}
         /\ Places(f, "chunk") = IF Len(f) >= 2 /\ Len(w) = 3 THEN {2} ELSE {}
         /\ Places(f, "end") = IF Len(f) = Len(w) THEN {Len(w)} ELSE {}
<1>1. /\ DOMAIN f = 1 .. Len(f) /\ Len(f) \in Nat /\ Len(f) <= Len(w)
      /\ Len(w) \in 1 .. 3 /\ \A i \in 1 .. Len(f) : f[i] = w[i]
  BY DEF Prefix, Shape
<1>2. \A i \in 1 .. Len(w) :
        /\ w[i].kind = "head" <=> i = 1 /\ Len(w) >= 2
        /\ w[i].kind = "chunk" <=> i = 2 /\ Len(w) = 3
        /\ w[i].kind = "end" <=> i = Len(w)
  <2>1. /\ \A h \in HeadFrames : h.kind = "head"
        /\ \A k \in ChunkFrames : k.kind = "chunk"
        /\ \A e \in EndFrames : e.kind = "end"
    BY DEF HeadFrames, ChunkFrames, EndFrames
  <2>2. CASE Len(w) = 1 /\ w[1] \in EndFrames
    BY <2>1, <2>2
  <2>3. CASE Len(w) = 2 /\ w[1] \in HeadFrames /\ w[2] \in EndFrames
    <3>1. w[1].kind = "head" /\ w[2].kind = "end"
      BY <2>1, <2>3
    <3> QED
      BY <2>3, <3>1
  <2>4. CASE Len(w) = 3 /\ w[1] \in HeadFrames /\ w[2] \in ChunkFrames /\ w[3] \in EndFrames
    <3>1. w[1].kind = "head" /\ w[2].kind = "chunk" /\ w[3].kind = "end"
      BY <2>1, <2>4
    <3> QED
      BY <2>4, <3>1
  <2> QED
    BY <2>2, <2>3, <2>4 DEF Shape
<1>3. ASSUME NEW kind, NEW n \in Nat, \A i \in 1 .. Len(w) : w[i].kind = kind => i = n
      PROVE  Places(f, kind) = IF n \in 1 .. Len(f) /\ w[n].kind = kind THEN {n} ELSE {}
  <2>1. \A i : i \in Places(f, kind) <=> i \in 1 .. Len(f) /\ w[i].kind = kind
    BY <1>1 DEF Places
  <2>2. \A i \in Places(f, kind) : i = n
    BY <1>1, <1>3, <2>1
  <2> QED
    BY <2>1, <2>2
<1>4. Places(f, "head") = IF 1 \in 1 .. Len(f) /\ w[1].kind = "head" THEN {1} ELSE {}
  BY <1>2, <1>3
<1>5. Places(f, "chunk") = IF 2 \in 1 .. Len(f) /\ w[2].kind = "chunk" THEN {2} ELSE {}
  BY <1>2, <1>3
<1>6. Places(f, "end") = IF Len(w) \in 1 .. Len(f) /\ w[Len(w)].kind = "end" THEN {Len(w)} ELSE {}
  BY <1>1, <1>2, <1>3
<1>7. 1 \in 1 .. Len(f) /\ w[1].kind = "head" <=> Len(f) >= 1 /\ Len(w) >= 2
  BY <1>1, <1>2
<1>8. 2 \in 1 .. Len(f) /\ w[2].kind = "chunk" <=> Len(f) >= 2 /\ Len(w) = 3
  BY <1>1, <1>2
<1>9. Len(w) \in 1 .. Len(f) /\ w[Len(w)].kind = "end" <=> Len(f) = Len(w)
  BY <1>1, <1>2
<1> QED
  BY <1>4, <1>5, <1>6, <1>7, <1>8, <1>9

LEMMA FirstIs ==
  ASSUME NEW f, NEW kind, NEW n \in Nat, Places(f, kind) = {n}
  PROVE  FirstOf(f, kind) = f[n]
<1>1. (CHOOSE i \in {n} : \A j \in {n} : i <= j) = n
  OBVIOUS
<1> QED
  BY <1>1 DEF FirstOf

\* What f shows of w.
LEMMA SeenFrames ==
  ASSUME NEW f \in Seq(AnyFrame), NEW w \in Seq(AnyFrame), Shape(w), Prefix(f, w)
  PROVE  /\ Places(f, "head") # {} <=> Len(f) >= 1 /\ Len(w) >= 2
         /\ Places(f, "head") # {} => FirstOf(f, "head") = w[1]
         /\ Places(f, "chunk") # {} <=> Len(f) >= 2 /\ Len(w) = 3
         /\ Places(f, "chunk") # {} => FirstOf(f, "chunk") = w[2]
         /\ Places(f, "end") # {} <=> Len(f) = Len(w)
         /\ Places(f, "end") # {} => FirstOf(f, "end") = w[Len(w)]
<1>1. /\ Len(f) \in Nat /\ Len(w) \in 1 .. 3
      /\ \A i \in 1 .. Len(f) : f[i] = w[i]
  BY DEF Prefix, Shape
<1>2. /\ Places(f, "head") = IF Len(f) >= 1 /\ Len(w) >= 2 THEN {1} ELSE {}
      /\ Places(f, "chunk") = IF Len(f) >= 2 /\ Len(w) = 3 THEN {2} ELSE {}
      /\ Places(f, "end") = IF Len(f) = Len(w) THEN {Len(w)} ELSE {}
  BY Seen
<1>3. ASSUME NEW kind, NEW n \in 1 .. Len(f), Places(f, kind) = {n}
      PROVE  FirstOf(f, kind) = w[n]
  BY <1>1, <1>3, FirstIs
<1>4. ASSUME Places(f, "head") # {}
      PROVE  FirstOf(f, "head") = w[1]
  <2>1. Places(f, "head") = {1} /\ 1 \in 1 .. Len(f)
    BY <1>1, <1>2, <1>4
  <2> QED
    BY <1>3, <2>1
<1>5. ASSUME Places(f, "chunk") # {}
      PROVE  FirstOf(f, "chunk") = w[2]
  <2>1. Places(f, "chunk") = {2} /\ 2 \in 1 .. Len(f)
    BY <1>1, <1>2, <1>5
  <2> QED
    BY <1>3, <2>1
<1>6. ASSUME Places(f, "end") # {}
      PROVE  FirstOf(f, "end") = w[Len(w)]
  <2>1. Places(f, "end") = {Len(w)} /\ Len(w) \in 1 .. Len(f)
    BY <1>1, <1>2, <1>6
  <2> QED
    BY <1>3, <2>1
<1> QED
  BY <1>2, <1>4, <1>5, <1>6

LEMMA NothingSeen ==
  ASSUME frames = <<>>
  PROVE  ~HasHead /\ ~Ended /\ ~Complete /\ Chunk = 0
<1>1. DOMAIN frames = {}
  OBVIOUS
<1>2. \A kind : Places(frames, kind) = {}
  BY <1>1 DEF Places
<1> QED
  BY <1>2 DEF HasHead, Ended, Complete, Chunk

LEMMA ReplyTells == ReplyInv => EndTells /\ AnswersForItself
<1> SUFFICES ASSUME ReplyInv
             PROVE  EndTells /\ AnswersForItself
  OBVIOUS
<1>1. past.event = "errored" => past.own
  BY DEF ReplyInv, CleanInv
<1>2. CASE frames = <<>>
  BY <1>1, <1>2, NothingSeen DEF EndTells, PrintedArrives, FailureIsCut, AnswersForItself
<1>3. CASE frames # <<>>
  <2>1. PICK w : w \in Seq(AnyFrame) /\ Shape(w) /\ Carries(w) /\ Tells(w, past)
    BY <1>3 DEF ReplyInv, WireInv, Underway
  <2>2. /\ HasHead <=> Len(frames) >= 1 /\ Len(w) >= 2
        /\ HasHead => TheHead = w[1]
        /\ Chunk = IF Len(frames) >= 2 /\ Len(w) = 3 THEN w[2].bytes ELSE 0
        /\ Ended <=> Len(frames) = Len(w)
        /\ Complete <=> Ended /\ ~CutAtEnd(w)
    BY <2>1, SeenFrames
    DEF ReplyInv, ReplyTyped, Carries, HasHead, TheHead, Chunk, Ended, Complete, CutAtEnd
  <2>3. Complete /\ HasHead => Chunk = BytesIn(w)
    BY <2>2 DEF BytesIn
  <2>4. EndTells
    BY <2>1, <2>2, <2>3 DEF Tells, EndTells, PrintedArrives, FailureIsCut
  <2>5. AnswersForItself
    BY <1>1, <2>1, <2>2 DEF Tells, AnswersForItself
  <2> QED
    BY <2>4, <2>5
<1> QED
  BY <1>2, <1>3

\* The end of a reply tells the client what became of the script, for any bound
\* on the output and any status codes.
THEOREM EndsTell == ReplySpec => []EndTells
BY ReplyAlways, ReplyTells, PTL

\* A request answers for itself, whatever the engine keeps of the one before.
THEOREM RequestsAnswerForThemselves == ReplySpec => []AnswersForItself
BY ReplyAlways, ReplyTells, PTL

-----------------------------------------------------------------------------
(* The refinement of FrameStream.                                          *)

Phase == IF Ended THEN "ended" ELSE IF HasHead THEN "body" ELSE "start"
Limit == IF ~HasHead \/ TheHead.bodiless THEN Unknown ELSE TheHead.length

\* One more frame of a reply is one step of its stream.
LEMMA FrameIsStep ==
  ASSUME ReplyInv, SendFrame, frames' # frames
  PROVE  Stream!SNext
<1>1. PICK w : Underway(w)
  BY DEF SendFrame, ReplyInv, WireInv
<1>2. /\ w \in Seq(AnyFrame) /\ Shape(w) /\ Carries(w) /\ Carries(w)' /\ ReplyTyped /\ ReplyTyped'
      /\ Len(frames') = Len(frames) + 1 /\ Len(frames) \in Nat
      /\ Len(w) \in 1 .. 3 /\ Len(frames') <= Len(w)
  <2>1. ~left /\ ReplyTyped /\ ReplyTyped'
    BY SendFrameKeeps DEF SendFrame, ReplyInv
  <2>2. Carries(w)' /\ Len(frames') = Len(frames) + 1
    BY <1>1, <2>1, SendFrameCarries DEF Underway
  <2> QED
    BY <1>1, <2>1, <2>2 DEF Underway, Shape, Carries, Prefix, ReplyTyped
<1>3. /\ HasHead <=> Len(frames) >= 1 /\ Len(w) >= 2
      /\ HasHead => TheHead = w[1]
      /\ Chunk = IF Len(frames) >= 2 /\ Len(w) = 3 THEN w[2].bytes ELSE 0
      /\ Ended <=> Len(frames) = Len(w)
  BY <1>2, SeenFrames DEF ReplyTyped, Carries, HasHead, TheHead, Chunk, Ended
<1>4. /\ HasHead' <=> Len(frames') >= 1 /\ Len(w) >= 2
      /\ HasHead' => TheHead' = w[1]
      /\ Chunk' = IF Len(frames') >= 2 /\ Len(w) = 3 THEN w[2].bytes ELSE 0
      /\ Ended' <=> Len(frames') = Len(w)
  <2>1. frames' \in Seq(AnyFrame) /\ Prefix(frames', w)
    BY <1>2 DEF ReplyTyped, Carries
  <2> QED
    BY <1>2, <2>1, SeenFrames DEF HasHead, TheHead, Chunk, Ended
<1>5. ~Ended
  BY <1>2, <1>3
<1>6. CASE Len(frames') = Len(w)
  <2>1. (HasHead' <=> HasHead) /\ Chunk' = Chunk
    <3>1. Len(frames) = Len(w) - 1
      BY <1>2, <1>4, <1>6
    <3>2. HasHead' <=> HasHead
      BY <1>2, <1>3, <1>4, <3>1
    <3>3. Chunk' = Chunk
      BY <1>2, <1>3, <1>4, <3>1
    <3> QED
      BY <3>2, <3>3
  <2>2. Limit' = Limit
    BY <1>3, <1>4, <2>1 DEF Limit
  <2>3. Phase \in {"start", "body"} /\ Phase' = "ended"
    BY <1>4, <1>5, <1>6 DEF Phase
  <2> QED
    BY <2>1, <2>2, <2>3 DEF Stream!SNext, Stream!End, Phase, Limit
<1>7. CASE Len(frames') # Len(w) /\ Len(frames) = 0
  <2>0. Len(frames') = 1 /\ Len(w) >= 2
    <3>1. Len(frames') = 1
      BY <1>2, <1>7
    <3>2. Len(w) \in 1 .. 3 /\ Len(w) # 1
      BY <1>2, <1>7, <3>1
    <3>3. \A n \in 1 .. 3 : n # 1 => n >= 2
      OBVIOUS
    <3> QED
      BY <3>1, <3>2, <3>3
  <2>1. ~HasHead /\ HasHead' /\ Chunk = 0 /\ Chunk' = 0
    BY <1>3, <1>4, <1>7, <2>0
  <2>2. w[1] \in HeadFrames /\ Limit' \in Nat \cup {Unknown}
    <3>1. w[1] \in HeadFrames
      <4>0. \A n : n >= 2 => n # 1
        OBVIOUS
      <4>1. Shape(w) /\ Len(w) # 1
        BY <1>2, <2>0, <4>0
      <4> QED
        BY <4>1 DEF Shape
    <3> QED
      BY <1>4, <2>1, <3>1 DEF Limit, HeadFrames
  <2>3. Phase = "start" /\ Phase' = "body"
    BY <1>4, <1>5, <1>7, <2>1 DEF Phase
  <2> QED
    BY <2>1, <2>2, <2>3 DEF Stream!SNext, Stream!Begin, Stream!Unknown, Unknown, Phase, Limit
<1>8. CASE Len(frames') # Len(w) /\ Len(frames) # 0
  <2>1. Len(w) = 3 /\ Len(frames) = 1 /\ HasHead /\ HasHead' /\ Chunk = 0 /\ Chunk' = w[2].bytes
    <3>1. Len(w) = 3 /\ Len(frames) = 1 /\ Len(frames') = 2
      <4>1. /\ Len(frames') = Len(frames) + 1 /\ Len(frames) \in Nat /\ Len(w) \in 1 .. 3
            /\ Len(frames') <= Len(w) /\ Len(frames') # Len(w) /\ Len(frames) # 0
        BY <1>2, <1>8
      <4>2. \A k \in Nat, n \in 1 .. 3 : k # 0 /\ k + 1 <= n /\ k + 1 # n => n = 3 /\ k = 1
        OBVIOUS
      <4>3. Len(w) = 3 /\ Len(frames) = 1
        BY <4>1, <4>2
      <4> QED
        BY <4>1, <4>3
    <3> QED
      BY <1>3, <1>4, <3>1
  <2>2. Phase = "body" /\ Phase' = "body"
    BY <1>4, <1>5, <1>8, <2>1 DEF Phase
  <2>3. Limit' = Limit /\ (Limit = Unknown \/ Limit = w[1].length)
    BY <1>3, <1>4, <2>1 DEF Limit
  <2>4. /\ Chunk' \in Nat /\ Chunk' > Chunk
        /\ Limit = Unknown \/ Chunk' <= Limit
    BY <1>2, <2>1, <2>3 DEF Shape, ChunkFrames
  <2> QED
    BY <2>1, <2>2, <2>3, <2>4
    DEF Stream!SNext, Stream!Carry, Stream!Unknown, Unknown, Phase, Limit
<1> QED
  BY <1>6, <1>7, <1>8

\* However a request ends, and however often its reply is sealed, the frames on
\* its channel are one well-formed stream, step by step.
THEOREM RepliesAreStreams == ReplySpec => ImplementsStreams
<1>1. ReplyInit => Stream!SInit
  <2> SUFFICES ASSUME ReplyInit
               PROVE  Stream!SInit
    OBVIOUS
  <2>1. ~HasHead /\ ~Ended /\ Chunk = 0
    BY NothingSeen DEF ReplyInit
  <2> QED
    BY <2>1 DEF Stream!SInit, Stream!Unknown, Unknown
<1>2. ReplyInv /\ [ReplyNext]_reply_vars => [frames' = <<>> \/ Stream!SNext]_frames
  <2> SUFFICES ASSUME ReplyInv, ReplyNext, frames' # frames
               PROVE  frames' = <<>> \/ Stream!SNext
    BY DEF reply_vars
  <2>1. Bind \/ ShedUnit \/ SendFrame
    <3>1. StartFails \/ SetStatus \/ Echo => frames' = frames
      BY DEF StartFails, SetStatus, Echo
    <3>2. Flush \/ FinishRequest \/ Warn \/ Return => frames' = frames
      BY DEF Flush, FinishRequest, Warn, Return
    <3>3. Fail => frames' = frames
      BY Zenon DEF Fail
    <3>4. FlushFailed \/ TearDown \/ SealReply => frames' = frames
      BY DEF FlushFailed, TearDown, SealReply
    <3>5. After \/ ClientLeaves => frames' = frames
      BY Zenon DEF After, ClientLeaves
    <3> QED
      BY <3>1, <3>2, <3>3, <3>4, <3>5 DEF ReplyNext
  <2> QED
    BY <2>1, FrameIsStep DEF Bind, ShedUnit
<1> QED
  BY <1>1, <1>2, ReplyAlways, PTL DEF ReplySpec, ImplementsStreams

=============================================================================
