---------------------------- MODULE StaticCache ----------------------------
(***************************************************************************)
(* The file cache of the HTTP plugin's static files                        *)
(* (crates/middleware/static_files/src/cache.rs).                          *)
(*                                                                         *)
(* Requests run on several runtime threads and share one store behind a    *)
(* mutex.  A request stats its path, then opens it; both look into the     *)
(* store first and go to the file system on a miss, with the mutex         *)
(* released.  Files change meanwhile: a version stands for the bytes of a  *)
(* file together with its modification time and length, so two versions    *)
(* never compare equal (a replacement that keeps both is undetected, as    *)
(* the code says at same_file).                                            *)
(*                                                                         *)
(* pc[r]:                                                                  *)
(*   idle      no request                 opened    has a handle and its   *)
(*   stat      its clock is read                    metadata               *)
(*   statting  missed, calls the file     reading   admitted, reads        *)
(*             system                     read      has the bytes          *)
(*   statted   has the metadata           reread    has the second         *)
(*   open      about to open                        metadata               *)
(*   opening   missed, opens the file     failed    got an error           *)
(***************************************************************************)
EXTENDS Integers, FiniteSetsExt

CONSTANTS Requests,  \* requests in flight at once
          Paths,
          NoEntry,   \* an absent entry of the store
          NoPath,    \* the path of no request
          TTL,       \* the freshness of an entry, in ticks
          MaxFile,   \* MAX_FILE
          MaxTotal,  \* MAX_TOTAL
          Overhead,  \* the path and ENTRY_OVERHEAD
          Versions,  \* bound: versions that are ever written
          Length,    \* Length[v]: the bytes of version v
          MaxTime    \* bound: ticks of the clock

ASSUME CacheConstants ==
  /\ IsFiniteSet(Paths)
  /\ TTL \in Nat \ {0}
  /\ MaxFile \in Nat /\ MaxTotal \in Nat /\ Overhead \in Nat
  /\ Versions \in Nat /\ MaxTime \in Nat
  /\ Length \in [1 .. Versions -> Nat]
  /\ NoEntry \notin [body : 0 .. Versions, meta : 0 .. Versions, checked : Nat]

NoFile == 0
Never  == -1

VARIABLES
  file,    \* the version a path names now, or NoFile
  written, \* versions written so far
  now,     \* Instant::now()
  store,   \* Store: map (path to [body, meta, checked]), bytes, next_expiry
  pc,      \* where a request is
  path,    \* its path, NoPath when idle
  asked,   \* the `now` of its stat
  handle,  \* the version its open file has now
  meta,    \* the metadata it read first
  body,    \* the bytes it read
  second   \* the metadata it read again

files   == <<file, written>>
reads   == <<handle, meta, body, second>>
request == <<path, asked, reads>>
vars    == <<files, now, store, pc, request>>

PC == {"idle", "stat", "statting", "statted", "open", "opening", "opened", "reading",
       "read", "reread", "failed"}

Init ==
  /\ file = [p \in Paths |-> NoFile]
  /\ written = 0
  /\ now = 0
  /\ store = [map |-> [p \in Paths |-> NoEntry], bytes |-> 0, next_expiry |-> Never]
  /\ pc = [r \in Requests |-> "idle"]
  /\ path = [r \in Requests |-> NoPath]
  /\ asked = [r \in Requests |-> 0]
  /\ handle = [r \in Requests |-> NoFile]
  /\ meta = [r \in Requests |-> NoFile]
  /\ body = [r \in Requests |-> NoFile]
  /\ second = [r \in Requests |-> NoFile]

At(r, p) == pc[r] = p
Goto(r, p) == pc' = [pc EXCEPT ![r] = p]

\* The request is answered; what it read is gone.
Done(r) ==
  /\ Goto(r, "idle")
  /\ path' = [path EXCEPT ![r] = NoPath]
  /\ asked' = [asked EXCEPT ![r] = 0]
  /\ handle' = [handle EXCEPT ![r] = NoFile]
  /\ meta' = [meta EXCEPT ![r] = NoFile]
  /\ body' = [body EXCEPT ![r] = NoFile]
  /\ second' = [second EXCEPT ![r] = NoFile]

-----------------------------------------------------------------------------
(* Store: what each method leaves of a store s, at the time t.  A Broken... *)
(* operator stands for one plausible bug of the operator after it; no       *)
(* specification uses it.                                                   *)

Cached(s) == {p \in Paths : s.map[p] # NoEntry}

Footprint(v) == Length[v] + Overhead

Weight(s, p) == IF s.map[p] = NoEntry THEN 0 ELSE Footprint(s.map[p].body)

\* What the entries of S weigh together.
TotalWeight(s, S) == SumFunctionOnSet([p \in Paths |-> Weight(s, p)], S)

\* fresh.
IsFresh(s, p, t) == s.map[p] # NoEntry /\ t - s.map[p].checked < TTL

BrokenTake(s, p) == [s EXCEPT !.map[p] = NoEntry]

Take(s, p) == [s EXCEPT !.map[p] = NoEntry, !.bytes = @ - Weight(s, p)]

Fits(s, p, v) == s.bytes - Weight(s, p) + Footprint(v) <= MaxTotal

Expired(s, t) == {p \in Cached(s) : ~IsFresh(s, p, t)}

\* The time before which no entry that is fresh at t can expire.
FirstExpiry(s, t) == Min({t} \cup {s.map[p].checked : p \in Cached(s) \ Expired(s, t)}) + TTL

DropExpired(s, t) ==
  [map         |-> [p \in Paths |-> IF p \in Expired(s, t) THEN NoEntry ELSE s.map[p]],
   bytes       |-> s.bytes - TotalWeight(s, Expired(s, t)),
   next_expiry |-> FirstExpiry(s, t)]

\* make_room, of which the caller then asks Fits again.
MakeRoom(s, p, v, t) ==
  IF Fits(s, p, v) \/ t < s.next_expiry THEN s ELSE DropExpired(s, t)

\* An entry that still matches its file is fresh again from t on.
Renew(s, p, t) ==
  [s EXCEPT !.map[p].checked = t,
            !.next_expiry = IF @ = Never \/ @ < t + TTL THEN @ ELSE t + TTL]

Revalidate(s, p, m, t) ==
  IF s.map[p] = NoEntry THEN s
  ELSE IF s.map[p].meta = m THEN Renew(s, p, t) ELSE Take(s, p)

\* What an entry that is put adds to the bytes.
Charge(v) == Footprint(v)

Put(s, p, b, m, t) ==
  LET roomy == MakeRoom(s, p, b, t)
      taken == Take(roomy, p)
  IN  IF Fits(roomy, p, b)
      THEN [taken EXCEPT !.map[p] = [body |-> b, meta |-> m, checked |-> t],
                         !.bytes = @ + Charge(b)]
      ELSE roomy

-----------------------------------------------------------------------------
(* CachingBackend: a request's stat, then its open.                        *)

\* A request comes; the stat reads the clock before it locks the store.
Ask(r) ==
  /\ At(r, "idle")
  /\ \E p \in Paths : path' = [path EXCEPT ![r] = p]
  /\ asked' = [asked EXCEPT ![r] = now]
  /\ Goto(r, "stat")
  /\ UNCHANGED <<files, now, store, reads>>

\* stat: a fresh entry answers; HEAD needs no more.
Stat(r) ==
  /\ At(r, "stat")
  /\ \/ /\ IsFresh(store, path[r], asked[r])
        /\ \/ Done(r)
           \/ Goto(r, "open") /\ asked' = [asked EXCEPT ![r] = 0] /\ UNCHANGED <<path, reads>>
     \/ /\ ~IsFresh(store, path[r], asked[r])
        /\ Goto(r, "statting")
        /\ UNCHANGED request
  /\ UNCHANGED <<files, now, store>>

\* stat: std::fs::metadata, or an error, which a missing file always is.
ReadMetadata(r) ==
  /\ At(r, "statting")
  /\ \/ /\ file[path[r]] # NoFile
        /\ meta' = [meta EXCEPT ![r] = file[path[r]]]
        /\ Goto(r, "statted")
     \/ Goto(r, "failed") /\ UNCHANGED meta
  /\ UNCHANGED <<files, now, store, path, asked, handle, body, second>>

\* stat and fill: a path that cannot be read loses its entry.
Forget(r) ==
  /\ At(r, "failed")
  /\ store' = Take(store, path[r])
  /\ Done(r)
  /\ UNCHANGED <<files, now>>

\* stat: revalidate, with the time before the system call.
Confirm(r) ==
  /\ At(r, "statted")
  /\ store' = Revalidate(store, path[r], meta[r], asked[r])
  /\ \/ Done(r)
     \/ /\ Goto(r, "open")
        /\ asked' = [asked EXCEPT ![r] = 0]
        /\ meta' = [meta EXCEPT ![r] = NoFile]
        /\ UNCHANGED <<path, handle, body, second>>
  /\ UNCHANGED <<files, now>>

\* open: the bytes of a fresh entry answer; anything else fills.
Hit(r) ==
  /\ At(r, "open")
  /\ \/ IsFresh(store, path[r], now) /\ Done(r)
     \/ ~IsFresh(store, path[r], now) /\ Goto(r, "opening") /\ UNCHANGED request
  /\ UNCHANGED <<files, now, store>>

\* fill: File::open and the handle's metadata, or an error; a directory, or
\* an error after the open, leaves the entry alone.
OpenFile(r) ==
  /\ At(r, "opening")
  /\ \/ /\ file[path[r]] # NoFile
        /\ handle' = [handle EXCEPT ![r] = file[path[r]]]
        /\ meta' = [meta EXCEPT ![r] = file[path[r]]]
        /\ Goto(r, "opened")
        /\ UNCHANGED <<path, asked, body, second>>
     \/ file[path[r]] # NoFile /\ Done(r)
     \/ Goto(r, "failed") /\ UNCHANGED request
  /\ UNCHANGED <<files, now, store>>

\* fill: a file that is too large, or that finds no room, is streamed.
Admit(r) ==
  /\ At(r, "opened")
  /\ LET roomy == MakeRoom(store, path[r], meta[r], now)
     IN  \/ Length[meta[r]] > MaxFile /\ Done(r) /\ UNCHANGED store
         \/ /\ Length[meta[r]] <= MaxFile
            /\ store' = roomy
            /\ \/ ~Fits(roomy, path[r], meta[r]) /\ Done(r)
               \/ /\ Fits(roomy, path[r], meta[r])
                  /\ Goto(r, "reading")
                  /\ UNCHANGED request
  /\ UNCHANGED <<files, now>>

\* fill, on the blocking pool: the bytes, or a read error; a client that leaves
\* drops the fill.
ReadBytes(r) ==
  /\ At(r, "reading")
  /\ \/ /\ body' = [body EXCEPT ![r] = handle[r]]
        /\ Goto(r, "read")
        /\ UNCHANGED <<path, asked, handle, meta, second>>
     \/ Done(r)
  /\ UNCHANGED <<files, now, store>>

\* fill, on the blocking pool: the second metadata.
Reread(r) ==
  /\ At(r, "read")
  /\ second' = [second EXCEPT ![r] = handle[r]]
  /\ Goto(r, "reread")
  /\ UNCHANGED <<files, now, store, path, asked, handle, meta, body>>

BrokenUnchanged(r) == TRUE

\* The bytes belong to the first metadata.
Unchanged(r) == second[r] = meta[r]

\* fill, back on the runtime: the entry is put, or a changed file streamed.
Fill(r) ==
  /\ At(r, "reread")
  /\ store' = IF Unchanged(r) THEN Put(store, path[r], body[r], meta[r], now)
              ELSE Take(store, path[r])
  /\ Done(r)
  /\ UNCHANGED <<files, now>>

-----------------------------------------------------------------------------
(* The surroundings.                                                       *)

\* A file is created, replaced, or written in place, which open handles see.
WriteFile(p) ==
  /\ written < Versions
  /\ written' = written + 1
  /\ file' = [file EXCEPT ![p] = written']
  /\ \/ handle' = [r \in Requests |-> IF file[p] # NoFile /\ handle[r] = file[p]
                                     THEN written' ELSE handle[r]]
     \/ UNCHANGED handle
  /\ UNCHANGED <<now, store, pc, path, asked, meta, body, second>>

DeleteFile(p) ==
  /\ file[p] # NoFile
  /\ file' = [file EXCEPT ![p] = NoFile]
  /\ UNCHANGED <<written, now, store, pc, request>>

Tick ==
  /\ now < MaxTime
  /\ now' = now + 1
  /\ UNCHANGED <<files, store, pc, request>>

Serve(r) ==
  \/ Ask(r) \/ Stat(r) \/ ReadMetadata(r) \/ Forget(r) \/ Confirm(r) \/ Hit(r)
  \/ OpenFile(r) \/ Admit(r) \/ ReadBytes(r) \/ Reread(r) \/ Fill(r)

Next ==
  \/ \E r \in Requests : Serve(r)
  \/ \E p \in Paths : WriteFile(p) \/ DeleteFile(p)
  \/ Tick

Spec == Init /\ [][Next]_vars

-----------------------------------------------------------------------------
(* Properties.                                                             *)

\* The byte counter is what the entries weigh, through takes, replacements,
\* refused puts and expiries, and never passes the limit.
BytesExact ==
  /\ store.bytes = TotalWeight(store, Paths)
  /\ store.bytes <= MaxTotal

\* An entry never holds new metadata with old bytes, whatever was written
\* while it was read ("Each entry holds file bytes and metadata from the same
\* read").
EntryWhole == \A p \in Cached(store) : store.map[p].body = store.map[p].meta

\* No resident entry can expire before next_expiry, so a full cache refuses a
\* file only while every entry in it is fresh.
RefusesOnlyWhileFresh ==
  store.next_expiry > now => \A p \in Cached(store) : IsFresh(store, p, now)

\* What the store remembers about its entries is true of them: the bytes, and
\* the time before which no search for expired ones is needed (cache.rs).
StoreExact == BytesExact /\ RefusesOnlyWhileFresh
=============================================================================
