-------------------------- MODULE StaticCacheProofs --------------------------
(***************************************************************************)
(* The entries of StaticCache, for any number of requests, paths, versions *)
(* and ticks.  The inductive invariant orders the versions that a fill has *)
(* seen: its first metadata is no younger than its bytes, and these are no *)
(* younger than its second metadata, since a handle only moves on to newer *)
(* versions.  When the two metadata agree, all three are one version.      *)
(* It also bounds next_expiry by the expiry of every entry, and says what  *)
(* the byte counter is: the sum of the entries' weights, at most MaxTotal. *)
(* A weight is a number because the store only gets versions of files that *)
(* were there, which the invariant says of what a fill has read.           *)
(***************************************************************************)
EXTENDS StaticCache, SumTheorems, TLAPS

Version == 0 .. Versions

\* The versions of files that are there.
Written == 1 .. Versions

Entry == [body : Written, meta : Written, checked : Nat]

\* A record with the fields of a store, whatever its counters say.
Store(s) == s \in [map : {s.map}, bytes : {s.bytes}, next_expiry : {s.next_expiry}]

\* A store whose entries are whole.
Whole(s) ==
  /\ Store(s)
  /\ s.map \in [Paths -> Entry \cup {NoEntry}]
  /\ \A p \in Paths : s.map[p] # NoEntry => s.map[p].body = s.map[p].meta

FilesTyped ==
  /\ written \in Version
  /\ file \in [Paths -> 0 .. written]
  /\ now \in Nat

ReadsTyped ==
  /\ handle \in [Requests -> 0 .. written]
  /\ meta \in [Requests -> 0 .. written]
  /\ body \in [Requests -> 0 .. written]
  /\ second \in [Requests -> 0 .. written]

RequestsTyped ==
  /\ pc \in [Requests -> PC]
  /\ path \in [Requests -> Paths \cup {NoPath}]
  /\ asked \in [Requests -> Nat]
  /\ \A r \in Requests : pc[r] # "idle" => path[r] \in Paths

\* The order of what a fill has read so far, and of what its handle has now.
InOrder(r) ==
  /\ pc[r] \in {"opened", "reading", "read", "reread"} => meta[r] # NoFile
  /\ pc[r] \in {"opened", "reading"} => meta[r] <= handle[r]
  /\ pc[r] = "read" => meta[r] <= body[r] /\ body[r] <= handle[r]
  /\ pc[r] = "reread" => meta[r] <= body[r] /\ body[r] <= second[r]

OrderInv == \A r \in Requests : InOrder(r)

ReadInv == FilesTyped /\ ReadsTyped /\ RequestsTyped /\ OrderInv

\* No entry expires before next_expiry, which is never far off.
Due(s, t) ==
  /\ s.next_expiry \in Int /\ s.next_expiry <= t + TTL
  /\ \A p \in Paths : s.map[p] # NoEntry => s.next_expiry <= s.map[p].checked + TTL

\* The byte counter is what the entries weigh.
Balanced(s) == s.bytes = TotalWeight(s, Paths) /\ s.bytes <= MaxTotal

IInv == ReadInv /\ Whole(store) /\ Due(store, now) /\ Balanced(store)

-----------------------------------------------------------------------------
(* What the methods of the store keep.                                     *)

LEMMA TakeKeeps ==
  ASSUME NEW s, Whole(s), NEW p \in Paths
  PROVE  Whole(Take(s, p))
<1> DEFINE t == Take(s, p)
<1>1. Store(t) /\ t.map = [s.map EXCEPT ![p] = NoEntry]
  BY DEF Whole, Store, Take
<1>2. t.map \in [Paths -> Entry \cup {NoEntry}]
  BY <1>1 DEF Whole
<1>3. \A q \in Paths : t.map[q] # NoEntry => t.map[q] = s.map[q]
  BY <1>1 DEF Whole
<1> HIDE DEF t
<1>4. Whole(t)
  BY <1>1, <1>2, <1>3 DEF Whole
<1> QED
  BY <1>4 DEF t

LEMMA MakeRoomKeeps ==
  ASSUME NEW s, Whole(s), NEW p, NEW v, NEW t
  PROVE  Whole(MakeRoom(s, p, v, t))
<1> DEFINE d == DropExpired(s, t)
<1>1. Store(d) /\ d.map = [q \in Paths |-> IF q \in Expired(s, t) THEN NoEntry ELSE s.map[q]]
  BY DEF DropExpired, Store
<1> HIDE DEF d
<1>2. d.map \in [Paths -> Entry \cup {NoEntry}]
  BY <1>1 DEF Whole
<1>3. \A q \in Paths : d.map[q] # NoEntry => d.map[q] = s.map[q]
  BY <1>1
<1>4. Whole(d)
  BY <1>1, <1>2, <1>3 DEF Whole
<1> QED
  BY <1>4 DEF MakeRoom, d

LEMMA RenewKeeps ==
  ASSUME NEW s, Whole(s), NEW p \in Paths, s.map[p] # NoEntry, NEW t \in Nat
  PROVE  Whole(Renew(s, p, t))
<1> DEFINE u == Renew(s, p, t)
<1>1. Store(u) /\ u.map = [s.map EXCEPT ![p] = [@ EXCEPT !.checked = t]]
  BY DEF Whole, Store, Renew
<1> HIDE DEF u
<1>2. s.map[p] \in Entry
  BY DEF Whole
<1>3. /\ [s.map[p] EXCEPT !.checked = t] \in Entry
      /\ [s.map[p] EXCEPT !.checked = t].body = s.map[p].body
      /\ [s.map[p] EXCEPT !.checked = t].meta = s.map[p].meta
  BY <1>2 DEF Entry
<1>4. u.map \in [Paths -> Entry \cup {NoEntry}]
      /\ u.map[p] = [s.map[p] EXCEPT !.checked = t]
      /\ \A q \in Paths \ {p} : u.map[q] = s.map[q]
  BY <1>1, <1>3 DEF Whole
<1>5. Whole(u)
  BY <1>1, <1>3, <1>4 DEF Whole
<1> QED
  BY <1>5 DEF u

LEMMA RevalidateKeeps ==
  ASSUME NEW s, Whole(s), NEW p \in Paths, NEW m, NEW t \in Nat
  PROVE  Whole(Revalidate(s, p, m, t))
BY TakeKeeps, RenewKeeps DEF Revalidate

\* Only here an entry comes in; its bytes and its metadata are one version.
LEMMA PutKeeps ==
  ASSUME NEW s, Whole(s), NEW p \in Paths, NEW v \in Written, NEW t \in Nat
  PROVE  Whole(Put(s, p, v, v, t))
<1> DEFINE roomy == MakeRoom(s, p, v, t)
           taken == Take(roomy, p)
           e     == [body |-> v, meta |-> v, checked |-> t]
           u     == [taken EXCEPT !.map[p] = e, !.bytes = @ + Charge(v)]
<1>1. Whole(roomy)
  BY MakeRoomKeeps
<1>2. Whole(taken)
  BY <1>1, TakeKeeps
<1>3. Put(s, p, v, v, t) = IF Fits(roomy, p, v) THEN u ELSE roomy
  BY DEF Put
<1>4. e \in Entry /\ e.body = e.meta
  BY DEF Entry
<1> HIDE DEF roomy, taken, e
<1>5. Store(u) /\ u.map = [taken.map EXCEPT ![p] = e]
  BY <1>2 DEF Whole, Store
<1> HIDE DEF u
<1>6. u.map \in [Paths -> Entry \cup {NoEntry}] /\ u.map[p] = e
      /\ \A q \in Paths \ {p} : u.map[q] = taken.map[q]
  BY <1>2, <1>4, <1>5 DEF Whole
<1>7. Whole(u)
  BY <1>2, <1>4, <1>5, <1>6 DEF Whole
<1> QED
  BY <1>1, <1>3, <1>7

-----------------------------------------------------------------------------
(* What they keep of next_expiry.                                          *)

LEMMA TakeIsDue ==
  ASSUME NEW s, Whole(s), NEW p \in Paths, NEW t, Due(s, t)
  PROVE  Due(Take(s, p), t)
<1> DEFINE u == Take(s, p)
<1>1. u.next_expiry = s.next_expiry /\ u.map = [s.map EXCEPT ![p] = NoEntry]
  BY DEF Whole, Store, Take
<1>2. \A q \in Paths : u.map[q] # NoEntry => u.map[q] = s.map[q]
  BY <1>1 DEF Whole
<1> HIDE DEF u
<1>3. Due(u, t)
  BY <1>1, <1>2 DEF Due
<1> QED
  BY <1>3 DEF u

LEMMA MinOfNats ==
  ASSUME NEW S \in SUBSET Nat, S # {}
  PROVE  Min(S) \in S /\ \A x \in S : Min(S) <= x
BY LeastNat DEF Min

LEMMA DropExpiredIsDue ==
  ASSUME NEW s, Whole(s), NEW t \in Nat
  PROVE  Due(DropExpired(s, t), t)
<1> DEFINE kept == Cached(s) \ Expired(s, t)
           S == {t} \cup {s.map[p].checked : p \in kept}
           u == DropExpired(s, t)
<1>1. \A p \in Cached(s) : s.map[p] \in Entry
  BY DEF Whole, Cached
<1>2. S \in SUBSET Nat /\ t \in S
  BY <1>1 DEF Entry
<1> HIDE DEF S
<1>3. Min(S) \in Nat /\ \A x \in S : Min(S) <= x
  BY <1>2, MinOfNats
<1>4. u.next_expiry = Min(S) + TTL
  BY DEF DropExpired, FirstExpiry, S
<1>5. u.next_expiry \in Int /\ u.next_expiry <= t + TTL
  BY <1>2, <1>3, <1>4, CacheConstants
<1>6. ASSUME NEW p \in Paths, u.map[p] # NoEntry
      PROVE  u.next_expiry <= u.map[p].checked + TTL
  <2>1. p \in kept /\ u.map[p] = s.map[p]
    BY <1>6 DEF DropExpired, Cached
  <2>2. s.map[p].checked \in S
    BY <2>1 DEF S
  <2>3. s.map[p].checked \in Nat
    BY <1>2, <2>2
  <2>4. Min(S) <= s.map[p].checked
    BY <1>3, <2>2
  <2> QED
    BY <1>3, <1>4, <2>1, <2>3, <2>4, CacheConstants
<1> QED
  BY <1>5, <1>6 DEF Due

LEMMA MakeRoomIsDue ==
  ASSUME NEW s, Whole(s), NEW p, NEW v, NEW t \in Nat, Due(s, t)
  PROVE  Due(MakeRoom(s, p, v, t), t)
BY DropExpiredIsDue DEF MakeRoom

LEMMA RevalidateIsDue ==
  ASSUME NEW s, Whole(s), NEW p \in Paths, NEW m, NEW a \in Nat, NEW t \in Nat, Due(s, t)
  PROVE  Due(Revalidate(s, p, m, a), t)
<1> DEFINE u == Renew(s, p, a)
<1>1. CASE s.map[p] # NoEntry /\ s.map[p].meta = m
  <2>1. /\ u.map = [s.map EXCEPT ![p] = [@ EXCEPT !.checked = a]]
        /\ u.next_expiry = IF s.next_expiry = Never \/ s.next_expiry < a + TTL
                           THEN s.next_expiry ELSE a + TTL
    BY DEF Whole, Store, Renew
  <2> HIDE DEF u
  <2>2. s.map[p] \in Entry
    BY <1>1 DEF Whole
  <2>3. [s.map[p] EXCEPT !.checked = a].checked = a
    BY <2>2 DEF Entry
  <2>4. u.map[p].checked = a /\ \A q \in Paths \ {p} : u.map[q] = s.map[q]
    BY <2>1, <2>3 DEF Whole
  <2>5. u.next_expiry \in Int /\ u.next_expiry <= a + TTL /\ u.next_expiry <= s.next_expiry
    BY <2>1, CacheConstants DEF Due, Never
  <2>6. ASSUME NEW q \in Paths \ {p}, s.map[q] # NoEntry
        PROVE  u.next_expiry <= s.map[q].checked + TTL
    <3>1. s.map[q].checked \in Nat
      BY <2>6 DEF Whole, Entry
    <3> QED
      BY <2>5, <2>6, <3>1, CacheConstants DEF Due
  <2>7. u.next_expiry <= t + TTL
    BY <2>5, CacheConstants DEF Due
  <2>8. Due(u, t)
    BY <2>4, <2>5, <2>6, <2>7 DEF Due
  <2> QED
    BY <1>1, <2>8 DEF Revalidate, u
<1>2. CASE ~(s.map[p] # NoEntry /\ s.map[p].meta = m)
  BY <1>2, TakeIsDue DEF Revalidate
<1> QED
  BY <1>1, <1>2

LEMMA PutIsDue ==
  ASSUME NEW s, Whole(s), NEW p \in Paths, NEW v, NEW t \in Nat, Due(s, t)
  PROVE  Due(Put(s, p, v, v, t), t)
<1> DEFINE roomy == MakeRoom(s, p, v, t)
           taken == Take(roomy, p)
           e     == [body |-> v, meta |-> v, checked |-> t]
           u     == [taken EXCEPT !.map[p] = e, !.bytes = @ + Charge(v)]
<1>1. Whole(roomy) /\ Due(roomy, t)
  BY MakeRoomKeeps, MakeRoomIsDue
<1>2. Whole(taken) /\ Due(taken, t)
  BY <1>1, TakeKeeps, TakeIsDue
<1>3. Put(s, p, v, v, t) = IF Fits(roomy, p, v) THEN u ELSE roomy
  BY DEF Put
<1>4. e.checked = t
  OBVIOUS
<1> HIDE DEF roomy, taken, e
<1>5. u.next_expiry = taken.next_expiry /\ u.map = [taken.map EXCEPT ![p] = e]
  BY <1>2 DEF Whole, Store
<1> HIDE DEF u
<1>6. u.map[p] = e /\ \A q \in Paths \ {p} : u.map[q] = taken.map[q]
  BY <1>2, <1>5 DEF Whole
<1>7. Due(u, t)
  BY <1>2, <1>4, <1>5, <1>6 DEF Due
<1> QED
  BY <1>1, <1>3, <1>7

-----------------------------------------------------------------------------
(* What they keep of the bytes.                                            *)

LEMMA WeightNat ==
  ASSUME NEW s, Whole(s), NEW p \in Paths
  PROVE  Weight(s, p) \in Nat
<1>1. s.map[p] # NoEntry => s.map[p].body \in Written
  BY DEF Whole, Entry
<1>2. \A v \in Written : Length[v] \in Nat
  BY CacheConstants DEF Written
<1> QED
  BY <1>1, <1>2, CacheConstants DEF Weight, Footprint

LEMMA TotalNat ==
  ASSUME NEW s, Whole(s), NEW S \in SUBSET Paths
  PROVE  TotalWeight(s, S) \in Nat
<1> DEFINE w == [p \in Paths |-> Weight(s, p)]
<1>1. \A p \in S : w[p] \in Nat
  BY WeightNat
<1>2. IsFiniteSet(S)
  BY CacheConstants, FS_Subset
<1> HIDE DEF w
<1>3. SumFunctionOnSet(w, S) \in Nat
  BY <1>1, <1>2, SumNat
<1> QED
  BY <1>3 DEF TotalWeight, w

\* Two stores that differ in one entry differ by its weight.
LEMMA EntryWeighs ==
  ASSUME NEW s, Whole(s), NEW u, Whole(u), NEW p \in Paths,
         \A q \in Paths \ {p} : u.map[q] = s.map[q]
  PROVE  TotalWeight(u, Paths) = TotalWeight(s, Paths) + (Weight(u, p) - Weight(s, p))
<1> DEFINE f == [q \in Paths |-> Weight(s, q)]
           g == [q \in Paths |-> Weight(u, q)]
<1>1. \A q \in Paths \ {p} : Weight(u, q) = Weight(s, q)
  BY DEF Weight
<1>2. (\A q \in Paths : f[q] \in Int) /\ g[p] \in Int /\ \A q \in Paths \ {p} : g[q] = f[q]
  BY <1>1, WeightNat
<1>3. f[p] = Weight(s, p) /\ g[p] = Weight(u, p)
  OBVIOUS
<1> HIDE DEF f, g
<1>4. SumFunctionOnSet(g, Paths) = SumFunctionOnSet(f, Paths) + (g[p] - f[p])
  BY <1>2, CacheConstants, SumChange
<1> QED
  BY <1>3, <1>4 DEF TotalWeight, f, g

LEMMA TakeBalances ==
  ASSUME NEW s, Whole(s), Balanced(s), NEW p \in Paths
  PROVE  Balanced(Take(s, p))
<1> DEFINE u == Take(s, p)
<1>1. u.map = [s.map EXCEPT ![p] = NoEntry] /\ u.bytes = s.bytes - Weight(s, p)
  BY DEF Whole, Store, Take
<1>2. Whole(u)
  BY TakeKeeps
<1> HIDE DEF u
<1>3. u.map[p] = NoEntry /\ \A q \in Paths \ {p} : u.map[q] = s.map[q]
  BY <1>1 DEF Whole
<1>4. Weight(u, p) = 0
  BY <1>3 DEF Weight
<1>5. TotalWeight(u, Paths) = TotalWeight(s, Paths) + (Weight(u, p) - Weight(s, p))
  BY <1>2, <1>3, EntryWeighs
<1>6. TotalWeight(s, Paths) \in Nat /\ Weight(s, p) \in Nat
  BY TotalNat, WeightNat
<1>7. Balanced(u)
  BY <1>1, <1>4, <1>5, <1>6, CacheConstants DEF Balanced
<1> QED
  BY <1>7 DEF u

\* The expired entries go, and their bytes with them.
LEMMA DropExpiredBalances ==
  ASSUME NEW s, Whole(s), Balanced(s), NEW t
  PROVE  Balanced(DropExpired(s, t))
<1> DEFINE u == DropExpired(s, t)
           E == Expired(s, t)
           f == [q \in Paths |-> Weight(s, q)]
           g == [q \in Paths |-> Weight(u, q)]
<1>1. /\ u.map = [q \in Paths |-> IF q \in E THEN NoEntry ELSE s.map[q]]
      /\ u.bytes = s.bytes - TotalWeight(s, E)
  BY DEF DropExpired
<1>2. E \in SUBSET Paths
  BY DEF Expired, Cached
<1> HIDE DEF u, E
<1>3. \A q \in Paths : Weight(u, q) = IF q \in E THEN 0 ELSE Weight(s, q)
  BY <1>1 DEF Weight
<1>4. \A q \in Paths : f[q] \in Int /\ g[q] = IF q \in E THEN 0 ELSE f[q]
  BY <1>3, WeightNat
<1> HIDE DEF f, g
<1>5. SumFunctionOnSet(g, Paths) = SumFunctionOnSet(f, Paths) - SumFunctionOnSet(f, E)
  BY <1>2, <1>4, CacheConstants, SumCleared
<1>6. TotalWeight(u, Paths) = TotalWeight(s, Paths) - TotalWeight(s, E)
  BY <1>5 DEF TotalWeight, f, g
<1>7. TotalWeight(s, Paths) \in Nat /\ TotalWeight(s, E) \in Nat
  BY <1>2, TotalNat
<1>8. Balanced(u)
  BY <1>1, <1>6, <1>7, CacheConstants DEF Balanced
<1> QED
  BY <1>8 DEF u

LEMMA MakeRoomBalances ==
  ASSUME NEW s, Whole(s), Balanced(s), NEW p, NEW v, NEW t
  PROVE  Balanced(MakeRoom(s, p, v, t))
BY DropExpiredBalances DEF MakeRoom

LEMMA RevalidateBalances ==
  ASSUME NEW s, Whole(s), Balanced(s), NEW p \in Paths, NEW m, NEW t \in Nat
  PROVE  Balanced(Revalidate(s, p, m, t))
<1> DEFINE u == Renew(s, p, t)
<1>1. CASE s.map[p] # NoEntry /\ s.map[p].meta = m
  <2>1. u.map = [s.map EXCEPT ![p] = [@ EXCEPT !.checked = t]] /\ u.bytes = s.bytes
    BY DEF Whole, Store, Renew
  <2>2. Whole(u)
    BY <1>1, RenewKeeps
  <2> HIDE DEF u
  <2>3. s.map[p] \in Entry
    BY <1>1 DEF Whole
  <2>4. u.map[p].body = s.map[p].body /\ u.map[p] \in Entry
    BY <2>1, <2>3 DEF Whole, Entry
  <2>5. \A q \in Paths \ {p} : u.map[q] = s.map[q]
    BY <2>1 DEF Whole
  <2>6. Entry \subseteq [body : 0 .. Versions, meta : 0 .. Versions, checked : Nat]
    BY CacheConstants DEF Entry, Written
  <2>7. Weight(u, p) = Weight(s, p)
    BY <1>1, <2>4, <2>6, CacheConstants DEF Weight
  <2>8. TotalWeight(u, Paths) = TotalWeight(s, Paths) + (Weight(u, p) - Weight(s, p))
    BY <2>2, <2>5, EntryWeighs
  <2>9. TotalWeight(s, Paths) \in Nat /\ Weight(s, p) \in Nat
    BY TotalNat, WeightNat
  <2>10. Balanced(u)
    BY <2>1, <2>7, <2>8, <2>9 DEF Balanced
  <2> QED
    BY <1>1, <2>10 DEF Revalidate, u
<1>2. CASE ~(s.map[p] # NoEntry /\ s.map[p].meta = m)
  BY <1>2, TakeBalances DEF Revalidate
<1> QED
  BY <1>1, <1>2

\* Fits says that the new entry's weight stays within the limit once the old
\* one's is gone.
LEMMA PutBalances ==
  ASSUME NEW s, Whole(s), Balanced(s), NEW p \in Paths, NEW v \in Written, NEW t \in Nat
  PROVE  Balanced(Put(s, p, v, v, t))
<1> DEFINE roomy == MakeRoom(s, p, v, t)
           taken == Take(roomy, p)
           e     == [body |-> v, meta |-> v, checked |-> t]
           u     == [taken EXCEPT !.map[p] = e, !.bytes = @ + Charge(v)]
<1>1. Whole(roomy) /\ Balanced(roomy)
  BY MakeRoomKeeps, MakeRoomBalances
<1>2. Whole(taken) /\ Balanced(taken)
  BY <1>1, TakeKeeps, TakeBalances
<1>3. Put(s, p, v, v, t) = IF Fits(roomy, p, v) THEN u ELSE roomy
  BY DEF Put
<1>4. Whole(Put(s, p, v, v, t))
  BY PutKeeps
<1>5. e.body = v /\ e # NoEntry
  <2>1. e \in [body : 0 .. Versions, meta : 0 .. Versions, checked : Nat]
    BY CacheConstants DEF Written
  <2> QED
    BY <2>1, CacheConstants
<1>6. taken.bytes = roomy.bytes - Weight(roomy, p) /\ taken.map[p] = NoEntry
  BY <1>1 DEF Whole, Store, Take
<1> HIDE DEF roomy, taken, e
<1>7. u.bytes = taken.bytes + Footprint(v) /\ u.map = [taken.map EXCEPT ![p] = e]
  BY <1>2 DEF Whole, Store, Charge
<1> HIDE DEF u
<1>8. ASSUME Fits(roomy, p, v)
      PROVE  Balanced(u)
  <2>1. u.map[p] = e /\ \A q \in Paths \ {p} : u.map[q] = taken.map[q]
    BY <1>2, <1>7 DEF Whole
  <2>2. Weight(u, p) = Footprint(v) /\ Weight(taken, p) = 0
    BY <1>5, <1>6, <2>1 DEF Weight
  <2>3. Whole(u)
    BY <1>3, <1>4, <1>8
  <2>4. TotalWeight(u, Paths) = TotalWeight(taken, Paths) + (Weight(u, p) - Weight(taken, p))
    BY <1>2, <2>1, <2>3, EntryWeighs
  <2>5. TotalWeight(taken, Paths) \in Nat /\ Weight(u, p) \in Nat
    BY <1>2, <2>3, TotalNat, WeightNat
  <2>6. u.bytes = TotalWeight(u, Paths)
    BY <1>2, <1>7, <2>2, <2>4, <2>5 DEF Balanced
  <2>7. u.bytes <= MaxTotal
    BY <1>6, <1>7, <1>8 DEF Fits
  <2> QED
    BY <2>6, <2>7 DEF Balanced
<1> QED
  BY <1>1, <1>3, <1>8

-----------------------------------------------------------------------------
(* What a request's step keeps of the reads.                               *)

LEMMA InitKeeps == Init => IInv
<1> SUFFICES ASSUME Init PROVE IInv
  OBVIOUS
<1>1. ReadInv
  BY CacheConstants
  DEF Init, ReadInv, FilesTyped, ReadsTyped, RequestsTyped, OrderInv, InOrder, PC, NoFile, Version
<1>2. Whole(store)
  BY DEF Init, Whole, Store
<1>3. Due(store, now)
  BY CacheConstants DEF Init, Due, Never
<1>4. Balanced(store)
  <2> DEFINE w == [p \in Paths |-> Weight(store, p)]
  <2>1. \A p \in Paths : w[p] = 0
    BY DEF Init, Weight
  <2> HIDE DEF w
  <2>2. SumFunctionOnSet(w, Paths) = 0
    BY <2>1, CacheConstants, SumOfZeros
  <2> QED
    BY <2>2, CacheConstants DEF Init, Balanced, TotalWeight, w
<1> QED
  BY <1>1, <1>2, <1>3, <1>4 DEF IInv

\* A request that is answered has read nothing.
LEMMA DoneKeepsReads ==
  ASSUME ReadInv, NEW r \in Requests, Done(r), UNCHANGED <<files, now>>
  PROVE  ReadInv'
<1>1. FilesTyped'
  BY DEF ReadInv, FilesTyped, files
<1>2. ReadsTyped'
  BY CacheConstants DEF ReadInv, FilesTyped, ReadsTyped, Done, files, NoFile, Version
<1>3. pc' \in [Requests -> PC] /\ pc'[r] = "idle" /\ \A q \in Requests \ {r} : pc'[q] = pc[q]
  BY DEF ReadInv, RequestsTyped, Done, Goto, PC
<1>4. path' \in [Requests -> Paths \cup {NoPath}]
      /\ \A q \in Requests \ {r} : path'[q] = path[q]
  BY DEF ReadInv, RequestsTyped, Done
<1>5. asked' \in [Requests -> Nat]
  BY DEF ReadInv, RequestsTyped, Done
<1>6. RequestsTyped'
  BY <1>3, <1>4, <1>5 DEF ReadInv, RequestsTyped
<1>7. \A q \in Requests \ {r} : /\ handle'[q] = handle[q] /\ meta'[q] = meta[q]
                                /\ body'[q] = body[q] /\ second'[q] = second[q]
  BY DEF ReadInv, ReadsTyped, Done
<1>8. OrderInv'
  BY <1>3, <1>7 DEF ReadInv, OrderInv, InOrder
<1> QED
  BY <1>1, <1>2, <1>6, <1>8 DEF ReadInv

\* A request moves on, with what it has read; the order holds where it goes.
LEMMA MoveKeepsReads ==
  ASSUME ReadInv, NEW r \in Requests, NEW c \in PC, Goto(r, c),
         UNCHANGED <<files, now>>, ReadsTyped',
         \A q \in Requests \ {r} : /\ handle'[q] = handle[q] /\ meta'[q] = meta[q]
                                   /\ body'[q] = body[q] /\ second'[q] = second[q]
                                   /\ path'[q] = path[q],
         path' \in [Requests -> Paths \cup {NoPath}], path'[r] \in Paths,
         asked' \in [Requests -> Nat],
         InOrder(r)'
  PROVE  ReadInv'
<1>1. FilesTyped'
  BY DEF ReadInv, FilesTyped, files
<1>2. pc' \in [Requests -> PC] /\ pc'[r] = c /\ \A q \in Requests \ {r} : pc'[q] = pc[q]
  BY DEF ReadInv, RequestsTyped, Goto
<1>3. RequestsTyped'
  BY <1>2 DEF ReadInv, RequestsTyped
<1>4. OrderInv'
  BY <1>2 DEF ReadInv, OrderInv, InOrder
<1> QED
  BY <1>1, <1>3, <1>4 DEF ReadInv

LEMMA AskKeeps ==
  ASSUME ReadInv, NEW r \in Requests, Ask(r)
  PROVE  ReadInv'
<1>1. PICK p \in Paths : path' = [path EXCEPT ![r] = p]
  BY DEF Ask
<1>2. asked' \in [Requests -> Nat]
  BY DEF Ask, ReadInv, RequestsTyped, FilesTyped
<1>3. pc'[r] = "stat"
  BY DEF Ask, Goto, ReadInv, RequestsTyped
<1> QED
  BY <1>1, <1>2, <1>3, MoveKeepsReads
  DEF Ask, ReadInv, RequestsTyped, ReadsTyped, InOrder, reads, files, PC

\* Steps that read nothing: the request goes on to a place without an order.
LEMMA GoKeeps ==
  ASSUME ReadInv, NEW r \in Requests, NEW c \in {"statting", "open", "opening", "failed"},
         pc[r] # "idle", Goto(r, c), UNCHANGED <<files, now, path, handle, body, second>>,
         meta' = meta \/ meta' = [meta EXCEPT ![r] = NoFile],
         asked' = asked \/ asked' = [asked EXCEPT ![r] = 0]
  PROVE  ReadInv'
<1>1. ReadsTyped'
  <2>1. written \in Nat /\ written' = written /\ NoFile \in 0 .. written
    BY CacheConstants DEF ReadInv, FilesTyped, files, NoFile, Version
  <2>2. meta' \in [Requests -> 0 .. written]
    BY <2>1 DEF ReadInv, ReadsTyped
  <2> QED
    BY <2>1, <2>2 DEF ReadInv, ReadsTyped
<1>2. asked' \in [Requests -> Nat] /\ path[r] \in Paths
  BY DEF ReadInv, RequestsTyped
<1>3. \A q \in Requests \ {r} : meta'[q] = meta[q]
  BY DEF ReadInv, ReadsTyped
<1>4. pc'[r] = c
  BY DEF Goto, ReadInv, RequestsTyped
<1> QED
  BY <1>1, <1>2, <1>3, <1>4, MoveKeepsReads DEF ReadInv, RequestsTyped, InOrder, PC

LEMMA ReadMetadataKeeps ==
  ASSUME ReadInv, NEW r \in Requests, ReadMetadata(r)
  PROVE  ReadInv'
<1>1. path[r] \in Paths /\ pc[r] = "statting"
  BY DEF ReadMetadata, At, ReadInv, RequestsTyped
<1>2. CASE Goto(r, "failed") /\ UNCHANGED meta
  BY <1>1, <1>2, GoKeeps DEF ReadMetadata
<1>3. CASE meta' = [meta EXCEPT ![r] = file[path[r]]] /\ Goto(r, "statted")
  <2>1. file[path[r]] \in 0 .. written
    BY <1>1 DEF ReadInv, FilesTyped
  <2>2. ReadsTyped' /\ \A q \in Requests \ {r} : meta'[q] = meta[q]
    BY <1>3, <2>1 DEF ReadMetadata, ReadInv, ReadsTyped, files
  <2>3. pc'[r] = "statted"
    BY <1>3 DEF Goto, ReadInv, RequestsTyped
  <2> QED
    BY <1>1, <1>3, <2>2, <2>3, MoveKeepsReads
    DEF ReadMetadata, ReadInv, RequestsTyped, InOrder, PC
<1> QED
  BY <1>2, <1>3 DEF ReadMetadata

\* The handle and the first metadata are of one version.
LEMMA OpenFileKeeps ==
  ASSUME ReadInv, NEW r \in Requests, OpenFile(r)
  PROVE  ReadInv'
<1>1. path[r] \in Paths /\ pc[r] = "opening"
  BY DEF OpenFile, At, ReadInv, RequestsTyped
<1>2. CASE Done(r)
  BY <1>2, DoneKeepsReads DEF OpenFile
<1>3. CASE Goto(r, "failed") /\ UNCHANGED request
  BY <1>1, <1>3, GoKeeps DEF OpenFile, request, reads
<1>4. CASE /\ file[path[r]] # NoFile
           /\ handle' = [handle EXCEPT ![r] = file[path[r]]]
           /\ meta' = [meta EXCEPT ![r] = file[path[r]]]
           /\ Goto(r, "opened")
           /\ UNCHANGED <<path, asked, body, second>>
  <2>1. file[path[r]] \in 0 .. written /\ UNCHANGED files
    BY <1>1 DEF ReadInv, FilesTyped, OpenFile
  <2>2. ReadsTyped' /\ meta'[r] = handle'[r] /\ handle'[r] \in Int
        /\ \A q \in Requests \ {r} : meta'[q] = meta[q] /\ handle'[q] = handle[q]
    BY <1>4, <2>1 DEF ReadInv, FilesTyped, ReadsTyped, files, Version
  <2>3. pc'[r] = "opened"
    BY <1>4 DEF Goto, ReadInv, RequestsTyped
  <2>4. InOrder(r)'
    BY <1>4, <2>2, <2>3 DEF InOrder, ReadInv, ReadsTyped
  <2> QED
    BY <1>1, <1>4, <2>2, <2>4, MoveKeepsReads DEF OpenFile, ReadInv, RequestsTyped, PC
<1> QED
  BY <1>2, <1>3, <1>4 DEF OpenFile

LEMMA AdmitKeepsReads ==
  ASSUME ReadInv, NEW r \in Requests, Admit(r)
  PROVE  ReadInv'
<1>1. CASE Done(r)
  BY <1>1, DoneKeepsReads DEF Admit
<1>2. CASE Goto(r, "reading") /\ UNCHANGED request
  <2>1. path[r] \in Paths /\ pc[r] = "opened" /\ pc'[r] = "reading"
    BY <1>2 DEF Admit, At, Goto, ReadInv, RequestsTyped
  <2>2. InOrder(r)'
    BY <1>2, <2>1 DEF InOrder, ReadInv, OrderInv, request, reads
  <2>3. UNCHANGED <<path, asked, handle, meta, body, second, files, now>>
    BY <1>2 DEF Admit, request, reads
  <2>4. ReadsTyped'
    BY <2>3 DEF ReadInv, ReadsTyped, files
  <2> QED
    BY <1>2, <2>1, <2>2, <2>3, <2>4, MoveKeepsReads DEF ReadInv, RequestsTyped, PC
<1> QED
  BY <1>1, <1>2 DEF Admit

\* The bytes are what the handle has now: no older than the first metadata.
LEMMA ReadBytesKeeps ==
  ASSUME ReadInv, NEW r \in Requests, ReadBytes(r)
  PROVE  ReadInv'
<1>1. CASE Done(r)
  BY <1>1, DoneKeepsReads DEF ReadBytes
<1>2. CASE /\ body' = [body EXCEPT ![r] = handle[r]]
           /\ Goto(r, "read")
           /\ UNCHANGED <<path, asked, handle, meta, second>>
  <2>1. path[r] \in Paths /\ pc[r] = "reading" /\ pc'[r] = "read" /\ UNCHANGED <<files, now>>
    BY <1>2 DEF ReadBytes, At, Goto, ReadInv, RequestsTyped
  <2>2. ReadsTyped' /\ body'[r] = handle[r] /\ handle[r] \in Int
        /\ \A q \in Requests \ {r} : body'[q] = body[q]
    BY <1>2, <2>1 DEF ReadInv, FilesTyped, ReadsTyped, files, Version
  <2>3. InOrder(r)'
    BY <1>2, <2>1, <2>2 DEF InOrder, ReadInv, OrderInv
  <2> QED
    BY <1>2, <2>1, <2>2, <2>3, MoveKeepsReads DEF ReadInv, RequestsTyped, PC
<1> QED
  BY <1>1, <1>2 DEF ReadBytes

\* The second metadata is what the handle has now: no older than the bytes.
LEMMA RereadKeeps ==
  ASSUME ReadInv, NEW r \in Requests, Reread(r)
  PROVE  ReadInv'
<1>1. path[r] \in Paths /\ pc[r] = "read" /\ pc'[r] = "reread"
      /\ UNCHANGED <<files, now, path, asked, handle, meta, body>>
  BY DEF Reread, At, Goto, ReadInv, RequestsTyped
<1>2. ReadsTyped' /\ second'[r] = handle[r] /\ \A q \in Requests \ {r} : second'[q] = second[q]
  BY <1>1 DEF Reread, ReadInv, FilesTyped, ReadsTyped, files, Version
<1>3. InOrder(r)'
  BY <1>1, <1>2 DEF InOrder, ReadInv, OrderInv
<1> QED
  BY <1>1, <1>2, <1>3, MoveKeepsReads DEF Reread, ReadInv, RequestsTyped, PC

\* A new version is younger than all that was read; a handle moves on to it or
\* stays.
LEMMA WriteFileKeeps ==
  ASSUME ReadInv, NEW p \in Paths, WriteFile(p)
  PROVE  ReadInv'
<1>1. written' = written + 1 /\ written' \in Version /\ written \in Nat
  BY CacheConstants DEF WriteFile, ReadInv, FilesTyped, Version
<1>2. file' \in [Paths -> 0 .. written'] /\ now' \in Nat
  BY <1>1 DEF WriteFile, ReadInv, FilesTyped
<1>3. FilesTyped'
  BY <1>1, <1>2 DEF FilesTyped
<1>4. UNCHANGED <<pc, path, asked, meta, body, second>>
  BY DEF WriteFile
<1>5. handle' \in [Requests -> 0 .. written'] /\ \A r \in Requests : handle[r] <= handle'[r]
  BY <1>1 DEF WriteFile, ReadInv, ReadsTyped
<1>6. ReadsTyped'
  BY <1>1, <1>4, <1>5 DEF ReadInv, ReadsTyped
<1>7. RequestsTyped'
  BY <1>4 DEF ReadInv, RequestsTyped
<1>8. OrderInv'
  <2> SUFFICES ASSUME NEW r \in Requests
               PROVE  InOrder(r)'
    BY DEF OrderInv
  <2>1. /\ handle[r] \in Int /\ handle'[r] \in Int /\ meta[r] \in Int /\ body[r] \in Int
        /\ InOrder(r) /\ handle[r] <= handle'[r]
    BY <1>1, <1>5 DEF ReadInv, ReadsTyped, OrderInv
  <2> QED
    BY <1>4, <2>1 DEF InOrder
<1> QED
  BY <1>3, <1>6, <1>7, <1>8 DEF ReadInv

LEMMA StatKeeps ==
  ASSUME ReadInv, NEW r \in Requests, Stat(r)
  PROVE  ReadInv'
<1>1. pc[r] # "idle"
  BY DEF Stat, At
<1>2. CASE Done(r)
  BY <1>2, DoneKeepsReads DEF Stat
<1>3. CASE ~Done(r)
  BY <1>1, <1>3, GoKeeps DEF Stat, request, reads
<1> QED
  BY <1>2, <1>3

LEMMA ConfirmKeepsReads ==
  ASSUME ReadInv, NEW r \in Requests, Confirm(r)
  PROVE  ReadInv'
<1>1. pc[r] # "idle"
  BY DEF Confirm, At
<1>2. CASE Done(r)
  BY <1>2, DoneKeepsReads DEF Confirm
<1>3. CASE ~Done(r)
  BY <1>1, <1>3, GoKeeps DEF Confirm
<1> QED
  BY <1>2, <1>3

LEMMA HitKeeps ==
  ASSUME ReadInv, NEW r \in Requests, Hit(r)
  PROVE  ReadInv'
<1>1. pc[r] # "idle"
  BY DEF Hit, At
<1>2. CASE Done(r)
  BY <1>2, DoneKeepsReads DEF Hit
<1>3. CASE ~Done(r)
  BY <1>1, <1>3, GoKeeps DEF Hit, request, reads
<1> QED
  BY <1>2, <1>3

LEMMA NextKeepsReads ==
  ASSUME ReadInv, [Next]_vars
  PROVE  ReadInv'
<1>1. ASSUME NEW r \in Requests, Serve(r)
      PROVE  ReadInv'
  <2>1. CASE Forget(r) \/ Fill(r)
    BY <2>1, DoneKeepsReads DEF Forget, Fill
  <2> QED
    BY <1>1, <2>1, AskKeeps, StatKeeps, ReadMetadataKeeps, ConfirmKeepsReads, HitKeeps,
       OpenFileKeeps, AdmitKeepsReads, ReadBytesKeeps, RereadKeeps DEF Serve
<1>2. ASSUME NEW p \in Paths, DeleteFile(p)
      PROVE  ReadInv'
  <2>1. FilesTyped' /\ UNCHANGED <<written, pc, path, asked, handle, meta, body, second>>
    BY <1>2, CacheConstants
    DEF DeleteFile, ReadInv, FilesTyped, request, reads, NoFile, Version
  <2> QED
    BY <2>1 DEF ReadInv, ReadsTyped, RequestsTyped, OrderInv, InOrder
<1>3. CASE Tick
  <2>1. FilesTyped' /\ UNCHANGED <<written, pc, path, asked, handle, meta, body, second>>
    BY <1>3 DEF Tick, ReadInv, FilesTyped, files, request, reads
  <2> QED
    BY <2>1 DEF ReadInv, ReadsTyped, RequestsTyped, OrderInv, InOrder
<1>4. CASE UNCHANGED vars
  BY <1>4 DEF vars, files, request, reads, ReadInv, FilesTyped, ReadsTyped, RequestsTyped,
     OrderInv, InOrder
<1> QED
  BY <1>1, <1>2, <1>3, <1>4, WriteFileKeeps DEF Next

-----------------------------------------------------------------------------
(* What a step keeps of the store.                                         *)

Sound(s, t) == Whole(s) /\ Due(s, t) /\ Balanced(s)

\* The two metadata of a fill agree only when its bytes are of that version.
LEMMA FillKeepsStore ==
  ASSUME IInv, NEW r \in Requests, Fill(r)
  PROVE  Sound(store', now)
<1>1. path[r] \in Paths /\ pc[r] = "reread"
  BY DEF Fill, At, IInv, ReadInv, RequestsTyped
<1>2. CASE Unchanged(r)
  <2>1. meta[r] \in Written /\ body[r] \in Version /\ second[r] \in Version
    BY <1>1, CacheConstants
    DEF IInv, ReadInv, FilesTyped, ReadsTyped, OrderInv, InOrder, NoFile, Version, Written
  <2>2. meta[r] <= body[r] /\ body[r] <= second[r] /\ second[r] = meta[r]
    BY <1>1, <1>2 DEF IInv, ReadInv, OrderInv, InOrder, Unchanged
  <2>3. body[r] = meta[r]
    BY <2>1, <2>2, CacheConstants DEF Version, Written
  <2>4. store' = Put(store, path[r], body[r], meta[r], now) /\ now \in Nat
    BY <1>2 DEF Fill, IInv, ReadInv, FilesTyped
  <2> QED
    BY <1>1, <2>1, <2>3, <2>4, PutKeeps, PutIsDue, PutBalances DEF IInv, Sound
<1>3. CASE ~Unchanged(r)
  BY <1>1, <1>3, TakeKeeps, TakeIsDue, TakeBalances DEF Fill, IInv, Sound
<1> QED
  BY <1>2, <1>3

LEMMA NextKeepsStore ==
  ASSUME IInv, [Next]_vars
  PROVE  Sound(store', now')
<1>0. now \in Nat
  BY DEF IInv, ReadInv, FilesTyped
<1>1. ASSUME NEW r \in Requests, Serve(r)
      PROVE  Sound(store', now')
  <2>1. UNCHANGED now
    BY <1>1 DEF Serve, Ask, Stat, ReadMetadata, Forget, Confirm, Hit, OpenFile, Admit, ReadBytes,
       Reread, Fill
  <2>2. CASE Forget(r)
    <3>1. path[r] \in Paths
      BY <2>2 DEF Forget, At, IInv, ReadInv, RequestsTyped
    <3> QED
      BY <2>1, <2>2, <3>1, TakeKeeps, TakeIsDue, TakeBalances DEF Forget, IInv, Sound
  <2>3. CASE Confirm(r)
    <3>1. path[r] \in Paths /\ asked[r] \in Nat
      BY <2>3 DEF Confirm, At, IInv, ReadInv, RequestsTyped
    <3> QED
      BY <1>0, <2>1, <2>3, <3>1, RevalidateKeeps, RevalidateIsDue, RevalidateBalances
      DEF Confirm, IInv, Sound
  <2>4. CASE Admit(r)
    BY <1>0, <2>1, <2>4, MakeRoomKeeps, MakeRoomIsDue, MakeRoomBalances DEF Admit, IInv, Sound
  <2>5. CASE Fill(r)
    BY <2>1, <2>5, FillKeepsStore
  <2>6. CASE UNCHANGED store
    BY <2>1, <2>6 DEF IInv, Sound
  <2> QED
    BY <1>1, <2>2, <2>3, <2>4, <2>5, <2>6
    DEF Serve, Ask, Stat, ReadMetadata, Hit, OpenFile, ReadBytes, Reread
<1>2. CASE UNCHANGED <<store, now>>
  BY <1>2 DEF IInv, Sound
<1>3. CASE Tick
  BY <1>0, <1>3, CacheConstants DEF Tick, IInv, Whole, Sound, Due
<1> QED
  BY <1>1, <1>2, <1>3 DEF Next, WriteFile, DeleteFile, vars

-----------------------------------------------------------------------------
(* The theorems.                                                           *)

\* The inductive invariant holds of every behaviour (cache.rs).
THEOREM CacheInvariance == Spec => []IInv
<1>1. IInv /\ [Next]_vars => IInv'
  BY NextKeepsReads, NextKeepsStore DEF IInv, Sound
<1> QED
  BY InitKeeps, <1>1, PTL DEF Spec

\* No entry joins new metadata with old bytes, however many fills race with
\* writes to their files (fill and same_file of cache.rs).
THEOREM EntriesAreWhole == Spec => []EntryWhole
<1>1. IInv => EntryWhole
  BY DEF IInv, Whole, EntryWhole, Cached
<1> QED
  BY <1>1, CacheInvariance, PTL

\* A full cache refuses a file only while every entry in it is fresh: no search
\* for expired entries that it leaves out would have found one (make_room,
\* revalidate and put of cache.rs).
THEOREM RefusalsAreFair == Spec => []RefusesOnlyWhileFresh
<1>1. IInv => RefusesOnlyWhileFresh
  <2> SUFFICES ASSUME IInv, store.next_expiry > now, NEW p \in Cached(store)
               PROVE  IsFresh(store, p, now)
    BY DEF RefusesOnlyWhileFresh
  <2>1. p \in Paths /\ store.map[p] # NoEntry /\ store.map[p].checked \in Nat
    BY DEF Cached, IInv, Whole, Entry
  <2>2. store.next_expiry <= store.map[p].checked + TTL /\ store.next_expiry \in Int
    BY <2>1 DEF IInv, Due
  <2>3. now \in Nat
    BY DEF IInv, ReadInv, FilesTyped
  <2>4. now - store.map[p].checked < TTL
    BY <2>1, <2>2, <2>3, CacheConstants
  <2> QED
    BY <2>1, <2>4 DEF IsFresh
<1> QED
  BY <1>1, CacheInvariance, PTL

\* The byte counter is what the entries weigh and never passes MAX_TOTAL, through
\* takes, replacements, refused puts and expiries, and next_expiry is no later
\* than any entry's (take, make_room, revalidate and put of cache.rs).
THEOREM StoreIsExact == Spec => []StoreExact
<1>1. IInv => BytesExact
  BY DEF IInv, Balanced, BytesExact
<1> QED
  BY <1>1, CacheInvariance, RefusalsAreFair, PTL DEF StoreExact
=============================================================================
