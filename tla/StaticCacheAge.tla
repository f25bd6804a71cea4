-------------------------- MODULE StaticCacheAge --------------------------
(***************************************************************************)
(* StaticCache with a record of when each version of a file was replaced,  *)
(* to say how old the bytes are that the cache serves.                     *)
(***************************************************************************)
EXTENDS StaticCache

VARIABLE replaced \* when a version stopped being what its path names, or Never

AgedInit == Init /\ replaced = [v \in 1 .. Versions |-> Never]

AgedNext ==
  /\ Next
  /\ replaced' = [v \in 1 .. Versions |->
                    IF \E p \in Paths : file[p] = v /\ file'[p] # v THEN now ELSE replaced[v]]

AgedSpec == AgedInit /\ [][AgedNext]_<<vars, replaced>>

\* "A stat then revalidates it, so a change to a cached file reaches the
\* client after one second" (cache.rs:33): bytes that a hit may serve were the
\* file's less than TTL ago.
ChangeReachesClient ==
  \A p \in Cached(store) :
    LET v == store.map[p].body
    IN  IsFresh(store, p, now) => file[p] = v \/ now - replaced[v] < TTL
=============================================================================
