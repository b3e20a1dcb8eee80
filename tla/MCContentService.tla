---------------------------- MODULE MCContentService ----------------------------
(* ContentService on small instances: the calls, and the ids of a kind, are   *)
(* interchangeable.  late is a history variable: a row was written while      *)
(* another call had its index loaded and not yet cached.                      *)
EXTENDS ContentService, TLC

VARIABLE late

CallSymmetry == Permutations(Calls)
Symmetry == Permutations(Calls) \cup Permutations(Roots) \cup Permutations(Kids)

Holding == {c \in Calls : cpc[c] \in {"peeked", "loaded", "reloaded"}}

MCInit == Init /\ late = FALSE
MCNext == OneWriterNext /\ late' = (late \/ (store' # store /\ Holding # {}))
MCSpec == MCInit /\ [][MCNext]_<<vars, late>>

\* "every write invalidates it": while no call is half way through its writes,
\* what the cache serves is what the table holds, unless a write has failed (it
\* may have reached the table, and the cache is left as it was) or a load was
\* answered before a write and became the cached index after it.
CacheCurrentUnlessTorn ==
    ~late /\ (\A c \in Calls : cpc[c] \notin {"write", "torn"}) =>
        cache \in {Absent, store}
================================================================================
