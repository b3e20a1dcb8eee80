----------------------------- MODULE ContentService -----------------------------
(***************************************************************************)
(* packages/cms: ContentService over a ContentStore, for entities of the   *)
(* status lifecycle: root entities and their child entities.  One warm     *)
(* instance; a member of Calls is one call of the service, and a handler   *)
(* takes one action between two awaits.                                    *)
(*                                                                         *)
(* An item's fields are the call that last wrote them (edit), and its      *)
(* publishedAt is the call that stamped it (pub).  loadAll is one          *)
(* step; the writes of a call are steps of their own.  A cached index may  *)
(* expire at any time.                                                     *)
(***************************************************************************)
EXTENDS Integers, Functions

CONSTANTS
    Roots, Kids,        \* ids of root items and of child items
    Calls,
    Seeded,             \* the edit and pub of what the table held at the start
    Absent,             \* a missing row, and no cached index
    Never               \* no parent, no publishedAt, no status given

ASSUME ItemsAssumption == Roots \cap Kids = {} /\ Never \notin Roots \cup Kids

ASSUME CallsAssumption == Seeded \notin Calls /\ Never \notin Calls /\ Seeded # Never

Statuses == {"draft", "published"}
Items == Roots \cup Kids
Editors == Calls \cup {Seeded}
Value == [parent : Roots \cup {Never}, status : Statuses,
          edit : Editors, pub : Editors \cup {Never}]

ASSUME AbsentAssumption ==
    /\ Absent \notin Value /\ Absent # Never
    /\ Absent \notin [Items -> Value \cup {Absent}]
    /\ Never \notin Statuses

Ops == {"read", "find", "createRoot", "createKid", "update", "remove",
        "removeDraft", "setStatus", "publish"}

\* What a call was asked: an operation, the items it names, a status or none.
Request == [op : Ops, on : SUBSET Items, status : Statuses \cup {Never}]

VARIABLES
    store,              \* the table
    cache,              \* this.cache: Absent, or the index's snapshot
    minted,             \* child ids handed out so far (newId is random)
    cpc, req, snap,     \* per call: control, its request, its index
    todo                \* per call: the writes it has yet to make, by item

vars == <<store, cache, minted, cpc, req, snap, todo>>

Present(s, i) == s[i] # Absent
KidsOf(s, r) == {k \in Kids : Present(s, k) /\ s[k].parent = r}
Orphans(s) == {k \in Kids : Present(s, k) /\ ~Present(s, s[k].parent)}
Snapshots == [Items -> Value \cup {Absent}]
NoRequest == [op |-> "read", on |-> {}, status |-> Never]
NoWrites == [i \in {} |-> Absent]
Nothing == [i \in Items |-> Absent]

LoadPc == {"peek", "load", "reload"}
Pc == {"idle", "peeked", "loaded", "write", "reloaded", "done", "refused",
       "failed", "torn"} \cup LoadPc

TypeOK ==
    /\ store \in Snapshots
    /\ cache \in Snapshots \cup {Absent}
    /\ minted \subseteq Kids
    /\ cpc \in [Calls -> Pc]
    /\ req \in [Calls -> Request]
    /\ snap \in [Calls -> Snapshots]
    /\ \A c \in Calls :
        /\ DOMAIN todo[c] \subseteq Items
        /\ \A i \in DOMAIN todo[c] : todo[c][i] \in Value \cup {Absent}

\* The table as earlier calls left it: children under roots that are there.
Init ==
    /\ store \in {s \in [Items -> [parent : Roots \cup {Never}, status : Statuses,
                                   edit : {Seeded}, pub : {Seeded, Never}] \cup {Absent}] :
                    \A i \in Items : Present(s, i) =>
                        /\ IF i \in Roots THEN s[i].parent = Never
                           ELSE s[i].parent \in {r \in Roots : Present(s, r)}
                        /\ s[i].pub = IF s[i].status = "draft" THEN Never ELSE Seeded}
    /\ cache = Absent
    /\ minted = {k \in Kids : Present(store, k)}
    /\ cpc = [c \in Calls |-> "idle"]
    /\ req = [c \in Calls |-> NoRequest]
    /\ snap = [c \in Calls |-> Nothing]
    /\ todo = [c \in Calls |-> NoWrites]

-------------------------------------------------------------------------------
(* The cached index. *)

\* Which first step a call takes: removeDraft and publish look at an index
\* before the remove, or the setStatus, they call loads its own.
FirstLoad(op) == IF op \in {"removeDraft", "publish"} THEN "peek" ELSE "load"

\* A request on the items it names; the HTTP and MCP layers shape it so.
WellFormed(q) ==
    /\ q.op \in {"read", "createRoot"} => q.on = {}
    /\ q.op \in {"find", "update", "remove", "removeDraft"} => \E i \in Items : q.on = {i}
    /\ q.op \in {"createKid", "publish"} => \E r \in Roots : q.on = {r}
    /\ q.op = "setStatus" => q.on # {} /\ q.status # Never
    /\ q.op \notin {"createRoot", "createKid", "update", "setStatus"} => q.status = Never

Asks == {q \in Request : WellFormed(q)}

Begin(c, q) ==
    /\ cpc[c] = "idle"
    /\ req' = [req EXCEPT ![c] = q]
    /\ cpc' = [cpc EXCEPT ![c] = FirstLoad(q.op)]
    /\ UNCHANGED <<store, cache, minted, snap, todo>>

\* A call ends: what it was asked is gone.
End(c, outcome) ==
    /\ cpc' = [cpc EXCEPT ![c] = outcome]
    /\ req' = [req EXCEPT ![c] = NoRequest]

\* index(): a read is served from the cache while it lasts.
ReadCached(c) ==
    /\ cpc[c] = "load" /\ req[c].op = "read" /\ cache # Absent
    /\ End(c, "done")
    /\ UNCHANGED <<store, cache, minted, snap, todo>>

Loaded == [p \in LoadPc |-> CASE p = "peek" -> "peeked" [] p = "load" -> "loaded"
                              [] OTHER -> "reloaded"]

\* store.loadAll answers; the call has yet to see the answer.
Load(c) ==
    /\ cpc[c] \in LoadPc
    /\ req[c].op = "read" => cache = Absent
    /\ snap' = [snap EXCEPT ![c] = store]
    /\ cpc' = [cpc EXCEPT ![c] = Loaded[@]]
    /\ UNCHANGED <<store, cache, minted, req, todo>>

\* index(): the loaded snapshot becomes the cached index, whatever has been
\* written meanwhile; the handler decides on it and has no more use for it.
Indexed(c) ==
    /\ cpc[c] \in {"peeked", "loaded", "reloaded"}
    /\ cache' = snap[c]
    /\ snap' = [snap EXCEPT ![c] = Nothing]

Expire ==
    /\ cache # Absent
    /\ cache' = Absent
    /\ UNCHANGED <<store, minted, cpc, req, snap, todo>>

-------------------------------------------------------------------------------
(* The operations: what each one decides on the index it has loaded. *)

\* stamp: publishedAt moves only when something becomes published.
Stamp(c, s, v) ==
    [v EXCEPT !.status = s,
              !.pub = IF s = "published" /\ v.status # "published" THEN c ELSE v.pub]

\* Mutant of NewValue: only the status given, without the parent's or a default.
NewValueUnset(c, p, s, inherited) ==
    Stamp(c, s, [parent |-> p, status |-> "draft", edit |-> c, pub |-> Never])

\* compose, for an item not stored yet: the status given, or the parent's, or draft.
NewValue(c, p, s, inherited) ==
    Stamp(c, IF s = Never THEN inherited ELSE s,
          [parent |-> p, status |-> "draft", edit |-> c, pub |-> Never])

\* Mutant of Composed: an update without a status makes a draft.
ComposedDraft(c, v, s) ==
    [Stamp(c, IF s = Never THEN "draft" ELSE s, v) EXCEPT !.edit = c]

\* compose, over an existing item: it keeps its status unless one is given.
Composed(c, v, s) ==
    [Stamp(c, IF s = Never THEN v.status ELSE s, v) EXCEPT !.edit = c]

\* Mutant of FreshRoots: the slug is not checked against the index.
FreshRootsAny(c) == Roots

\* makeId: a slug that no root of the index has (uniqueSlug).
FreshRoots(c) == {r \in Roots : ~Present(snap[c], r)}

\* newId: random, so never handed out before.
FreshKids == Kids \ minted

\* Whether the operation finds what it needs in its index.
Finds(c) ==
    LET s == snap[c]
        on == req[c].on
    IN  CASE req[c].op \in {"read", "createRoot"} -> TRUE
          [] req[c].op \in {"update", "remove", "removeDraft"} ->
                \A i \in on : Present(s, i) /\ i \notin Orphans(s)
          [] OTHER -> \A i \in on : Present(s, i)

\* 404, or 400 when the entity's own checks on its fields refuse the input.
Refuse(c) ==
    /\ cpc[c] = "loaded" /\ Indexed(c)
    /\ ~Finds(c) \/ req[c].op \in {"createRoot", "createKid", "update"}
    /\ End(c, "refused")
    /\ UNCHANGED <<store, minted, todo>>

Answer(c) ==
    /\ cpc[c] = "loaded" /\ Indexed(c)
    /\ req[c].op \in {"read", "find"} /\ Finds(c)
    /\ End(c, "done")
    /\ UNCHANGED <<store, minted, todo>>

WillWrite(c, writes) ==
    /\ todo' = [todo EXCEPT ![c] = writes]
    /\ cpc' = [cpc EXCEPT ![c] = "write"]
    /\ UNCHANGED <<store, req>>

CreateRoot(c) ==
    /\ cpc[c] = "loaded" /\ Indexed(c)
    /\ req[c].op = "createRoot"
    /\ \E r \in FreshRoots(c) :
        WillWrite(c, [i \in {r} |-> NewValue(c, Never, req[c].status, "draft")])
    /\ UNCHANGED minted

CreateKid(c) ==
    /\ cpc[c] = "loaded" /\ Indexed(c)
    /\ req[c].op = "createKid" /\ Finds(c)
    /\ \E p \in req[c].on, k \in FreshKids :
        /\ minted' = minted \cup {k}
        /\ WillWrite(c, [i \in {k} |-> NewValue(c, p, req[c].status, snap[c][p].status)])

Update(c) ==
    /\ cpc[c] = "loaded" /\ Indexed(c)
    /\ req[c].op = "update" /\ Finds(c)
    /\ WillWrite(c, [i \in req[c].on |-> Composed(c, snap[c][i], req[c].status)])
    /\ UNCHANGED minted

\* Mutant of Cascade: an item is deleted without its children.
CascadeNone(s, i) == {i}

Cascade(s, i) == {i} \cup KidsOf(s, i)

\* remove, also as the second half of removeDraft.
Remove(c) ==
    /\ cpc[c] = "loaded" /\ Indexed(c)
    /\ req[c].op \in {"remove", "removeDraft"} /\ Finds(c)
    /\ WillWrite(c, [j \in UNION {Cascade(snap[c], i) : i \in req[c].on} |-> Absent])
    /\ UNCHANGED minted

\* setStatus skips what has the status already.
Restamped(c, S, s) ==
    [i \in {j \in S : snap[c][j].status # s} |-> Stamp(c, s, snap[c][i])]

SetStatus(c) ==
    /\ cpc[c] = "loaded" /\ Indexed(c)
    /\ req[c].op = "setStatus" /\ Finds(c)
    /\ WillWrite(c, Restamped(c, req[c].on, req[c].status))
    /\ UNCHANGED minted

\* publish, once it has collected the items: setStatus("published", items).
PublishItems(c) ==
    /\ cpc[c] = "loaded" /\ Indexed(c)
    /\ req[c].op = "publish" /\ Finds(c)
    /\ WillWrite(c, Restamped(c, req[c].on, "published"))
    /\ UNCHANGED minted

\* The first index of publish and of removeDraft: the item is there, and is a
\* draft if it is to be removed as one.
Admits(c) ==
    \A i \in req[c].on :
        /\ Present(snap[c], i)
        /\ req[c].op = "removeDraft" => snap[c][i].status = "draft"

\* publish, first index: the root, with its draft children unless told not to.
CollectItems(c) ==
    /\ cpc[c] = "peeked" /\ Indexed(c)
    /\ req[c].op = "publish"
    /\ Admits(c)
    /\ \E kids \in {{}, {k \in Kids : Present(snap[c], k) /\ snap[c][k].parent \in req[c].on
                                      /\ snap[c][k].status = "draft"}} :
        req' = [req EXCEPT ![c].on = @ \cup kids]
    /\ cpc' = [cpc EXCEPT ![c] = "load"]
    /\ UNCHANGED <<store, minted, todo>>

\* removeDraft, first index: refused unless the item is a draft.
CheckDraft(c) ==
    /\ cpc[c] = "peeked" /\ Indexed(c)
    /\ req[c].op = "removeDraft"
    /\ Admits(c)
    /\ cpc' = [cpc EXCEPT ![c] = "load"]
    /\ UNCHANGED <<store, minted, req, todo>>

RefusePeek(c) ==
    /\ cpc[c] = "peeked" /\ Indexed(c)
    /\ ~Admits(c)
    /\ End(c, "refused")
    /\ UNCHANGED <<store, minted, todo>>

-------------------------------------------------------------------------------
(* The writes, one after another, then invalidate. *)

\* publish lists the root before its children; setStatus takes the caller's
\* order and a batch of deletes has none.
MayWrite(c, i) ==
    /\ i \in DOMAIN todo[c]
    /\ req[c].op = "publish" /\ i \in Kids => DOMAIN todo[c] \cap Roots = {}

Write(c, i) ==
    /\ cpc[c] = "write" /\ MayWrite(c, i)
    /\ store' = [store EXCEPT ![i] = todo[c][i]]
    /\ todo' = [todo EXCEPT ![c] = Restrict(@, DOMAIN @ \ {i})]
    /\ UNCHANGED <<cache, minted, cpc, req, snap>>

\* Creates, updates and publishes show the item as it is now stored, and the
\* remove of a child shows its parent: on a fresh index.
Reloads(c) ==
    \/ req[c].op \in {"createRoot", "createKid", "update", "publish"}
    \/ req[c].op \in {"remove", "removeDraft"} /\ req[c].on \subseteq Kids

\* Mutant of Invalidate: a call that does not reload leaves the cache alone.
InvalidateReloads(c) ==
    /\ cpc[c] = "write" /\ DOMAIN todo[c] = {}
    /\ cache' = IF Reloads(c) THEN Absent ELSE cache
    /\ IF Reloads(c) THEN cpc' = [cpc EXCEPT ![c] = "reload"] /\ UNCHANGED req
                     ELSE End(c, "done")
    /\ UNCHANGED <<store, minted, snap, todo>>

Invalidate(c) ==
    /\ cpc[c] = "write" /\ DOMAIN todo[c] = {}
    /\ cache' = Absent
    /\ IF Reloads(c) THEN cpc' = [cpc EXCEPT ![c] = "reload"] /\ UNCHANGED req
                     ELSE End(c, "done")
    /\ UNCHANGED <<store, minted, snap, todo>>

\* The result is read off the fresh index (404 when it has gone meanwhile).
Finish(c) ==
    /\ cpc[c] = "reloaded" /\ Indexed(c)
    /\ \E outcome \in {"done", "refused"} : End(c, outcome)
    /\ UNCHANGED <<store, minted, todo>>

\* A load throws, or the process dies before it writes.
FailLoad(c) ==
    /\ cpc[c] \in LoadPc
    /\ End(c, "failed")
    /\ UNCHANGED <<store, cache, minted, snap, todo>>

\* A write throws (it may have happened all the same): the rest is never
\* written, and the cache is not invalidated.
FailWrite(c) ==
    /\ cpc[c] = "write"
    /\ End(c, "torn")
    /\ UNCHANGED <<store, cache, minted, snap, todo>>

-------------------------------------------------------------------------------
CallStep(c) ==
    \/ \E q \in Asks : Begin(c, q)
    \/ ReadCached(c) \/ Load(c) \/ Refuse(c) \/ Answer(c)
    \/ CreateRoot(c) \/ CreateKid(c) \/ Update(c) \/ Remove(c) \/ SetStatus(c)
    \/ CollectItems(c) \/ PublishItems(c) \/ CheckDraft(c) \/ RefusePeek(c)
    \/ \E i \in Items : Write(c, i)
    \/ Invalidate(c) \/ Finish(c) \/ FailLoad(c) \/ FailWrite(c)

Next == Expire \/ \E c \in Calls : CallStep(c)

Spec == Init /\ [][Next]_vars

Active == {c \in Calls : cpc[c] \notin {"idle", "done", "refused", "failed", "torn"}}
Writers == {c \in Active : req[c].op \notin {"read", "find"}}

\* The table has one writer at a time; readers come and go.
OneWriter == \A c, d \in Writers : c = d
OneWriterNext == Next /\ OneWriter'
OneWriterSpec == Init /\ [][OneWriterNext]_vars

\* The calls one of whose writes has failed.
Torn == {c \in Calls : cpc[c] = "torn"}
-------------------------------------------------------------------------------
(* Properties. *)

\* "Deletes an item and everything that hangs off it": a child without its
\* parent is one whose own removal is under way, or was cut short by a failed
\* write.  Holds with one writer at a time: a child created under a root that
\* is being removed stays.
OrphansGoing ==
    \A k \in Orphans(store) :
        \E c \in Calls : cpc[c] \in {"write", "torn"} /\ k \in DOMAIN todo[c]
                         /\ todo[c][k] = Absent

Kept(i) == Present(store, i) /\ Present(store', i)

\* "Updates keep the current status unless one is given": a status changes
\* only to the one the writing call was asked for.
StatusAsAsked ==
    [][\A i \in Items : Kept(i) /\ store'[i].status # store[i].status =>
        \E c \in Calls :
            /\ cpc[c] = "write" /\ i \in req[c].on
            /\ store'[i].status = IF req[c].op = "publish" THEN "published"
                                  ELSE req[c].status]_vars

\* The stored content with the pending writes of its writer made.
Settled == [i \in Items |->
    IF \E c \in Calls : i \in DOMAIN todo[c]
    THEN todo[CHOOSE c \in Calls : i \in DOMAIN todo[c]][i]
    ELSE store[i]]

Tree == INSTANCE ContentTree WITH tree <- Settled

\* With one writer at a time and until a write fails, the service implements
\* the atomic tree: what a handler decides on its index is true of the table.
ImplementsTree ==
    Tree!TreeInit /\ [][Torn' = {} => Tree!TreeNext]_Settled
================================================================================
