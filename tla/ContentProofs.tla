----------------------------- MODULE ContentProofs -----------------------------
(***************************************************************************)
(* ContentService for every set of items and of calls.  With one writer at *)
(* a time it implements ContentTree, whatever fails before a write does.   *)
(***************************************************************************)
EXTENDS MCContentService, TLAPS

\* A call has writes to make only once it has decided on them.
Pending ==
    /\ todo = [c \in Calls |-> todo[c]]
    /\ \A c \in Calls :
        /\ todo[c] = [i \in DOMAIN todo[c] |-> todo[c][i]]
        /\ DOMAIN todo[c] # {} => cpc[c] \in {"write", "torn"}

\* What a call was asked stays well-formed.
Shaped ==
    \A c \in Calls :
        /\ req[c].op \in {"update", "remove", "removeDraft"} => \E i \in Items : req[c].on = {i}
        /\ req[c].op = "createKid" => req[c].on \subseteq Roots
        /\ req[c].op = "setStatus" => req[c].status # Never

\* The part that needs no single writer.
Typed == TypeOK /\ Pending /\ Shaped

Removal == {"remove", "removeDraft"}

\* The table is what its writer has loaded.
Sighted == \A c \in Writers : cpc[c] = "loaded" => snap[c] = store

Rooted == \A k \in Kids : Present(store, k) => store[k].parent \in Roots

\* The id of a child that is there, or will be, was handed out.
HandedOut ==
    \A k \in Kids :
        Present(store, k) \/ (\E c \in Calls : k \in DOMAIN todo[c] /\ todo[c][k] # Absent)
            => k \in minted

\* A removal of k was cut short.
CutShort(k) ==
    \E d \in Calls : cpc[d] = "torn" /\ k \in DOMAIN todo[d] /\ todo[d][k] = Absent

\* The write of i, among the writes w of call c, is one to make on the table as it is.
Due(c, w, i) ==
    /\ w[i] = Absent <=> req[c].op \in Removal
    /\ req[c].op \in {"createRoot", "createKid"} => ~Present(store, i)
    /\ req[c].op \in {"update", "setStatus", "publish"} =>
           /\ i \in req[c].on
           /\ w[i].status = IF req[c].op = "publish" THEN "published"
                            ELSE IF req[c].status # Never THEN req[c].status
                            ELSE store[i].status
    /\ req[c].op \in Removal => KidsOf(store, i) \subseteq DOMAIN w
    /\ i \in Kids /\ w[i] # Absent =>
           /\ w[i].parent \in Roots
           /\ Present(store, w[i].parent) \/ CutShort(i)

Decided ==
    \A c \in Calls : cpc[c] = "write" =>
        /\ req[c].op \notin {"read", "find"}
        /\ \A i \in DOMAIN todo[c] : Due(c, todo[c], i)

\* The inductive invariant, with one writer.
IInv == Typed /\ OneWriter /\ Sighted /\ Rooted /\ HandedOut /\ Decided /\ OrphansGoing

\* What a call has loaded and not yet cached is the table, until it is late.
Current == ~late => \A c \in Holding : snap[c] = store
-------------------------------------------------------------------------------
(* Values. *)

LEMMA StampIs ==
    ASSUME NEW c \in Calls, NEW s \in Statuses, NEW v \in Value
    PROVE  /\ Stamp(c, s, v) \in Value
           /\ Stamp(c, s, v).parent = v.parent /\ Stamp(c, s, v).status = s
  BY DEF Stamp, Value, Editors

LEMMA NewValueIs ==
    ASSUME NEW c \in Calls, NEW p \in Roots \cup {Never}, NEW s \in Statuses \cup {Never},
           NEW inherited \in Statuses
    PROVE  /\ NewValue(c, p, s, inherited) \in Value
           /\ NewValue(c, p, s, inherited).parent = p
<1> DEFINE v == [parent |-> p, status |-> "draft", edit |-> c, pub |-> Never]
<1>1. v \in Value /\ v.parent = p
  BY DEF Value, Editors, Statuses
<1>2. (IF s = Never THEN inherited ELSE s) \in Statuses
  OBVIOUS
<1> HIDE DEF v
<1>3. NewValue(c, p, s, inherited) = Stamp(c, IF s = Never THEN inherited ELSE s, v)
  BY DEF NewValue, v
<1> QED BY <1>1, <1>2, <1>3, StampIs

LEMMA ComposedIs ==
    ASSUME NEW c \in Calls, NEW s \in Statuses \cup {Never}, NEW v \in Value
    PROVE  /\ Composed(c, v, s) \in Value
           /\ Composed(c, v, s).parent = v.parent
           /\ Composed(c, v, s).status = IF s = Never THEN v.status ELSE s
<1> PICK t : t = IF s = Never THEN v.status ELSE s
  OBVIOUS
<1>1. t \in Statuses
  BY DEF Value
<1>2. Stamp(c, t, v) \in Value /\ Stamp(c, t, v).parent = v.parent /\ Stamp(c, t, v).status = t
  BY <1>1, StampIs
<1> QED BY <1>2 DEF Composed, Value, Editors

LEMMA NothingIsSnapshot == Nothing \in Snapshots
  BY DEF Nothing, Snapshots

LEMMA PresentValue ==
    ASSUME NEW s \in Snapshots, NEW i \in Items, Present(s, i)
    PROVE  s[i] \in Value
  BY DEF Snapshots, Present
-------------------------------------------------------------------------------
(* Typed needs no single writer. *)

LEMMA InitTyped == Init => Typed
<1> SUFFICES ASSUME Init PROVE Typed
  OBVIOUS
<1>1. PICK V : V = [parent : Roots \cup {Never}, status : Statuses,
                    edit : {Seeded}, pub : {Seeded, Never}]
  OBVIOUS
<1>2. V \subseteq Value
  BY <1>1 DEF Value, Editors
<1>3. store \in Snapshots
  BY <1>1, <1>2 DEF Init, Snapshots
<1>4. NoRequest \in Request
  BY DEF NoRequest, Request, Ops
<1>5. TypeOK
  BY <1>3, <1>4, NothingIsSnapshot DEF Init, TypeOK, NoWrites, Pc, LoadPc
<1>6. Pending /\ Shaped
  BY DEF Init, Pending, Shaped, NoWrites, NoRequest
<1> QED BY <1>5, <1>6 DEF Typed

\* A call goes on or ends, with no more to write.
LEMMA CallTyped ==
    ASSUME Typed, NEW c \in Calls, NEW pc \in Pc, NEW q \in Request,
           cpc' = [cpc EXCEPT ![c] = pc], req' = [req EXCEPT ![c] = q],
           q = req[c] \/ q = NoRequest \/ q \in Asks,
           cpc[c] \notin {"write", "torn"} \/ pc = "torn" \/ DOMAIN todo[c] = {},
           store' = store, minted' = minted, todo' = todo,
           cache' \in Snapshots \cup {Absent}, snap' \in [Calls -> Snapshots]
    PROVE  Typed'
<1> USE DEF Typed
<1>1. TypeOK'
  BY DEF TypeOK
<1>2. Pending'
  BY DEF Pending, TypeOK
<1>3. Shaped'
  BY DEF Shaped, TypeOK, Asks, WellFormed, NoRequest
<1> QED BY <1>1, <1>2, <1>3

\* What Indexed leaves has its type.
LEMMA IndexedTyped ==
    ASSUME Typed, NEW c \in Calls, Indexed(c)
    PROVE  cache' \in Snapshots /\ snap' \in [Calls -> Snapshots]
  BY NothingIsSnapshot DEF Typed, TypeOK, Indexed

\* A call decides on its writes.
LEMMA WillWriteTyped ==
    ASSUME Typed, NEW c \in Calls, Indexed(c), NEW w, WillWrite(c, w), minted' \subseteq Kids,
           w = [i \in DOMAIN w |-> w[i]], DOMAIN w \subseteq Items,
           \A i \in DOMAIN w : w[i] \in Value \cup {Absent}
    PROVE  Typed'
<1> USE DEF Typed, TypeOK, WillWrite
<1>1. cache' \in Snapshots /\ snap' \in [Calls -> Snapshots]
  BY IndexedTyped
<1>2. todo' = [todo EXCEPT ![c] = w] /\ \A d \in Calls : todo'[d] = IF d = c THEN w ELSE todo[d]
  BY DEF Pending
<1>3. TypeOK'
  BY <1>1, <1>2 DEF Pc
<1>4. Pending'
  BY <1>2 DEF Pending
<1>5. Shaped'
  BY DEF Shaped
<1> QED BY <1>3, <1>4, <1>5

\* The writes of an operation, each of its value.
LEMMA CreateRootWrites ==
    ASSUME Typed, NEW c \in Calls, NEW r \in FreshRoots(c)
    PROVE  NewValue(c, Never, req[c].status, "draft") \in Value
  BY NewValueIs DEF Typed, TypeOK, Request, Statuses

LEMMA CreateKidWrites ==
    ASSUME Typed, NEW c \in Calls, req[c].op = "createKid", Finds(c), NEW p \in req[c].on
    PROVE  /\ p \in Roots /\ snap[c][p] \in Value /\ Present(snap[c], p)
           /\ NewValue(c, p, req[c].status, snap[c][p].status) \in Value
           /\ NewValue(c, p, req[c].status, snap[c][p].status).parent = p
<1>1. p \in Roots /\ Present(snap[c], p)
  BY DEF Typed, Shaped, Finds
<1>2. snap[c][p] \in Value
  BY <1>1, PresentValue DEF Typed, TypeOK, Items
<1>3. snap[c][p].status \in Statuses /\ req[c].status \in Statuses \cup {Never}
  BY <1>2 DEF Value, Typed, TypeOK, Request
<1> QED BY <1>1, <1>2, <1>3, NewValueIs

LEMMA UpdateWrites ==
    ASSUME Typed, NEW c \in Calls, req[c].op = "update", Finds(c), NEW i \in req[c].on
    PROVE  /\ i \in Items /\ snap[c][i] \in Value /\ Present(snap[c], i)
           /\ i \notin Orphans(snap[c])
           /\ req[c].status \in Statuses \cup {Never}
           /\ Composed(c, snap[c][i], req[c].status) \in Value
<1>1. i \in Items /\ Present(snap[c], i) /\ i \notin Orphans(snap[c])
  BY DEF Typed, TypeOK, Request, Finds
<1>2. snap[c][i] \in Value
  BY <1>1, PresentValue DEF Typed, TypeOK
<1>3. req[c].status \in Statuses \cup {Never}
  BY DEF Typed, TypeOK, Request
<1> QED BY <1>1, <1>2, <1>3, ComposedIs

LEMMA RestampWrites ==
    ASSUME Typed, NEW c \in Calls, req[c].op \in {"setStatus", "publish"}, Finds(c),
           NEW s \in Statuses
    PROVE  LET w == Restamped(c, req[c].on, s) IN
           /\ w = [i \in DOMAIN w |-> w[i]]
           /\ DOMAIN w = {i \in req[c].on : snap[c][i].status # s} /\ DOMAIN w \subseteq Items
           /\ \A i \in DOMAIN w :
                  /\ snap[c][i] \in Value /\ Present(snap[c], i)
                  /\ w[i] = Stamp(c, s, snap[c][i]) /\ w[i] \in Value
<1> PICK w : w = Restamped(c, req[c].on, s)
  OBVIOUS
<1>1. w = [i \in {j \in req[c].on : snap[c][j].status # s} |-> Stamp(c, s, snap[c][i])]
  BY DEF Restamped
<1>2. \A i \in req[c].on : i \in Items /\ Present(snap[c], i)
  BY DEF Typed, TypeOK, Request, Finds
<1>3. \A i \in req[c].on : snap[c][i] \in Value
  BY <1>2, PresentValue DEF Typed, TypeOK
<1>4. \A i \in req[c].on : Stamp(c, s, snap[c][i]) \in Value
  BY <1>3, StampIs
<1> QED BY <1>1, <1>2, <1>3, <1>4

\* Every removal is of one item and what hangs off it.
LEMMA RemoveWrites ==
    ASSUME Typed, NEW c \in Calls, req[c].op \in Removal
    PROVE  \E i \in Items : /\ req[c].on = {i}
                            /\ UNION {Cascade(snap[c], j) : j \in req[c].on} = Cascade(snap[c], i)
                            /\ Cascade(snap[c], i) \subseteq Items
  BY DEF Typed, Shaped, Removal, Cascade, KidsOf, Items
-------------------------------------------------------------------------------
LEMMA DecideTyped ==
    ASSUME Typed, NEW c \in Calls,
           CreateRoot(c) \/ CreateKid(c) \/ Update(c) \/ Remove(c) \/ SetStatus(c) \/ PublishItems(c)
    PROVE  Typed'
<1>0. minted \subseteq Kids
  BY DEF Typed, TypeOK
<1>1. CASE CreateRoot(c)
  <2>1. PICK r \in FreshRoots(c) :
            WillWrite(c, [i \in {r} |-> NewValue(c, Never, req[c].status, "draft")])
    BY <1>1 DEF CreateRoot
  <2> QED BY <1>0, <1>1, <2>1, CreateRootWrites, WillWriteTyped DEF CreateRoot, FreshRoots, Items
<1>2. CASE CreateKid(c)
  <2>1. PICK p \in req[c].on, k \in FreshKids :
            /\ minted' = minted \cup {k}
            /\ WillWrite(c, [i \in {k} |-> NewValue(c, p, req[c].status, snap[c][p].status)])
    BY <1>2 DEF CreateKid
  <2>2. k \in Items /\ minted' \subseteq Kids
    BY <1>0, <2>1 DEF FreshKids, Items
  <2>3. NewValue(c, p, req[c].status, snap[c][p].status) \in Value
    BY <1>2, CreateKidWrites DEF CreateKid
  <2> QED BY <1>2, <2>1, <2>2, <2>3, WillWriteTyped DEF CreateKid
<1>3. CASE Update(c)
  <2>1. \A i \in req[c].on : i \in Items /\ Composed(c, snap[c][i], req[c].status) \in Value
    BY <1>3, UpdateWrites DEF Update
  <2> QED BY <1>0, <1>3, <2>1, WillWriteTyped DEF Update
<1>4. CASE Remove(c)
  <2>1. UNION {Cascade(snap[c], j) : j \in req[c].on} \subseteq Items
    BY <1>4, RemoveWrites DEF Remove, Removal
  <2> QED BY <1>0, <1>4, <2>1, WillWriteTyped DEF Remove
<1>5. CASE SetStatus(c)
  <2>1. req[c].status \in Statuses
    BY <1>5 DEF SetStatus, Typed, TypeOK, Shaped, Request
  <2> QED BY <1>0, <1>5, <2>1, RestampWrites, WillWriteTyped DEF SetStatus
<1>6. CASE PublishItems(c)
  <2>1. "published" \in Statuses
    BY DEF Statuses
  <2> QED BY <1>0, <1>6, <2>1, RestampWrites, WillWriteTyped DEF PublishItems
<1> QED BY <1>1, <1>2, <1>3, <1>4, <1>5, <1>6

LEMMA WriteTyped ==
    ASSUME Typed, NEW c \in Calls, NEW i \in Items, Write(c, i)
    PROVE  /\ Typed'
           /\ i \in DOMAIN todo[c] /\ DOMAIN todo'[c] = DOMAIN todo[c] \ {i}
           /\ \A j \in DOMAIN todo'[c] : todo'[c][j] = todo[c][j]
           /\ \A d \in Calls : d # c => todo'[d] = todo[d]
           /\ \A j \in Items : store'[j] = IF j = i THEN todo[c][i] ELSE store[j]
<1> USE DEF Typed, Write
<1>1. i \in DOMAIN todo[c]
  BY DEF MayWrite
<1> PICK w : w = [j \in DOMAIN todo[c] \ {i} |-> todo[c][j]]
  OBVIOUS
<1>2. todo' = [todo EXCEPT ![c] = w]
  BY DEF Restrict
<1>3. \A d \in Calls : todo'[d] = IF d = c THEN w ELSE todo[d]
  BY <1>2 DEF Pending
<1>4. \A j \in Items : store'[j] = IF j = i THEN todo[c][i] ELSE store[j]
  BY DEF TypeOK, Snapshots
<1>5. store' \in Snapshots
  BY <1>1 DEF TypeOK, Snapshots
<1>6. TypeOK'
  <2>1. DOMAIN w \subseteq Items /\ \A j \in DOMAIN w : w[j] \in Value \cup {Absent}
    BY DEF TypeOK
  <2>2. \A d \in Calls : /\ DOMAIN todo'[d] \subseteq Items
                         /\ \A j \in DOMAIN todo'[d] : todo'[d][j] \in Value \cup {Absent}
    BY <1>3, <2>1 DEF TypeOK
  <2> QED BY <1>5, <2>2 DEF TypeOK
<1>7. Pending'
  BY <1>2, <1>3 DEF Pending
<1>8. Shaped'
  BY DEF Shaped
<1> QED BY <1>1, <1>3, <1>4, <1>6, <1>7, <1>8

LEMMA OtherTyped ==
    ASSUME Typed, NEW c \in Calls,
           \/ \E q \in Asks : Begin(c, q)
           \/ ReadCached(c) \/ Load(c) \/ Refuse(c) \/ Answer(c)
           \/ CollectItems(c) \/ CheckDraft(c) \/ RefusePeek(c)
           \/ Invalidate(c) \/ Finish(c) \/ FailLoad(c) \/ FailWrite(c)
    PROVE  Typed'
<1> USE DEF Typed
<1>0. /\ NoRequest \in Request /\ Asks \subseteq Request
      /\ store \in Snapshots /\ cache \in Snapshots \cup {Absent} /\ snap \in [Calls -> Snapshots]
      /\ req[c] \in Request /\ cpc \in [Calls -> Pc] /\ req \in [Calls -> Request]
  BY DEF NoRequest, Request, Ops, Asks, TypeOK
<1>1. CASE \E q \in Asks : Begin(c, q)
  <2>1. PICK q \in Asks : Begin(c, q)
    BY <1>1
  <2>2. FirstLoad(q.op) \in Pc /\ q \in Request
    BY <1>0 DEF FirstLoad, Pc, LoadPc
  <2> QED BY <1>0, <2>1, <2>2, CallTyped DEF Begin
<1>2. CASE ReadCached(c)
  BY <1>0, <1>2, CallTyped DEF ReadCached, End, Pc
<1>3. CASE Load(c)
  <2>1. Loaded[cpc[c]] \in {"peeked", "loaded", "reloaded"} /\ cpc[c] \notin {"write", "torn"}
    BY <1>3 DEF Load, Loaded, LoadPc
  <2> QED BY <1>0, <1>3, <2>1, CallTyped DEF Load, Pc
<1>4. CASE Refuse(c)
  BY <1>0, <1>4, IndexedTyped, CallTyped DEF Refuse, End, Pc
<1>5. CASE Answer(c)
  BY <1>0, <1>5, IndexedTyped, CallTyped DEF Answer, End, Pc
<1>6. CASE CollectItems(c)
  <2>1. PICK kids \in SUBSET Kids : req' = [req EXCEPT ![c] = [req[c] EXCEPT !.on = @ \cup kids]]
    BY <1>6 DEF CollectItems
  <2>2. [req[c] EXCEPT !.on = @ \cup kids] \in Request /\ req[c].op = "publish"
    BY <1>0, <1>6 DEF CollectItems, Request, Items
  <2>3. TypeOK'
    BY <1>0, <1>6, <2>1, <2>2, IndexedTyped DEF TypeOK, CollectItems, Pc, LoadPc
  <2>4. Pending'
    BY <1>0, <1>6 DEF CollectItems, Pending
  <2>5. Shaped'
    BY <1>0, <2>1, <2>2 DEF Shaped, Request
  <2> QED BY <2>3, <2>4, <2>5
<1>7. CASE CheckDraft(c)
  BY <1>0, <1>7, IndexedTyped, CallTyped DEF CheckDraft, Pc, LoadPc
<1>8. CASE RefusePeek(c)
  BY <1>0, <1>8, IndexedTyped, CallTyped DEF RefusePeek, End, Pc
<1>9. CASE Invalidate(c)
  BY <1>0, <1>9, CallTyped DEF Invalidate, End, Pc, LoadPc
<1>10. CASE Finish(c)
  BY <1>0, <1>10, IndexedTyped, CallTyped DEF Finish, End, Pc
<1>11. CASE FailLoad(c)
  BY <1>0, <1>11, CallTyped DEF FailLoad, End, Pc, LoadPc
<1>12. CASE FailWrite(c)
  BY <1>0, <1>12, CallTyped DEF FailWrite, End, Pc
<1> QED BY <1>1, <1>2, <1>3, <1>4, <1>5, <1>6, <1>7, <1>8, <1>9, <1>10, <1>11, <1>12

LEMMA StepTyped == Typed /\ [Next]_vars => Typed'
<1> SUFFICES ASSUME Typed, [Next]_vars PROVE Typed'
  OBVIOUS
<1>1. CASE Expire
  BY <1>1 DEF Expire, Typed, TypeOK, Pending, Shaped
<1>2. ASSUME NEW c \in Calls, CallStep(c) PROVE Typed'
  BY <1>2, DecideTyped, WriteTyped, OtherTyped DEF CallStep
<1>3. CASE UNCHANGED vars
  BY <1>3 DEF vars, Typed, TypeOK, Pending, Shaped
<1> QED BY <1>1, <1>2, <1>3 DEF Next

(* The table, the index and every call have their types, however many      *)
(* write at once (ContentService).                                         *)
THEOREM ContentTypeOK == Spec => []TypeOK
<1>1. Typed => TypeOK
  BY DEF Typed
<1> QED BY <1>1, InitTyped, StepTyped, PTL DEF Spec
-------------------------------------------------------------------------------
(* One writer at a time. *)

LEMMA InitIInv == Init => IInv
<1> SUFFICES ASSUME Init PROVE IInv
  OBVIOUS
<1>1. Typed
  BY InitTyped
<1>2. OneWriter /\ Sighted /\ Decided
  BY DEF Init, OneWriter, Writers, Active, Sighted, Decided
<1>3. \A k \in Kids : Present(store, k) =>
          /\ store[k].parent \in Roots /\ Present(store, store[k].parent) /\ k \in minted
  BY ItemsAssumption DEF Init, Items, Present
<1>4. Rooted /\ HandedOut /\ OrphansGoing
  BY <1>3 DEF Rooted, HandedOut, OrphansGoing, Orphans, Init, NoWrites
<1> QED BY <1>1, <1>2, <1>4 DEF IInv

\* A call that is to write, or writing, is the writer.
LEMMA TheWriter ==
    ASSUME IInv, NEW c \in Calls,
           cpc[c] = "write" \/ (cpc[c] = "loaded" /\ req[c].op \notin {"read", "find"})
    PROVE  c \in Writers /\ \A d \in Calls : cpc[d] = "write" => d = c
  BY DEF IInv, OneWriter, Writers, Active, Decided

\* A step that writes nothing and decides on no write.
Quiet ==
    /\ UNCHANGED <<store, todo, minted>>
    /\ \A d \in Calls :
        /\ cpc[d] = "torn" => cpc'[d] = "torn"
        /\ cpc[d] = "write" /\ DOMAIN todo[d] # {} => cpc'[d] \in {"write", "torn"}
        /\ cpc'[d] = "write" => cpc[d] = "write" /\ req'[d] = req[d]
        /\ cpc'[d] = "loaded" =>
               snap'[d] = store \/ (cpc[d] = "loaded" /\ snap'[d] = snap[d] /\ req'[d] = req[d])

LEMMA QuietKeeps ==
    ASSUME IInv, Quiet, Typed', OneWriter'
    PROVE  IInv'
<1> USE DEF IInv, Quiet
<1>1. Sighted'
  BY DEF Sighted, Writers, Active
<1>2. Rooted' /\ HandedOut'
  BY DEF Rooted, HandedOut, Present
<1>3. \A k : CutShort(k) => CutShort(k)'
  BY DEF CutShort
<1>4. Decided'
  <2> SUFFICES ASSUME NEW c \in Calls, cpc'[c] = "write"
               PROVE  req'[c].op \notin {"read", "find"}
                      /\ \A i \in DOMAIN todo'[c] : Due(c, todo[c], i)'
    BY DEF Decided
  <2>1. cpc[c] = "write" /\ req'[c] = req[c]
    OBVIOUS
  <2>2. \A i \in DOMAIN todo[c] : Due(c, todo[c], i)
    BY <2>1 DEF Decided
  <2> QED BY <2>1, <2>2, <1>3 DEF Decided, Due, Present, KidsOf
<1>5. OrphansGoing'
  BY DEF OrphansGoing, Orphans, Present
<1> QED BY <1>1, <1>2, <1>4, <1>5

LEMMA OtherQuiet ==
    ASSUME Typed, NEW c \in Calls,
           \/ \E q \in Asks : Begin(c, q)
           \/ ReadCached(c) \/ Load(c) \/ Refuse(c) \/ Answer(c)
           \/ CollectItems(c) \/ CheckDraft(c) \/ RefusePeek(c)
           \/ Invalidate(c) \/ Finish(c) \/ FailLoad(c) \/ FailWrite(c)
    PROVE  Quiet
<1> USE DEF Typed, TypeOK, Quiet, End, Indexed
<1>1. CASE \E q \in Asks : Begin(c, q)
  BY <1>1 DEF Begin, FirstLoad
<1>2. CASE ReadCached(c) \/ Refuse(c) \/ Answer(c)
  BY <1>2 DEF ReadCached, Refuse, Answer
<1>3. CASE Load(c)
  BY <1>3 DEF Load, Loaded, LoadPc
<1>4. CASE CollectItems(c) \/ CheckDraft(c) \/ RefusePeek(c)
  BY <1>4 DEF CollectItems, CheckDraft, RefusePeek
<1>5. CASE Invalidate(c) \/ Finish(c)
  BY <1>5 DEF Invalidate, Finish
<1>6. CASE FailLoad(c) \/ FailWrite(c)
  BY <1>6 DEF FailLoad, FailWrite, LoadPc
<1> QED BY <1>1, <1>2, <1>3, <1>4, <1>5, <1>6

\* The writer has decided on writes that are due.
LEMMA DecideKeeps ==
    ASSUME IInv, NEW c \in Calls, cpc[c] = "loaded", req[c].op \notin {"read", "find"},
           NEW w, WillWrite(c, w), Indexed(c), minted \subseteq minted',
           \A i \in DOMAIN w : Due(c, w, i),
           \A k \in Kids \cap DOMAIN w : w[k] # Absent => k \in minted',
           Typed', OneWriter'
    PROVE  IInv'
<1> USE DEF WillWrite
<1>1. c \in Writers /\ \A d \in Calls : cpc[d] = "write" => d = c
  BY TheWriter
<1>2. \A d \in Calls : /\ todo'[d] = IF d = c THEN w ELSE todo[d]
                       /\ cpc'[d] = IF d = c THEN "write" ELSE cpc[d]
                       /\ d # c => snap'[d] = snap[d]
  BY DEF IInv, Typed, TypeOK, Pending, Indexed
<1>3. DOMAIN todo[c] = {}
  BY DEF IInv, Typed, Pending
<1>4. Sighted'
  BY <1>2 DEF IInv, Sighted, Writers, Active
<1>5. Rooted'
  BY DEF IInv, Rooted, Present
<1>6. HandedOut'
  BY <1>2 DEF IInv, HandedOut, Present
<1>7. \A k : CutShort(k) => CutShort(k)'
  BY <1>2 DEF CutShort
<1>8. Decided'
  <2> SUFFICES ASSUME NEW d \in Calls, cpc'[d] = "write"
               PROVE  req[d].op \notin {"read", "find"}
                      /\ \A i \in DOMAIN todo'[d] : Due(d, todo[d], i)'
    BY DEF Decided
  <2>1. d = c
    BY <1>1, <1>2
  <2>2. todo'[d] = w
    BY <1>2, <2>1
  <2>3. \A i \in DOMAIN w : Due(c, w, i)'
    BY <1>7, <1>2 DEF Due, Present, KidsOf
  <2> QED BY <2>1, <2>2, <2>3
<1>9. OrphansGoing'
  BY <1>2, <1>3 DEF IInv, OrphansGoing, Orphans, Present
<1> QED BY <1>4, <1>5, <1>6, <1>8, <1>9 DEF IInv

\* A child whose parent is gone, seen by the writer, was to be removed before.
LEMMA OrphanCutShort ==
    ASSUME IInv, NEW c \in Calls, cpc[c] = "loaded", req[c].op \notin {"read", "find"},
           NEW k \in Orphans(store)
    PROVE  CutShort(k)
<1>1. \A d \in Calls : cpc[d] # "write"
  BY TheWriter
<1> QED BY <1>1 DEF IInv, OrphansGoing, CutShort

LEMMA CreateRootKeeps ==
    ASSUME IInv, NEW c \in Calls, CreateRoot(c), Typed', OneWriter'
    PROVE  IInv'
<1> USE DEF CreateRoot
<1>1. PICK r \in FreshRoots(c) :
          WillWrite(c, [i \in {r} |-> NewValue(c, Never, req[c].status, "draft")])
  OBVIOUS
<1> PICK w : w = [i \in {r} |-> NewValue(c, Never, req[c].status, "draft")]
  OBVIOUS
<1>2. w[r] \in Value /\ w[r] # Absent /\ r \notin Kids
  BY CreateRootWrites, AbsentAssumption, ItemsAssumption DEF IInv, FreshRoots
<1>3. snap[c] = store
  BY TheWriter DEF IInv, Sighted
<1>4. Due(c, w, r)
  BY <1>2, <1>3 DEF Due, FreshRoots, Removal
<1> QED BY <1>1, <1>2, <1>4, DecideKeeps

LEMMA CreateKidKeeps ==
    ASSUME IInv, NEW c \in Calls, CreateKid(c), Typed', OneWriter'
    PROVE  IInv'
<1> USE DEF CreateKid
<1>1. PICK p \in req[c].on, k \in FreshKids :
          /\ minted' = minted \cup {k}
          /\ WillWrite(c, [i \in {k} |-> NewValue(c, p, req[c].status, snap[c][p].status)])
  OBVIOUS
<1> PICK w : w = [i \in {k} |-> NewValue(c, p, req[c].status, snap[c][p].status)]
  OBVIOUS
<1>2. /\ w[k] \in Value /\ w[k].parent = p /\ w[k] # Absent
      /\ p \in Roots /\ Present(snap[c], p)
  BY CreateKidWrites, AbsentAssumption DEF IInv
<1>3. snap[c] = store
  BY TheWriter DEF IInv, Sighted
<1>4. ~Present(store, k)
  BY DEF FreshKids, IInv, HandedOut
<1>5. Due(c, w, k)
  BY <1>2, <1>3, <1>4 DEF Due, Removal
<1> QED BY <1>1, <1>2, <1>5, DecideKeeps

LEMMA UpdateKeeps ==
    ASSUME IInv, NEW c \in Calls, Update(c), Typed', OneWriter'
    PROVE  IInv'
<1> USE DEF Update
<1> PICK w : w = [i \in req[c].on |-> Composed(c, snap[c][i], req[c].status)]
  OBVIOUS
<1>1. snap[c] = store
  BY TheWriter DEF IInv, Sighted
<1>2. ASSUME NEW i \in req[c].on
      PROVE  Due(c, w, i) /\ (i \in Kids => i \in minted)
  <2>1. /\ i \in Items /\ store[i] \in Value /\ Present(store, i) /\ i \notin Orphans(store)
        /\ req[c].status \in Statuses \cup {Never}
        /\ Composed(c, store[i], req[c].status) \in Value
    BY <1>1, UpdateWrites DEF IInv
  <2>2. /\ w[i] \in Value /\ w[i] # Absent /\ w[i].parent = store[i].parent
        /\ w[i].status = IF req[c].status = Never THEN store[i].status ELSE req[c].status
    BY <1>1, <2>1, ComposedIs, AbsentAssumption
  <2>3. i \in Kids => store[i].parent \in Roots /\ Present(store, store[i].parent) /\ i \in minted
    BY <2>1 DEF IInv, Rooted, HandedOut, Orphans
  <2> QED BY <2>2, <2>3 DEF Due, Removal
<1> QED BY <1>2, DecideKeeps

LEMMA RemoveKeeps ==
    ASSUME IInv, NEW c \in Calls, Remove(c), Typed', OneWriter'
    PROVE  IInv'
<1> USE DEF Remove
<1> PICK w : w = [j \in UNION {Cascade(snap[c], i) : i \in req[c].on} |-> Absent]
  OBVIOUS
<1>1. snap[c] = store
  BY TheWriter DEF IInv, Sighted
<1>2. PICK i \in Items : DOMAIN w = Cascade(store, i)
  BY <1>1, RemoveWrites DEF IInv, Removal
<1>3. \A k \in Kids : KidsOf(store, k) = {}
  BY ItemsAssumption DEF IInv, Rooted, KidsOf
<1>4. ASSUME NEW j \in DOMAIN w PROVE Due(c, w, j)
  <2>1. KidsOf(store, j) \subseteq DOMAIN w
    BY <1>2, <1>3 DEF Cascade, KidsOf
  <2> QED BY <2>1 DEF Due, Removal
<1> QED BY <1>4, DecideKeeps

\* setStatus, and the second half of publish.
LEMMA RestampDue ==
    ASSUME IInv, NEW c \in Calls, cpc[c] = "loaded", req[c].op \in {"setStatus", "publish"},
           Finds(c), NEW s \in Statuses,
           s = IF req[c].op = "publish" THEN "published" ELSE req[c].status,
           NEW w, w = Restamped(c, req[c].on, s)
    PROVE  \A i \in DOMAIN w : Due(c, w, i) /\ (i \in Kids => i \in minted)
<1>1. snap[c] = store
  BY TheWriter DEF IInv, Sighted
<1> SUFFICES ASSUME NEW i \in DOMAIN w
             PROVE  Due(c, w, i) /\ (i \in Kids => i \in minted)
  OBVIOUS
<1>2. /\ i \in req[c].on /\ i \in Items /\ store[i] \in Value /\ Present(store, i)
      /\ w[i] = Stamp(c, s, store[i]) /\ w[i] \in Value
  BY <1>1, RestampWrites DEF IInv
<1>3. w[i] # Absent /\ w[i].parent = store[i].parent /\ w[i].status = s
  BY <1>2, StampIs, AbsentAssumption
<1>4. i \in Kids => store[i].parent \in Roots /\ i \in minted
  BY <1>2 DEF IInv, Rooted, HandedOut
<1>5. i \in Kids => Present(store, store[i].parent) \/ CutShort(i)
  BY <1>2, OrphanCutShort DEF Orphans
<1>6. s # Never
  BY AbsentAssumption
<1> QED BY <1>2, <1>3, <1>4, <1>5, <1>6 DEF Due, Removal

LEMMA RestampKeeps ==
    ASSUME IInv, NEW c \in Calls, SetStatus(c) \/ PublishItems(c), Typed', OneWriter'
    PROVE  IInv'
<1> PICK s : s = IF req[c].op = "publish" THEN "published" ELSE req[c].status
  OBVIOUS
<1> PICK w : w = Restamped(c, req[c].on, s)
  OBVIOUS
<1>1. s \in Statuses
  BY DEF SetStatus, PublishItems, IInv, Typed, TypeOK, Shaped, Request, Statuses
<1>2. /\ cpc[c] = "loaded" /\ Indexed(c) /\ req[c].op \in {"setStatus", "publish"} /\ Finds(c)
      /\ WillWrite(c, w) /\ minted' = minted
  BY DEF SetStatus, PublishItems
<1>3. \A i \in DOMAIN w : Due(c, w, i) /\ (i \in Kids => i \in minted)
  BY <1>1, <1>2, RestampDue
<1> QED BY <1>2, <1>3, DecideKeeps

\* One of the writes decided on is made.
LEMMA WriteKeeps ==
    ASSUME IInv, NEW c \in Calls, NEW i \in Items, Write(c, i), Typed', OneWriter'
    PROVE  IInv'
<1>1. /\ i \in DOMAIN todo[c] /\ DOMAIN todo'[c] = DOMAIN todo[c] \ {i}
      /\ \A j \in DOMAIN todo'[c] : todo'[c][j] = todo[c][j]
      /\ \A d \in Calls : d # c => todo'[d] = todo[d]
      /\ \A j \in Items : store'[j] = IF j = i THEN todo[c][i] ELSE store[j]
      /\ DOMAIN todo[c] \subseteq Items
  BY WriteTyped DEF IInv, Typed, TypeOK
<1>2. cpc[c] = "write" /\ UNCHANGED <<cpc, req, snap, minted>>
  BY DEF Write
<1>3. c \in Writers /\ \A d \in Calls : cpc[d] = "write" => d = c
  BY <1>2, TheWriter
<1>4. \A j \in DOMAIN todo[c] : Due(c, todo[c], j)
  BY <1>2 DEF IInv, Decided
<1>5. Sighted'
  BY <1>2, <1>3 DEF IInv, Sighted, OneWriter, Writers, Active
<1>6. Kids \subseteq Items /\ Roots \subseteq Items
  BY DEF Items
<1>7. Rooted'
  BY <1>1, <1>4, <1>6 DEF IInv, Rooted, Due, Present
<1>8. HandedOut'
  BY <1>1, <1>2, <1>6 DEF IInv, HandedOut, Present
<1>9. \A k : CutShort(k) => CutShort(k)'
  BY <1>1, <1>2 DEF CutShort
<1>10. \A j \in Items : KidsOf(store, j)' \subseteq KidsOf(store, j) \cup {i}
  BY <1>1, <1>6 DEF KidsOf, Present
<1>11. req[c].op \in Removal => i \notin {k \in Kids : Present(store', k)}
  BY <1>1, <1>4 DEF Due, Present
<1>12. Decided'
  <2> SUFFICES ASSUME NEW j \in DOMAIN todo'[c]
               PROVE  Due(c, todo[c], j)'
    BY <1>2, <1>3 DEF Decided, IInv
  <2>1. j \in DOMAIN todo[c] /\ j # i /\ j \in Items /\ todo'[c][j] = todo[c][j]
        /\ store'[j] = store[j]
    BY <1>1
  <2>2. Due(c, todo[c], j)
    BY <1>4, <2>1
  <2>3. req[c].op \in Removal => KidsOf(store, j)' \subseteq DOMAIN todo'[c]
    BY <1>1, <1>10, <1>11, <2>1, <2>2 DEF Due, KidsOf
  <2>4. ASSUME j \in Kids, todo[c][j] # Absent
        PROVE  /\ todo[c][j].parent \in Roots
               /\ Present(store', todo[c][j].parent) \/ CutShort(j)'
    <3>1. todo[c][i] # Absent
      BY <1>1, <1>4, <2>2, <2>4 DEF Due
    <3> QED BY <1>1, <1>6, <1>9, <2>2, <2>4, <3>1 DEF Due, Present
  <2> QED BY <1>2, <2>1, <2>2, <2>3, <2>4 DEF Due, Present
<1>13. OrphansGoing'
  <2> SUFFICES ASSUME NEW k \in Orphans(store')
               PROVE  \E d \in Calls : cpc[d] \in {"write", "torn"} /\ k \in DOMAIN todo'[d]
                                       /\ todo'[d][k] = Absent
    BY <1>2 DEF OrphansGoing, Orphans, Present
  <2>1. k \in Kids /\ k \in Items /\ store'[k] # Absent /\ store'[store'[k].parent] = Absent
    BY <1>6 DEF Orphans, Present
  <2>2. store'[k].parent \in Roots
    BY <1>7, <2>1 DEF Rooted, Present
  <2>3. CASE k = i
    <3>1. todo[c][i] # Absent /\ store'[i] = todo[c][i]
      BY <1>1, <2>1, <2>3
    <3>2. store[todo[c][i].parent] = Absent
      BY <1>1, <1>6, <2>1, <2>2, <2>3, <3>1, ItemsAssumption
    <3>3. PICK d \in Calls : cpc[d] = "torn" /\ k \in DOMAIN todo[d] /\ todo[d][k] = Absent
      BY <1>1, <1>4, <2>1, <2>3, <3>1, <3>2 DEF Due, CutShort, Present
    <3> QED BY <1>1, <1>2, <3>3
  <2>4. CASE k # i
    <3>1. store'[k] = store[k]
      BY <1>1, <2>1, <2>4
    <3>2. CASE store[k].parent = i
      <4>1. todo[c][i] = Absent
        BY <1>1, <2>1, <3>1, <3>2
      <4>2. req[c].op \in Removal /\ k \in DOMAIN todo[c]
        BY <1>1, <1>4, <2>1, <3>1, <3>2, <4>1 DEF Due, KidsOf, Present
      <4>3. todo[c][k] = Absent
        BY <1>4, <4>2 DEF Due
      <4> QED BY <1>1, <1>2, <2>4, <4>2, <4>3
    <3>3. CASE store[k].parent # i
      <4>1. k \in Orphans(store)
        BY <1>1, <1>6, <2>1, <2>2, <3>1, <3>3 DEF Orphans, Present
      <4>2. PICK d \in Calls : cpc[d] \in {"write", "torn"} /\ k \in DOMAIN todo[d]
                               /\ todo[d][k] = Absent
        BY <4>1 DEF IInv, OrphansGoing
      <4> QED BY <1>1, <2>4, <4>2
    <3> QED BY <3>2, <3>3
  <2> QED BY <2>3, <2>4
<1> QED BY <1>5, <1>7, <1>8, <1>12, <1>13 DEF IInv

LEMMA StepIInv == IInv /\ [OneWriterNext]_vars => IInv'
<1> SUFFICES ASSUME IInv, [OneWriterNext]_vars PROVE IInv'
  OBVIOUS
<1>1. Typed'
  BY StepTyped DEF IInv, OneWriterNext
<1>2. OneWriter'
  BY DEF IInv, OneWriterNext, OneWriter, Writers, Active, vars
<1>3. CASE Expire
  BY <1>1, <1>2, <1>3, QuietKeeps DEF Expire, Quiet
<1>4. ASSUME NEW c \in Calls, CallStep(c) PROVE IInv'
  <2>1. CASE CreateRoot(c) \/ CreateKid(c) \/ Update(c)
    BY <1>1, <1>2, <2>1, CreateRootKeeps, CreateKidKeeps, UpdateKeeps
  <2>2. CASE Remove(c) \/ SetStatus(c) \/ PublishItems(c)
    BY <1>1, <1>2, <2>2, RemoveKeeps, RestampKeeps
  <2>3. CASE \E i \in Items : Write(c, i)
    BY <1>1, <1>2, <2>3, WriteKeeps
  <2>4. CASE \/ \E q \in Asks : Begin(c, q)
             \/ ReadCached(c) \/ Load(c) \/ Refuse(c) \/ Answer(c)
             \/ CollectItems(c) \/ CheckDraft(c) \/ RefusePeek(c)
             \/ Invalidate(c) \/ Finish(c) \/ FailLoad(c) \/ FailWrite(c)
    BY <1>1, <1>2, <2>4, OtherQuiet, QuietKeeps DEF IInv
  <2> QED BY <1>4, <2>1, <2>2, <2>3, <2>4 DEF CallStep
<1>5. CASE UNCHANGED vars
  BY <1>1, <1>2, <1>5, QuietKeeps DEF vars, Quiet
<1> QED BY <1>3, <1>4, <1>5 DEF OneWriterNext, Next

THEOREM ContentIInv == OneWriterSpec => []IInv
  BY InitIInv, StepIInv, PTL DEF OneWriterSpec

(* With one writer at a time, a child whose parent is gone is one whose    *)
(* own removal is under way, or was cut short by a failed write (remove).  *)
THEOREM ContentOrphansGoing == OneWriterSpec => []OrphansGoing
<1>1. IInv => OrphansGoing
  BY DEF IInv
<1> QED BY <1>1, ContentIInv, PTL

(* With one writer at a time a status changes only to the one the call     *)
(* that writes was asked for: an update without a status keeps what the    *)
(* table has, not what it had (compose, setStatus).                        *)
THEOREM ContentStatusAsAsked == OneWriterSpec => StatusAsAsked
<1>1. ASSUME IInv, [OneWriterNext]_vars, NEW i \in Items, Kept(i),
             store'[i].status # store[i].status
      PROVE  \E c \in Calls :
                 /\ cpc[c] = "write" /\ i \in req[c].on
                 /\ store'[i].status = IF req[c].op = "publish" THEN "published"
                                       ELSE req[c].status
  <2>1. store' # store
    BY <1>1
  <2>2. PICK c \in Calls, j \in Items : Write(c, j)
    BY <1>1, <2>1 DEF OneWriterNext, Next, CallStep, vars, Expire, Begin, ReadCached, Load,
       Refuse, Answer, CreateRoot, CreateKid, Update, Remove, SetStatus, WillWrite,
       CollectItems, PublishItems, CheckDraft, RefusePeek, Invalidate, Finish, FailLoad, FailWrite
  <2>3. j = i /\ i \in DOMAIN todo[c] /\ store'[i] = todo[c][i]
    BY <1>1, <2>2, WriteTyped DEF IInv
  <2>4. cpc[c] = "write" /\ req[c].op \in Ops /\ req[c].op \notin {"read", "find"} /\ Due(c, todo[c], i)
    BY <1>1, <2>2, <2>3 DEF Write, IInv, Decided, Typed, TypeOK, Request
  <2>5. todo[c][i] # Absent
    BY <1>1, <2>3 DEF Kept, Present
  <2> QED BY <1>1, <2>3, <2>4, <2>5 DEF Due, Kept, Ops, Removal
<1>2. IInv /\ [OneWriterNext]_vars =>
          [\A i \in Items : Kept(i) /\ store'[i].status # store[i].status =>
              \E c \in Calls :
                  /\ cpc[c] = "write" /\ i \in req[c].on
                  /\ store'[i].status = IF req[c].op = "publish" THEN "published"
                                        ELSE req[c].status]_vars
  BY <1>1
<1> QED BY <1>2, ContentIInv, PTL DEF OneWriterSpec, StatusAsAsked
-------------------------------------------------------------------------------
(* The refinement.  Until a write fails only the writer has writes to make,*)
(* so that Settled is the table with them made.                            *)

LEMMA OneOverlay ==
    ASSUME NEW s, NEW t, NEW c \in Calls, \A d \in Calls : d # c => DOMAIN t[d] = {}
    PROVE  [i \in Items |-> IF \E d \in Calls : i \in DOMAIN t[d]
                            THEN t[CHOOSE d \in Calls : i \in DOMAIN t[d]][i]
                            ELSE s[i]]
           = [i \in Items |-> IF i \in DOMAIN t[c] THEN t[c][i] ELSE s[i]]
<1>1. \A i \in Items : (\E d \in Calls : i \in DOMAIN t[d]) <=> i \in DOMAIN t[c]
  OBVIOUS
<1>2. ASSUME NEW i \in Items, i \in DOMAIN t[c]
      PROVE  (CHOOSE d \in Calls : i \in DOMAIN t[d]) = c
  BY <1>2
<1> QED BY <1>1, <1>2

\* Before the writer decides, nothing is pending; then its writes are.
LEMMA DecidedSettled ==
    ASSUME IInv, NEW c \in Calls, cpc[c] = "loaded", req[c].op \notin {"read", "find"},
           NEW w, WillWrite(c, w), DOMAIN w \subseteq Items, Torn' = {}
    PROVE  /\ Settled = store /\ snap[c] = store
           /\ Settled' = [i \in Items |-> IF i \in DOMAIN w THEN w[i] ELSE store[i]]
<1>1. c \in Writers /\ \A d \in Calls : cpc[d] = "write" => d = c
  BY TheWriter
<1>2. \A d \in Calls : /\ todo'[d] = IF d = c THEN w ELSE todo[d]
                       /\ cpc'[d] = IF d = c THEN "write" ELSE cpc[d]
  BY DEF WillWrite, IInv, Typed, TypeOK, Pending
<1>3. \A d \in Calls : DOMAIN todo[d] = {}
  BY <1>1, <1>2 DEF Torn, IInv, Typed, Pending
<1>4. Settled = store
  <2>1. \A i \in Items : ~\E d \in Calls : i \in DOMAIN todo[d]
    BY <1>3
  <2>2. Settled = [i \in Items |-> store[i]]
    BY <2>1 DEF Settled
  <2> QED BY <2>2 DEF IInv, Typed, TypeOK, Snapshots
<1>5. Settled' = [i \in Items |-> IF i \in DOMAIN todo'[c] THEN todo'[c][i] ELSE store'[i]]
  BY <1>2, <1>3, OneOverlay DEF Settled
<1> QED BY <1>1, <1>2, <1>4, <1>5 DEF WillWrite, IInv, Sighted

LEMMA WriteSettled ==
    ASSUME IInv, NEW c \in Calls, NEW i \in Items, Write(c, i), Torn' = {}
    PROVE  UNCHANGED Settled
<1>1. /\ i \in DOMAIN todo[c] /\ DOMAIN todo'[c] = DOMAIN todo[c] \ {i}
      /\ \A j \in DOMAIN todo'[c] : todo'[c][j] = todo[c][j]
      /\ \A d \in Calls : d # c => todo'[d] = todo[d]
      /\ \A j \in Items : store'[j] = IF j = i THEN todo[c][i] ELSE store[j]
  BY WriteTyped DEF IInv
<1>2. cpc[c] = "write" /\ cpc' = cpc
  BY DEF Write
<1>3. \A d \in Calls : cpc[d] = "write" => d = c
  BY <1>2, TheWriter
<1>4. \A d \in Calls : d # c => DOMAIN todo[d] = {} /\ DOMAIN todo'[d] = {}
  BY <1>1, <1>2, <1>3 DEF Torn, IInv, Typed, Pending
<1>5. Settled = [j \in Items |-> IF j \in DOMAIN todo[c] THEN todo[c][j] ELSE store[j]]
  BY <1>4, OneOverlay DEF Settled
<1>6. Settled' = [j \in Items |-> IF j \in DOMAIN todo'[c] THEN todo'[c][j] ELSE store'[j]]
  BY <1>4, OneOverlay DEF Settled
<1> QED BY <1>1, <1>5, <1>6

\* compose of a new item is what Add makes of it.
LEMMA NewValueAdds ==
    ASSUME NEW c \in Calls, NEW p \in Roots \cup {Never}, NEW s \in Statuses \cup {Never},
           NEW inherited \in Statuses
    PROVE  \E t \in Statuses :
               NewValue(c, p, s, inherited) =
                   [parent |-> p, status |-> t, edit |-> c,
                    pub |-> IF t = "published" THEN c ELSE Never]
<1> PICK t : t = IF s = Never THEN inherited ELSE s
  OBVIOUS
<1>1. t \in Statuses
  OBVIOUS
<1>2. NewValue(c, p, s, inherited) =
          [parent |-> p, status |-> t, edit |-> c,
           pub |-> IF t = "published" THEN c ELSE Never]
  <2> PICK v : v = [parent |-> p, status |-> "draft", edit |-> c, pub |-> Never]
    OBVIOUS
  <2>1. NewValue(c, p, s, inherited) = Stamp(c, t, v)
    BY DEF NewValue
  <2>2. Stamp(c, t, v) = [parent |-> p, status |-> t, edit |-> c,
                          pub |-> IF t = "published" THEN c ELSE Never]
    <3> PICK q : q = IF t = "published" /\ v.status # "published" THEN c ELSE v.pub
      OBVIOUS
    <3>1. q = IF t = "published" THEN c ELSE Never
      OBVIOUS
    <3>2. Stamp(c, t, v) = [v EXCEPT !.status = t, !.pub = q]
      BY DEF Stamp
    <3> QED BY <3>1, <3>2
  <2> QED BY <2>1, <2>2
<1> QED BY <1>1, <1>2

LEMMA AddsToTree ==
    ASSUME NEW c \in Calls, NEW i \in Items, NEW p \in Roots \cup {Never}, NEW t \in Statuses,
           NEW v, v = [parent |-> p, status |-> t, edit |-> c,
                       pub |-> IF t = "published" THEN c ELSE Never],
           i \in Kids <=> p # Never, i \in Kids => Present(store, p), ~Present(store, i),
           store \in Snapshots, Settled = store,
           Settled' = [j \in Items |-> IF j \in {i} THEN v ELSE store[j]]
    PROVE  Tree!TreeNext
<1>1. Settled' = [Settled EXCEPT ![i] = v]
  BY DEF Snapshots
<1>2. Tree!Add(c, i)
  BY <1>1 DEF Tree!Add, Tree!Here, Present, Tree!Statuses, Statuses
<1> QED BY <1>2 DEF Tree!TreeNext, Tree!Items, Items, Editors

LEMMA CreateRootTree ==
    ASSUME IInv, NEW c \in Calls, CreateRoot(c), Torn' = {}
    PROVE  Tree!TreeNext
<1> USE DEF CreateRoot
<1>1. PICK r \in FreshRoots(c) :
          WillWrite(c, [i \in {r} |-> NewValue(c, Never, req[c].status, "draft")])
  OBVIOUS
<1>2. r \in Items /\ r \in Roots /\ r \notin Kids /\ ~Present(snap[c], r)
  BY ItemsAssumption DEF FreshRoots, Items
<1>3. PICK t \in Statuses : NewValue(c, Never, req[c].status, "draft") =
          [parent |-> Never, status |-> t, edit |-> c,
           pub |-> IF t = "published" THEN c ELSE Never]
  BY NewValueAdds DEF IInv, Typed, TypeOK, Request, Statuses
<1> PICK v : v = NewValue(c, Never, req[c].status, "draft")
  OBVIOUS
<1>4. /\ Settled = store /\ snap[c] = store
      /\ Settled' = [i \in Items |-> IF i \in {r} THEN v ELSE store[i]]
  BY <1>1, <1>2, DecidedSettled
<1>5. ~Present(store, r) /\ store \in Snapshots /\ Never \in Roots \cup {Never}
  BY <1>2, <1>4 DEF IInv, Typed, TypeOK
<1> HIDE DEF CreateRoot
<1> QED BY <1>2, <1>3, <1>4, <1>5, AddsToTree

LEMMA CreateKidTree ==
    ASSUME IInv, NEW c \in Calls, CreateKid(c), Torn' = {}
    PROVE  Tree!TreeNext
<1> USE DEF CreateKid
<1>1. PICK p \in req[c].on, k \in FreshKids :
          WillWrite(c, [i \in {k} |-> NewValue(c, p, req[c].status, snap[c][p].status)])
  OBVIOUS
<1>2. p \in Roots /\ Present(snap[c], p) /\ snap[c][p] \in Value /\ p # Never
  BY CreateKidWrites, ItemsAssumption DEF IInv
<1>3. k \in Items /\ k \in Kids /\ ~Present(store, k)
  BY DEF FreshKids, Items, IInv, HandedOut
<1>4. snap[c][p].status \in Statuses /\ req[c].status \in Statuses \cup {Never}
  BY <1>2 DEF Value, IInv, Typed, TypeOK, Request
<1>5. PICK t \in Statuses : NewValue(c, p, req[c].status, snap[c][p].status) =
          [parent |-> p, status |-> t, edit |-> c,
           pub |-> IF t = "published" THEN c ELSE Never]
  BY <1>2, <1>4, NewValueAdds
<1> PICK v : v = NewValue(c, p, req[c].status, snap[c][p].status)
  OBVIOUS
<1>6. /\ Settled = store /\ snap[c] = store
      /\ Settled' = [i \in Items |-> IF i \in {k} THEN v ELSE store[i]]
  BY <1>1, <1>3, DecidedSettled
<1> QED BY <1>2, <1>3, <1>5, <1>6, AddsToTree DEF IInv, Typed, TypeOK

LEMMA UpdateTree ==
    ASSUME IInv, NEW c \in Calls, Update(c), Torn' = {}
    PROVE  Tree!TreeNext
<1> USE DEF Update
<1>1. PICK i \in Items : req[c].on = {i}
  BY DEF IInv, Typed, Shaped
<1>2. Present(snap[c], i) /\ snap[c][i] \in Value /\ req[c].status \in Statuses \cup {Never}
  BY <1>1, UpdateWrites DEF IInv
<1> PICK w : w = [j \in req[c].on |-> Composed(c, snap[c][j], req[c].status)]
  OBVIOUS
<1>3. /\ Settled = store /\ snap[c] = store
      /\ Settled' = [j \in Items |-> IF j \in DOMAIN w THEN w[j] ELSE store[j]]
  BY <1>1, DecidedSettled
<1>4. Settled' = [Settled EXCEPT ![i] = Composed(c, store[i], req[c].status)]
  BY <1>1, <1>3 DEF IInv, Typed, TypeOK, Snapshots
<1> PICK t : t = IF req[c].status = Never THEN store[i].status ELSE req[c].status
  OBVIOUS
<1>5. t \in Statuses
  BY <1>2, <1>3 DEF Value
<1>6. Composed(c, store[i], req[c].status) = [Tree!Marked(store[i], c, t) EXCEPT !.edit = c]
  BY DEF Composed, Stamp, Tree!Marked
<1>7. Tree!Edit(c, i)
  BY <1>2, <1>3, <1>4, <1>5, <1>6 DEF Tree!Edit, Tree!Here, Present, Tree!Statuses, Statuses
<1> QED BY <1>7 DEF Tree!TreeNext, Tree!Items, Items, Editors

LEMMA RemoveTree ==
    ASSUME IInv, NEW c \in Calls, Remove(c), Torn' = {}
    PROVE  Tree!TreeNext
<1> USE DEF Remove
<1> PICK w : w = [j \in UNION {Cascade(snap[c], i) : i \in req[c].on} |-> Absent]
  OBVIOUS
<1>1. PICK i \in Items : req[c].on = {i} /\ DOMAIN w = Cascade(snap[c], i) /\ DOMAIN w \subseteq Items
  BY RemoveWrites DEF IInv, Removal
<1>2. Present(snap[c], i)
  BY <1>1 DEF Finds
<1>3. /\ Settled = store /\ snap[c] = store
      /\ Settled' = [j \in Items |-> IF j \in DOMAIN w THEN w[j] ELSE store[j]]
  BY <1>1, DecidedSettled
<1>4. Tree!Under(i) = KidsOf(store, i)
  BY <1>3 DEF Tree!Under, Tree!Here, KidsOf, Present
<1>5. Settled' = [j \in Items |-> IF j = i \/ j \in Tree!Under(i) THEN Absent ELSE Settled[j]]
  BY <1>1, <1>3, <1>4 DEF Cascade
<1>6. Tree!Drop(i)
  BY <1>2, <1>3, <1>5 DEF Tree!Drop, Tree!Here, Present, Tree!Items, Items
<1> QED BY <1>6 DEF Tree!TreeNext, Tree!Items, Items

LEMMA RestampTree ==
    ASSUME IInv, NEW c \in Calls, SetStatus(c) \/ PublishItems(c), Torn' = {}
    PROVE  Tree!TreeNext
<1> PICK s : s = IF req[c].op = "publish" THEN "published" ELSE req[c].status
  OBVIOUS
<1> PICK w : w = Restamped(c, req[c].on, s)
  OBVIOUS
<1>1. s \in Statuses /\ req[c].on \subseteq Items
  BY DEF SetStatus, PublishItems, IInv, Typed, TypeOK, Shaped, Request, Statuses
<1>2. /\ cpc[c] = "loaded" /\ req[c].op \in {"setStatus", "publish"} /\ Finds(c) /\ WillWrite(c, w)
  BY DEF SetStatus, PublishItems
<1>3. /\ DOMAIN w = {i \in req[c].on : snap[c][i].status # s} /\ DOMAIN w \subseteq Items
      /\ \A i \in DOMAIN w : w[i] = Stamp(c, s, snap[c][i])
  BY <1>1, <1>2, RestampWrites DEF IInv
<1>4. /\ Settled = store /\ snap[c] = store
      /\ Settled' = [j \in Items |-> IF j \in DOMAIN w THEN w[j] ELSE store[j]]
  BY <1>2, <1>3, DecidedSettled
<1>5. \A i \in req[c].on : Present(store, i) /\ store[i] \in Value
  BY <1>1, <1>2, <1>4, PresentValue DEF Finds, IInv, Typed, TypeOK
<1>6. \A v \in Value : v.status = s => Tree!Marked(v, c, s) = v
  BY DEF Tree!Marked, Value
<1>7. \A v : Stamp(c, s, v) = Tree!Marked(v, c, s)
  BY DEF Stamp, Tree!Marked
<1>8. Settled' = [i \in Items |-> IF i \in req[c].on THEN Tree!Marked(Settled[i], c, s) ELSE Settled[i]]
  <2>1. \A i \in Items : (IF i \in DOMAIN w THEN w[i] ELSE store[i])
                         = IF i \in req[c].on THEN Tree!Marked(store[i], c, s) ELSE store[i]
    BY <1>3, <1>4, <1>5, <1>6, <1>7
  <2> QED BY <1>4, <2>1
<1>9. Tree!Mark(c, req[c].on, s)
  BY <1>4, <1>5, <1>8 DEF Tree!Mark, Tree!Here, Present, Tree!Items, Items
<1> QED BY <1>1, <1>9 DEF Tree!TreeNext, Tree!Items, Items, Tree!Statuses, Statuses, Editors

LEMMA StepTree ==
    ASSUME IInv, [OneWriterNext]_vars, Torn' = {}
    PROVE  Tree!TreeNext \/ UNCHANGED Settled
<1>1. CASE UNCHANGED <<store, todo>>
  BY <1>1 DEF Settled
<1>2. ASSUME NEW c \in Calls, CallStep(c) PROVE Tree!TreeNext \/ UNCHANGED Settled
  <2>1. CASE CreateRoot(c) \/ CreateKid(c) \/ Update(c)
    BY <2>1, CreateRootTree, CreateKidTree, UpdateTree
  <2>2. CASE Remove(c) \/ SetStatus(c) \/ PublishItems(c)
    BY <2>2, RemoveTree, RestampTree
  <2>3. CASE \E i \in Items : Write(c, i)
    BY <2>3, WriteSettled
  <2>4. CASE \/ \E q \in Asks : Begin(c, q)
             \/ ReadCached(c) \/ Load(c) \/ Refuse(c) \/ Answer(c)
             \/ CollectItems(c) \/ CheckDraft(c) \/ RefusePeek(c)
             \/ Invalidate(c) \/ Finish(c) \/ FailLoad(c) \/ FailWrite(c)
    BY <1>1, <2>4, OtherQuiet DEF IInv, Quiet
  <2> QED BY <1>2, <2>1, <2>2, <2>3, <2>4 DEF CallStep
<1> QED BY <1>1, <1>2 DEF OneWriterNext, Next, Expire, vars

LEMMA InitTree == Init => Tree!TreeInit
<1> SUFFICES ASSUME Init PROVE Tree!TreeInit
  OBVIOUS
<1>1. Settled = store
  <2>1. store \in Snapshots
    BY InitTyped DEF Typed, TypeOK
  <2>2. Settled = [i \in Items |-> store[i]]
    BY DEF Settled, Init, NoWrites
  <2> QED BY <2>1, <2>2 DEF Snapshots
<1>2. \A i \in Items : Present(store, i) => store[i].status \in Statuses
  BY InitTyped, PresentValue DEF Typed, TypeOK, Value
<1>3. \A k \in Kids : Present(store, k) => Present(store, store[k].parent)
  BY ItemsAssumption DEF Init, Items, Present
<1> QED BY <1>1, <1>2, <1>3 DEF Tree!TreeInit, Tree!Here, Present, Tree!Items, Items,
           Tree!Statuses, Statuses

(* With one writer at a time and until a write fails, ContentService       *)
(* implements ContentTree: a handler's decision takes effect as a whole,   *)
(* on the table as it is, although its index was loaded earlier and its    *)
(* writes are made one after another.                                      *)
THEOREM ContentImplementsTree == OneWriterSpec => ImplementsTree
<1>1. IInv /\ [OneWriterNext]_vars => [Torn' = {} => Tree!TreeNext]_Settled
  BY StepTree
<1> QED BY <1>1, InitTree, ContentIInv, PTL DEF OneWriterSpec, ImplementsTree
-------------------------------------------------------------------------------
(* The cached index, with the history of MCContentService. *)

LEMMA StepCurrent ==
    ASSUME IInv, Current, CacheCurrentUnlessTorn, [MCNext]_<<vars, late>>
    PROVE  Current' /\ CacheCurrentUnlessTorn'
<1>1. CASE UNCHANGED <<vars, late>>
  BY <1>1 DEF vars, Current, CacheCurrentUnlessTorn, Holding
<1>2. CASE MCNext
  <2> SUFFICES ASSUME ~late'
               PROVE  /\ \A c \in Holding' : snap'[c] = store'
                      /\ (\A c \in Calls : cpc'[c] \notin {"write", "torn"}) =>
                             cache' \in {Absent, store'}
    BY DEF Current, CacheCurrentUnlessTorn
  <2>1. /\ ~late /\ (store' = store \/ Holding = {}) /\ Next
        /\ \A c \in Holding : snap[c] = store
    BY <1>2 DEF MCNext, OneWriterNext, Current
  <2>2. CASE Expire
    BY <2>1, <2>2 DEF Expire, Holding
  <2>3. ASSUME NEW c \in Calls, \E i \in Items : Write(c, i)
        PROVE  /\ \A d \in Holding' : snap'[d] = store'
               /\ cpc'[c] = "write"
    BY <2>1, <2>3 DEF Write, Holding
  <2>4. ASSUME NEW c \in Calls,
               CreateRoot(c) \/ CreateKid(c) \/ Update(c) \/ Remove(c) \/ SetStatus(c) \/ PublishItems(c)
        PROVE  /\ \A d \in Holding' : snap'[d] = store'
               /\ cpc'[c] = "write"
    BY <2>1, <2>4 DEF CreateRoot, CreateKid, Update, Remove, SetStatus, PublishItems, WillWrite,
       Indexed, Holding, IInv, Typed, TypeOK
  <2>5. ASSUME NEW c \in Calls,
               Load(c) \/ (\E q \in Asks : Begin(c, q)) \/ ReadCached(c) \/ FailLoad(c)
        PROVE  /\ \A d \in Holding' : snap'[d] = store'
               /\ (\A d \in Calls : cpc'[d] \notin {"write", "torn"}) => cache' \in {Absent, store'}
    BY <2>1, <2>5 DEF Load, Begin, ReadCached, FailLoad, End, FirstLoad, Holding,
       CacheCurrentUnlessTorn, IInv, Typed, TypeOK, LoadPc
  <2>6. ASSUME NEW c \in Calls, Refuse(c) \/ Answer(c) \/ CollectItems(c) \/ CheckDraft(c)
                                \/ RefusePeek(c) \/ Finish(c)
        PROVE  /\ \A d \in Holding' : snap'[d] = store'
               /\ cache' \in {Absent, store'}
    BY <2>1, <2>6 DEF Refuse, Answer, CollectItems, CheckDraft, RefusePeek, Finish, End,
       Indexed, Holding, IInv, Typed, TypeOK
  <2>7. ASSUME NEW c \in Calls, Invalidate(c) \/ FailWrite(c)
        PROVE  /\ \A d \in Holding' : snap'[d] = store'
               /\ (\A d \in Calls : cpc'[d] \notin {"write", "torn"}) => cache' \in {Absent, store'}
    BY <2>1, <2>7 DEF Invalidate, FailWrite, End, Holding, IInv, Typed, TypeOK
  <2> QED BY <2>1, <2>2, <2>3, <2>4, <2>5, <2>6, <2>7 DEF Next, CallStep
<1> QED BY <1>1, <1>2

(* While no call is half way through its writes and none has failed, the   *)
(* cached index is what the table holds, unless a load was answered before *)
(* a write and cached after it (index, invalidate).                        *)
THEOREM ContentCacheCurrent == MCSpec => []CacheCurrentUnlessTorn
<1>1. MCInit => IInv /\ Current /\ CacheCurrentUnlessTorn
  BY InitIInv DEF MCInit, Init, Current, Holding, CacheCurrentUnlessTorn
<1>2. IInv /\ [MCNext]_<<vars, late>> => IInv'
  BY StepIInv DEF MCNext, vars
<1>3. IInv /\ Current /\ CacheCurrentUnlessTorn /\ [MCNext]_<<vars, late>> =>
          Current' /\ CacheCurrentUnlessTorn'
  BY StepCurrent
<1> QED BY <1>1, <1>2, <1>3, PTL DEF MCSpec
================================================================================
