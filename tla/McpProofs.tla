------------------------------- MODULE McpProofs -------------------------------
(***************************************************************************)
(* McpContent for every number of connectors, editors, rows and fields,    *)
(* and every size of a body.                                               *)
(***************************************************************************)
EXTENDS MCMcpContent, TLAPS

Looking == {"found", "peeked", "loaded"}
Before  == {"begun", "load", "found", "peeked", "loaded"}
Busy    == {"begun", "load", "found", "peeked", "loaded", "write", "show"}

\* The types, with those of the history variables.
Typed ==
    /\ TypeOK
    /\ todo = [p \in Callers |-> todo[p]]
    /\ moved \in [Callers -> SUBSET Ids] /\ wrote \in [Callers -> SUBSET Ids]

\* A call stays what its tool or route admits, and its steps are those of it.
Asked(p) ==
    /\ cpc[p] \in Busy => call[p] \in Allowed(p)
    /\ cpc[p] \in {"begun", "found", "peeked"} => call[p].op \in {"update", "delete_draft", "publish"}
    /\ cpc[p] = "found" => call[p].op = "update"
    /\ cpc[p] = "peeked" => call[p].op # "update"
    /\ cpc[p] = "show" => call[p].op = "publish"

\* What a caller sees of a row is the table, unless another has written it since.
Sees(p) == cpc[p] \in Looking => \A i \in Ids : i \notin moved[p] => index[p][i] = store[i]

\* The second load of a tool comes after a first that found its row.
Looked(p) ==
    p \in Posts /\ cpc[p] = "load" /\ call[p].op \in {"update", "delete_draft", "publish"} => Found(p)

\* The input of an update is what was given, then merged into what the row holds.
Inputs(p) ==
    p \in Posts /\ call[p].op = "update" =>
        /\ cpc[p] \in {"begun", "found"} =>
              input[p] = [f \in Fields |-> IF f \in call[p].gives THEN p ELSE None]
        /\ cpc[p] \in {"load", "loaded"} => \A i \in call[p].on : i \notin moved[p] =>
              /\ store[i] # None
              /\ input[p] = [f \in Fields |-> IF f \in call[p].gives THEN p ELSE store[i].val[f]]

\* The row delete_draft removes is a draft.
Drafts(p) ==
    p \in Posts /\ call[p].op = "delete_draft" /\ cpc[p] \in {"load", "loaded"} =>
        \A i \in call[p].on : i \notin moved[p] => store[i] # None /\ store[i].status = "draft"

\* What a tool call may make of a row that was there, or was not.
AsAsked(c, was, is) ==
    /\ was = None => c.op = "create" /\ is # None /\ is.status = "draft"
    /\ was # None /\ is = None => c.op = "delete" \/ (c.op = "delete_draft" /\ was.status = "draft")
    /\ was # None /\ is # None =>
          /\ \A f \in Fields : is.val[f] # was.val[f] => c.op = "update" /\ f \in c.gives
          /\ is.status # was.status => c.op \in {"publish", "set_status"}

\* The writes a call has decided on are as asked.
Due(p) ==
    /\ DOMAIN todo[p] # {} => cpc[p] = "write"
    /\ p \in Posts => \A i \in DOMAIN todo[p] :
        /\ i \notin moved[p] => AsAsked(call[p], store[i], todo[p][i])
        /\ call[p].op = "publish" => i \in call[p].on /\ todo[p][i] # None

\* A call has written nothing before it writes; what a publish has is its row.
Wrote(p) ==
    p \in Posts =>
        /\ cpc[p] \in Before => wrote[p] = {}
        /\ cpc[p] \in {"write", "show"} /\ call[p].op = "publish" =>
               \A i \in wrote[p] : i \in call[p].on /\ store[i] # None
        /\ cpc[p] \in {"idle", "next"} /\ reply[p] = "refused" => wrote[p] = {}

Fit(p) == Asked(p) /\ Sees(p) /\ Looked(p) /\ Inputs(p) /\ Drafts(p) /\ Due(p) /\ Wrote(p)

\* A row that is there, seen or about to be was handed out.
HandedOut ==
    \A i \in Ids :
        \/ store[i] # None
        \/ \E p \in Callers : index[p][i] # None \/ i \in DOMAIN todo[p]
        => i \in minted

\* A row being created is known to its creator alone.
Own ==
    \A p \in Callers : cpc[p] = "write" /\ call[p].op = "create" =>
        \A i \in DOMAIN todo[p] :
            /\ store[i] = None
            /\ \A q \in Callers : index[q][i] = None /\ (q # p => i \notin DOMAIN todo[q])

\* The inductive invariant.
IInv == Typed /\ (\A p \in Callers : Fit(p)) /\ HandedOut /\ Own
-------------------------------------------------------------------------------
LEMMA InitIInv == MCInit => IInv
<1> SUFFICES ASSUME MCInit PROVE IInv
  OBVIOUS
<1> USE NoneAssumption, McpAssumption
<1> USE DEF MCInit, Init
<1>1. NoCall \in Call /\ NoInput \in [Fields -> Callers \cup {Seeded, None}] /\ NoIndex \in Table
      /\ DOMAIN NoWrites = {}
  BY DEF NoCall, NoInput, NoIndex, NoWrites, Call, Ops, Table
<1>2. store \in Table
  BY DEF Table, Item
<1>3. Typed
  BY <1>1, <1>2 DEF Typed, TypeOK
<1>4. ASSUME NEW p \in Callers PROVE Fit(p)
  BY <1>1, <1>2 DEF Fit, Asked, Sees, Looked, Inputs, Drafts, Due, Wrote, Busy, Looking, Before
<1>5. HandedOut /\ Own
  BY <1>1, <1>2 DEF HandedOut, Own, NoIndex
<1> QED BY <1>3, <1>4, <1>5 DEF IInv

LEMMA RealCall ==
    ASSUME NEW p \in Callers, NEW c \in Allowed(p)
    PROVE  c \in Call /\ c # NoCall
  BY DEF Allowed, ToolCalls, RestCalls, Shaped, NoCall

LEMMA NoneTyped ==
    /\ NoCall \in Call /\ NoInput \in [Fields -> Callers \cup {Seeded, None}] /\ NoIndex \in Table
    /\ DOMAIN NoWrites = {}
  BY DEF NoCall, NoInput, NoIndex, NoWrites, Call, Ops, Table

\* A caller that does not step keeps all that is its own.
LEMMA Frame ==
    ASSUME IInv, NEW p \in Callers, MCStep(p), NEW q \in Callers, q # p
    PROVE  /\ cpc'[q] = cpc[q] /\ call'[q] = call[q] /\ index'[q] = index[q] /\ input'[q] = input[q]
           /\ todo'[q] = todo[q] /\ (q \in Posts => reply'[q] = reply[q])
<1> USE DEF IInv, Typed, TypeOK
<1>1. CASE Post(p) \/ Challenge(p) \/ Notification(p) \/ Plain(p) \/ Respond(p)
  BY <1>1 DEF Post, Challenge, Notification, Plain, Respond, TakesMessage
<1>2. CASE \E c \in Allowed(p) : Begin(p, c)
  BY <1>2 DEF Begin
<1>3. CASE Load(p) \/ Merge(p) \/ Peek(p)
  BY <1>3 DEF Load, Merge, Peek
<1>4. CASE Refuse(p) \/ Written(p) \/ Show(p) \/ Fail(p)
  BY <1>4 DEF Refuse, Written, Show, Fail, Ends
<1>5. CASE Create(p) \/ Update(p) \/ Remove(p) \/ SetStatus(p)
  BY <1>5 DEF Create, Update, Remove, SetStatus, WillWrite
<1>6. CASE \E i \in Ids : Write(p, i)
  BY <1>6 DEF Write
<1> QED BY <1>1, <1>2, <1>3, <1>4, <1>5, <1>6 DEF MCStep, Step, CallStep

\* The writes a caller has to make have their type.
RowsTyped(rows) == DOMAIN rows \subseteq Ids /\ \A i \in DOMAIN rows : rows[i] \in Item \cup {None}

\* What a caller has decided to write.
LEMMA NewRows ==
    ASSUME IInv, NEW p \in Callers, NEW rows, RowsTyped(rows), todo' = [todo EXCEPT ![p] = rows]
    PROVE  /\ todo' = [q \in Callers |-> todo'[q]] /\ todo'[p] = rows
           /\ \A q \in Callers : RowsTyped(todo'[q])
  BY DEF IInv, Typed, TypeOK, RowsTyped

LEMMA RowsStep ==
    ASSUME IInv, NEW p \in Callers, MCStep(p)
    PROVE  todo' = [q \in Callers |-> todo'[q]] /\ \A q \in Callers : RowsTyped(todo'[q])
<1>1. TypeOK /\ todo = [q \in Callers |-> todo[q]]
  BY DEF IInv, Typed
<1>2. CASE UNCHANGED todo
  BY <1>1, <1>2 DEF TypeOK, RowsTyped
<1>3. CASE todo' = [todo EXCEPT ![p] = NoWrites]
  BY <1>3, NewRows, NoneTyped DEF RowsTyped
<1>4. CASE Create(p)
  <2> PICK i, rows :
         /\ i \in Ids
         /\ todo' = [todo EXCEPT ![p] = rows]
         /\ rows = [j \in {i} |-> [status |-> NewStatus(p), val |-> Given(p)]]
    BY <1>4 DEF Create, WillWrite
  <2>1. [status |-> NewStatus(p), val |-> Given(p)] \in Item
    BY <1>1, <1>4 DEF TypeOK, NewStatus, Given, Item, Statuses, Call
  <2>2. RowsTyped(rows)
    BY <2>1 DEF RowsTyped
  <2> QED BY <2>2, NewRows
<1>5. CASE Update(p)
  <2> PICK rows : /\ todo' = [todo EXCEPT ![p] = rows]
                  /\ rows = [i \in call[p].on |->
                       [status |-> IF call[p].status = None THEN index[p][i].status ELSE call[p].status,
                        val |-> Given(p)]]
    BY <1>5 DEF Update, WillWrite
  <2>1. Given(p) \in [Fields -> Callers \cup {Seeded}]
    BY <1>1 DEF TypeOK, Given
  <2>2. call[p] \in Call /\ \A i \in call[p].on : i \in Ids /\ index[p][i] \in Item
    BY <1>1, <1>5 DEF TypeOK, Update, Found, Call, Table
  <2>3. \A i \in call[p].on : rows[i] \in Item
    BY <2>1, <2>2 DEF Call, Item
  <2>4. RowsTyped(rows)
    BY <2>2, <2>3 DEF RowsTyped
  <2> QED BY <2>4, NewRows
<1>6. CASE Remove(p)
  <2> PICK rows : todo' = [todo EXCEPT ![p] = rows] /\ rows = [i \in call[p].on |-> None]
    BY <1>6 DEF Remove, WillWrite
  <2>1. RowsTyped(rows)
    BY <1>1 DEF TypeOK, RowsTyped, Call
  <2> QED BY <2>1, NewRows
<1>7. CASE SetStatus(p)
  <2> PICK status : status = IF call[p].op = "publish" THEN "published" ELSE call[p].status
    OBVIOUS
  <2> PICK rows : rows = [i \in {j \in call[p].on : index[p][j].status # status} |->
                             [index[p][i] EXCEPT !.status = status]]
    OBVIOUS
  <2>0. todo' = [todo EXCEPT ![p] = rows]
    BY <1>7 DEF SetStatus, WillWrite
  <2>1. call[p] \in Call /\ \A i \in call[p].on : i \in Ids /\ index[p][i] \in Item
    BY <1>1, <1>7 DEF TypeOK, SetStatus, Found, Call, Table
  <2>2. status \in Statuses
    <3>1. call[p] \in Allowed(p)
      BY <1>7 DEF IInv, Fit, Asked, Busy, SetStatus
    <3> QED BY <1>7, <2>1, <3>1 DEF SetStatus, Call, Allowed, ToolCalls, RestCalls, Shaped, Statuses
  <2>3. \A i \in DOMAIN rows : rows[i] \in Item
    BY <2>1, <2>2 DEF Item
  <2>4. RowsTyped(rows)
    BY <2>1, <2>3 DEF RowsTyped
  <2> QED BY <2>0, <2>4, NewRows
<1>8. ASSUME NEW i \in Ids, Write(p, i)
      PROVE todo' = [q \in Callers |-> todo'[q]] /\ \A q \in Callers : RowsTyped(todo'[q])
  <2> PICK rows : todo' = [todo EXCEPT ![p] = rows] /\ rows = Restrict(todo[p], DOMAIN todo[p] \ {i})
    BY <1>8 DEF Write
  <2>1. RowsTyped(rows)
    BY <1>1 DEF TypeOK, RowsTyped, Restrict
  <2> QED BY <2>1, NewRows
<1>9. CASE Refuse(p) \/ Written(p) \/ Show(p) \/ Fail(p)
  BY <1>2, <1>3, <1>9 DEF Refuse, Written, Show, Fail, Ends
<1>10. CASE \/ Post(p) \/ Challenge(p) \/ Notification(p) \/ Plain(p) \/ Respond(p)
            \/ \E c \in Allowed(p) : Begin(p, c)
            \/ Load(p) \/ Merge(p) \/ Peek(p)
  BY <1>2, <1>10 DEF Post, Challenge, Notification, Plain, Respond, Begin, Load, Merge, Peek
<1> QED BY <1>4, <1>5, <1>6, <1>7, <1>8, <1>9, <1>10 DEF MCStep, Step, CallStep

\* The types of all but todo.
VarsTyped ==
    /\ store \in Table /\ minted \subseteq Ids
    /\ cpc \in [Callers -> {"idle", "next", "begun", "found", "peeked", "load", "loaded", "write",
                            "show", "200", "202", "401", "done"}]
    /\ left \in [Posts -> 0 .. MaxBatch]
    /\ call \in [Callers -> Call]
    /\ index \in [Callers -> Table]
    /\ input \in [Callers -> [Fields -> Callers \cup {Seeded, None}]]
    /\ reply \in [Posts -> Replies \cup {None}]

LEMMA EndsTyped ==
    ASSUME TypeOK, NEW p \in Callers, NEW answer \in Replies, Ends(p, answer), UNCHANGED <<store, minted>>
    PROVE  VarsTyped'
<1>1. cpc' = [cpc EXCEPT ![p] = "next"] \/ cpc' = [cpc EXCEPT ![p] = "done"]
  BY DEF Ends
<1>2. reply' = [reply EXCEPT ![p] = answer] \/ reply' = reply
  BY DEF Ends
<1>3. call' = [call EXCEPT ![p] = NoCall] /\ input' = [input EXCEPT ![p] = NoInput]
      /\ index' = [index EXCEPT ![p] = NoIndex] /\ left' = left
  BY DEF Ends
<1> QED BY <1>1, <1>2, <1>3, NoneTyped DEF TypeOK, VarsTyped

LEMMA StepTyped ==
    ASSUME IInv, NEW p \in Callers, MCStep(p)
    PROVE  Typed'
<1>1. moved' \in [Callers -> SUBSET Ids] /\ wrote' \in [Callers -> SUBSET Ids]
  <2>1. Changed \subseteq Ids
    BY DEF Changed
  <2> QED BY <2>1 DEF MCStep, IInv, Typed
<1>2. TypeOK
  BY DEF IInv, Typed
<1> SUFFICES VarsTyped'
  BY <1>1, RowsStep DEF Typed, TypeOK, VarsTyped, RowsTyped
<1>3. CASE Post(p) \/ Challenge(p) \/ Respond(p)
  BY <1>2, <1>3 DEF TypeOK, VarsTyped, Post, Challenge, Respond
<1>4. CASE Notification(p) \/ Plain(p)
  <2>1. left' \in [Posts -> 0 .. MaxBatch]
    BY <1>2, <1>4, McpAssumption DEF TypeOK, Notification, Plain, TakesMessage
  <2>2. reply' \in [Posts -> Replies \cup {None}]
    BY <1>2, <1>4 DEF TypeOK, Notification, Plain, TakesMessage, Replies
  <2>3. UNCHANGED <<store, minted, cpc, call, index, input>>
    BY <1>4 DEF Notification, Plain
  <2> QED BY <1>2, <2>1, <2>2, <2>3 DEF TypeOK, VarsTyped
<1>5. ASSUME NEW c \in Allowed(p), Begin(p, c) PROVE VarsTyped'
  <2>1. c \in Call
    BY RealCall
  <2>2. left' \in [Posts -> 0 .. MaxBatch]
    BY <1>2, <1>5, McpAssumption DEF TypeOK, Begin, TakesMessage
  <2>3. input' \in [Callers -> [Fields -> Callers \cup {Seeded, None}]]
    BY <1>2, <1>5 DEF TypeOK, Begin
  <2> QED BY <1>2, <1>5, <2>1, <2>2, <2>3 DEF TypeOK, VarsTyped, Begin
<1>6. CASE Load(p) \/ Peek(p)
  BY <1>2, <1>6 DEF TypeOK, VarsTyped, Load, Peek
<1>7. CASE Merge(p)
  <2> PICK i \in call[p].on : input' = [input EXCEPT ![p] =
               [f \in Fields |-> IF @[f] # None THEN @[f] ELSE currentInput(index[p][i])[f]]]
    BY <1>7 DEF Merge
  <2>1. i \in Ids /\ index[p][i] \in Item
    BY <1>2, <1>7 DEF TypeOK, Merge, Found, Call, Table
  <2>2. input' \in [Callers -> [Fields -> Callers \cup {Seeded, None}]]
    BY <1>2, <2>1 DEF TypeOK, currentInput, Item
  <2> QED BY <1>2, <1>7, <2>2 DEF TypeOK, VarsTyped, Merge
<1>8. CASE Refuse(p) \/ Fail(p)
  BY <1>2, <1>8, EndsTyped DEF Refuse, Fail, Replies
<1>9. CASE Show(p)
  BY <1>2, <1>9, EndsTyped DEF Show, Replies
<1>10. CASE Written(p)
  <2>1. CASE Ends(p, "result")
    BY <1>2, <1>10, <2>1, EndsTyped DEF Written, Replies
  <2>2. CASE cpc' = [cpc EXCEPT ![p] = "show"] /\ UNCHANGED <<left, call, index, input, todo, reply>>
    BY <1>2, <1>10, <2>2 DEF Written, TypeOK, VarsTyped
  <2> QED BY <1>10, <2>1, <2>2 DEF Written
<1>11. CASE Create(p) \/ Update(p) \/ Remove(p) \/ SetStatus(p)
  <2>1. minted' \subseteq Ids
    BY <1>2, <1>11 DEF TypeOK, Create, Update, Remove, SetStatus
  <2>2. /\ cpc' = [cpc EXCEPT ![p] = "write"] /\ index' = [index EXCEPT ![p] = NoIndex]
        /\ input' = [input EXCEPT ![p] = NoInput] /\ UNCHANGED <<store, left, call, reply>>
    BY <1>11 DEF Create, Update, Remove, SetStatus, WillWrite
  <2> QED BY <1>2, <2>1, <2>2, NoneTyped DEF TypeOK, VarsTyped
<1>12. ASSUME NEW i \in Ids, Write(p, i) PROVE VarsTyped'
  <2>1. store' \in Table
    BY <1>2, <1>12 DEF TypeOK, Write, Table
  <2> QED BY <1>2, <1>12, <2>1 DEF TypeOK, VarsTyped, Write
<1> QED BY <1>3, <1>4, <1>5, <1>6, <1>7, <1>8, <1>9, <1>10, <1>11, <1>12 DEF MCStep, Step, CallStep

\* What another caller's step may do to the rows a caller has looked at: they have
\* been moved, or are the same.
LEMMA Elsewhere ==
    ASSUME IInv, NEW p \in Callers, MCStep(p), NEW q \in Callers, q # p
    PROVE  /\ cpc[q] \in Busy => /\ moved[q] \subseteq moved'[q]
                                 /\ \A i \in Ids : i \notin moved'[q] => store'[i] = store[i]
           /\ wrote'[q] = wrote[q] \ {i \in Changed : store'[i] = None}
<1>1. /\ moved'[q] = IF call'[q] = NoCall \/ (index[q] = NoIndex /\ index'[q] # NoIndex) THEN {}
                      ELSE moved[q] \cup Changed
      /\ wrote'[q] = wrote[q] \ {i \in Changed : store'[i] = None}
  BY DEF MCStep
<1>2. index'[q] = index[q] /\ call'[q] = call[q]
  BY Frame
<1>3. cpc[q] \in Busy => call[q] # NoCall
  BY RealCall DEF IInv, Fit, Asked
<1> QED BY <1>1, <1>2, <1>3 DEF Changed

LEMMA OthersFit ==
    ASSUME IInv, NEW p \in Callers, MCStep(p), NEW q \in Callers, q # p
    PROVE  Fit(q)'
<1>1. Fit(q)
  BY DEF IInv
<1>2. /\ cpc'[q] = cpc[q] /\ call'[q] = call[q] /\ index'[q] = index[q] /\ input'[q] = input[q]
      /\ todo'[q] = todo[q] /\ (q \in Posts => reply'[q] = reply[q])
  BY Frame
<1>3. /\ cpc[q] \in Busy => /\ moved[q] \subseteq moved'[q]
                            /\ \A i \in Ids : i \notin moved'[q] => store'[i] = store[i]
      /\ wrote'[q] = wrote[q] \ {i \in Changed : store'[i] = None}
  BY Elsewhere
<1>4. cpc[q] \in Busy => call[q].on \subseteq Ids
  BY RealCall DEF IInv, Fit, Asked, Call
<1>5. DOMAIN todo[q] \subseteq Ids /\ wrote[q] \subseteq Ids
  BY DEF IInv, Typed, TypeOK
<1>6. Asked(q)'
  BY <1>1, <1>2 DEF Fit, Asked
<1>7. Sees(q)'
  BY <1>1, <1>2, <1>3 DEF Fit, Sees, Looking, Busy
<1>8. Looked(q)'
  BY <1>1, <1>2 DEF Fit, Looked, Found
<1>9. Inputs(q)'
  BY <1>1, <1>2, <1>3, <1>4 DEF Fit, Inputs, Busy
<1>10. Drafts(q)'
  BY <1>1, <1>2, <1>3, <1>4 DEF Fit, Drafts, Busy
<1>11. Due(q)'
  <2>1. DOMAIN todo[q] # {} => cpc[q] \in Busy /\ cpc[q] = "write"
    BY <1>1 DEF Fit, Due, Busy
  <2>2. ASSUME q \in Posts, NEW i \in DOMAIN todo[q]
        PROVE  /\ i \notin moved'[q] => AsAsked(call[q], store'[i], todo[q][i])
               /\ call[q].op = "publish" => i \in call[q].on /\ todo[q][i] # None
    BY <1>1, <1>3, <1>5, <2>1, <2>2 DEF Fit, Due
  <2> QED BY <1>2, <2>1, <2>2 DEF Due
<1>12. Wrote(q)'
  <2>1. \A i \in wrote'[q] : i \in wrote[q] /\ (store[i] # None => store'[i] # None)
    BY <1>3, <1>5 DEF Changed
  <2> QED BY <1>1, <1>2, <2>1 DEF Fit, Wrote
<1> QED BY <1>6, <1>7, <1>8, <1>9, <1>10, <1>11, <1>12 DEF Fit

\* A step that writes no row.
LEMMA Unwritten ==
    ASSUME IInv, NEW p \in Callers, MCStep(p), UNCHANGED store
    PROVE  /\ wrote'[p] = IF cpc'[p] \in {"begun", "load"} THEN {} ELSE wrote[p]
           /\ call'[p] # NoCall /\ ~(index[p] = NoIndex /\ index'[p] # NoIndex) => moved'[p] = moved[p]
<1>1. Changed = {}
  BY DEF Changed
<1> QED BY <1>1 DEF MCStep

\* A caller that has been answered.
LEMMA EndsFit ==
    ASSUME IInv, NEW p \in Callers, MCStep(p), NEW answer, Ends(p, answer), UNCHANGED store,
           p \in Posts /\ answer = "refused" => wrote[p] = {}
    PROVE  Fit(p)'
<1>1. /\ cpc'[p] = IF p \in Posts THEN "next" ELSE "done"
      /\ p \in Posts => reply'[p] = answer
      /\ call'[p] = NoCall /\ todo'[p] = NoWrites
  BY DEF IInv, Typed, TypeOK, Ends
<1>2. wrote'[p] = wrote[p]
  BY <1>1, Unwritten
<1>3. cpc'[p] \notin Busy /\ cpc'[p] \notin Before /\ cpc'[p] \notin Looking
      /\ cpc'[p] \notin {"begun", "found", "peeked", "show", "load", "loaded", "write"}
  BY <1>1 DEF Busy, Before, Looking
<1>4. DOMAIN todo'[p] = {}
  BY <1>1, NoneTyped
<1>5. Asked(p)' /\ Sees(p)' /\ Looked(p)' /\ Drafts(p)'
  BY <1>3 DEF Asked, Sees, Looked, Drafts
<1>6. Inputs(p)' /\ Due(p)'
  BY <1>3, <1>4 DEF Inputs, Due
<1>7. Wrote(p)'
  BY <1>1, <1>2, <1>3 DEF Wrote
<1> QED BY <1>5, <1>6, <1>7 DEF Fit

\* The endpoint.
LEMMA EndpointFit ==
    ASSUME IInv, NEW p \in Callers, MCStep(p),
           Post(p) \/ Challenge(p) \/ Notification(p) \/ Plain(p) \/ Respond(p)
    PROVE  Fit(p)'
<1>1. Fit(p) /\ cpc \in [Callers -> {"idle", "next", "begun", "found", "peeked", "load", "loaded", "write",
                                     "show", "200", "202", "401", "done"}]
      /\ reply \in [Posts -> Replies \cup {None}] /\ p \in Posts
  BY DEF IInv, Typed, TypeOK, Post, Challenge, Notification, Plain, Respond, TakesMessage
<1>2. /\ cpc[p] \in {"idle", "next"} /\ cpc'[p] \in {"next", "200", "202", "401"}
      /\ reply'[p] \in {reply[p], "result", "error"}
      /\ UNCHANGED <<store, todo>>
  BY <1>1 DEF Post, Challenge, Notification, Plain, Respond, TakesMessage
<1>3. wrote'[p] = wrote[p]
  BY <1>2, Unwritten
<1>4. DOMAIN todo'[p] = {}
  BY <1>1, <1>2 DEF Fit, Due
<1>5. Asked(p)' /\ Sees(p)' /\ Looked(p)' /\ Drafts(p)' /\ Inputs(p)' /\ Due(p)'
  BY <1>2, <1>4 DEF Asked, Sees, Looked, Drafts, Inputs, Due, Busy, Looking
<1>6. Wrote(p)'
  BY <1>1, <1>2, <1>3 DEF Fit, Wrote, Before
<1> QED BY <1>5, <1>6 DEF Fit

LEMMA BeginFit ==
    ASSUME IInv, NEW p \in Callers, MCStep(p), NEW c \in Allowed(p), Begin(p, c)
    PROVE  Fit(p)'
<1>1. Fit(p) /\ TypeOK
  BY DEF IInv, Typed
<1>2. /\ cpc[p] \in {"idle", "next"} /\ UNCHANGED <<store, todo>> /\ call'[p] = c
      /\ input'[p] = [f \in Fields |-> IF f \in c.gives THEN p ELSE None]
      /\ cpc'[p] = IF c.op \in {"delete_draft", "publish"} \/ (p \in Posts /\ c.op = "update")
                   THEN "begun" ELSE "load"
  BY <1>1 DEF Begin, TakesMessage, TypeOK
<1>3. wrote'[p] = {}
  BY <1>2, Unwritten
<1>4. DOMAIN todo'[p] = {}
  BY <1>1, <1>2 DEF Fit, Due
<1>5. Asked(p)'
  BY <1>2 DEF Asked, Busy
<1>6. Sees(p)' /\ Looked(p)' /\ Inputs(p)' /\ Drafts(p)' /\ Due(p)' /\ Wrote(p)'
  BY <1>2, <1>3, <1>4 DEF Sees, Looked, Inputs, Drafts, Due, Wrote, Looking, Before
<1> QED BY <1>5, <1>6 DEF Fit

\* The row a tool for one row names.
LEMMA OneRow ==
    ASSUME IInv, NEW p \in Callers, cpc[p] \in Busy,
           call[p].op \in {"update", "delete", "delete_draft", "publish"}
    PROVE  \E i \in Ids : call[p].on = {i}
<1>1. call[p] \in Allowed(p)
  BY DEF IInv, Fit, Asked
<1> QED BY <1>1 DEF Allowed, ToolCalls, RestCalls, Shaped

LEMMA LoadFit ==
    ASSUME IInv, NEW p \in Callers, MCStep(p), Load(p)
    PROVE  Fit(p)'
<1>1. Fit(p) /\ TypeOK
  BY DEF IInv, Typed
<1>2. /\ cpc[p] \in {"begun", "load"} /\ UNCHANGED <<store, todo, call, input>> /\ index'[p] = store
      /\ cpc'[p] = IF cpc[p] = "load" THEN "loaded" ELSE IF call[p].op = "update" THEN "found" ELSE "peeked"
  BY <1>1 DEF Load, TypeOK
<1>3. wrote'[p] = wrote[p] /\ DOMAIN todo'[p] = {}
  BY <1>1, <1>2, Unwritten DEF Fit, Due
<1>4. Asked(p)'
  BY <1>1, <1>2 DEF Fit, Asked, Busy
<1>5. ASSUME p \in Posts, cpc[p] = "load", call[p].op \in {"update", "delete_draft"}
      PROVE  moved'[p] = moved[p]
  <2>1. PICK i \in Ids : call[p].on = {i}
    BY <1>5, OneRow DEF Busy
  <2>2. index[p] # NoIndex
    BY <1>1, <1>5, <2>1 DEF Fit, Looked, Found, NoIndex
  <2>3. call'[p] # NoCall
    BY <1>2, <1>5 DEF NoCall
  <2> QED BY <1>2, <2>2, <2>3, Unwritten
<1>6. Sees(p)' /\ Looked(p)' /\ Due(p)'
  BY <1>2, <1>3 DEF Sees, Looked, Due
<1>7. Inputs(p)'
  BY <1>1, <1>2, <1>5 DEF Fit, Inputs
<1>8. Drafts(p)'
  BY <1>1, <1>2, <1>5 DEF Fit, Drafts
<1>9. Wrote(p)'
  BY <1>1, <1>2, <1>3 DEF Fit, Wrote, Before
<1> QED BY <1>4, <1>6, <1>7, <1>8, <1>9 DEF Fit

LEMMA MergeFit ==
    ASSUME IInv, NEW p \in Callers, MCStep(p), Merge(p)
    PROVE  Fit(p)'
<1>1. Fit(p) /\ TypeOK
  BY DEF IInv, Typed
<1>2. /\ cpc[p] = "found" /\ Found(p) /\ UNCHANGED <<store, todo, call, index>> /\ cpc'[p] = "load"
      /\ call[p].op = "update"
  BY <1>1 DEF Merge, TypeOK, Fit, Asked
<1>3. wrote'[p] = {} /\ DOMAIN todo'[p] = {}
  BY <1>1, <1>2, Unwritten DEF Fit, Due
<1>4. moved'[p] = moved[p]
  <2>1. call'[p] # NoCall
    BY <1>2 DEF NoCall
  <2> QED BY <1>2, <2>1, Unwritten
<1>5. PICK i \in Ids : call[p].on = {i}
  BY <1>2, OneRow DEF Busy
<1>6. p \in Posts => input'[p] = [f \in Fields |-> IF f \in call[p].gives THEN p ELSE index[p][i].val[f]]
  <2>1. input' = [input EXCEPT ![p] =
               [f \in Fields |-> IF @[f] # None THEN @[f] ELSE currentInput(index[p][i])[f]]]
    BY <1>5 DEF Merge
  <2>2. p \in Posts => input[p] = [f \in Fields |-> IF f \in call[p].gives THEN p ELSE None]
    BY <1>1, <1>2 DEF Fit, Inputs
  <2>3. p # None
    BY NoneAssumption
  <2>4. input'[p] = [f \in Fields |-> IF input[p][f] # None THEN input[p][f] ELSE index[p][i].val[f]]
    BY <1>1, <2>1 DEF TypeOK, currentInput
  <2> QED BY <2>2, <2>3, <2>4
<1>7. Inputs(p)'
  <2>1. i \notin moved[p] => index[p][i] = store[i] /\ store[i] # None
    BY <1>1, <1>2, <1>5 DEF Fit, Sees, Looking, Found
  <2> QED BY <1>2, <1>4, <1>5, <1>6, <2>1 DEF Inputs
<1>8. Asked(p)' /\ Sees(p)' /\ Looked(p)' /\ Drafts(p)' /\ Due(p)' /\ Wrote(p)'
  BY <1>1, <1>2, <1>3 DEF Fit, Asked, Busy, Sees, Looking, Looked, Found, Drafts, Due, Wrote
<1> QED BY <1>7, <1>8 DEF Fit

LEMMA PeekFit ==
    ASSUME IInv, NEW p \in Callers, MCStep(p), Peek(p)
    PROVE  Fit(p)'
<1>1. Fit(p) /\ TypeOK
  BY DEF IInv, Typed
<1>2. /\ cpc[p] = "peeked" /\ Admits(p) /\ UNCHANGED <<store, todo, call, index>> /\ cpc'[p] = "load"
      /\ call[p].op \in {"delete_draft", "publish"}
  BY <1>1 DEF Peek, TypeOK, Fit, Asked
<1>3. wrote'[p] = {} /\ DOMAIN todo'[p] = {}
  BY <1>1, <1>2, Unwritten DEF Fit, Due
<1>4. moved'[p] = moved[p]
  <2>1. call[p] # NoCall
    BY <1>1, <1>2, RealCall DEF Fit, Asked, Busy
  <2> QED BY <1>2, <2>1, Unwritten
<1>5. PICK i \in Ids : call[p].on = {i}
  BY <1>2, OneRow DEF Busy
<1>6. i \notin moved[p] => index[p][i] = store[i]
  BY <1>1, <1>2 DEF Fit, Sees, Looking
<1>7. Drafts(p)'
  BY <1>2, <1>4, <1>5, <1>6 DEF Drafts, Admits, Found
<1>8. Asked(p)' /\ Sees(p)' /\ Looked(p)' /\ Inputs(p)' /\ Due(p)' /\ Wrote(p)'
  BY <1>1, <1>2, <1>3 DEF Fit, Asked, Busy, Sees, Looking, Looked, Found, Admits, Inputs, Due, Wrote
<1> QED BY <1>7, <1>8 DEF Fit

\* A call that decides on rows to write: each is as asked of what it has seen.
LEMMA DecidesFit ==
    ASSUME IInv, NEW p \in Callers, MCStep(p), NEW rows, WillWrite(p, rows), cpc[p] = "loaded",
           p \in Posts => \A i \in DOMAIN rows :
               /\ i \notin moved[p] => AsAsked(call[p], store[i], rows[i])
               /\ call[p].op = "publish" => i \in call[p].on /\ rows[i] # None
    PROVE  Fit(p)'
<1>1. Fit(p) /\ Typed
  BY DEF IInv
<1>2. /\ cpc'[p] = "write" /\ todo'[p] = rows /\ UNCHANGED <<store, call>> /\ index'[p] = NoIndex
  BY <1>1 DEF WillWrite, Typed, TypeOK
<1>3. wrote'[p] = wrote[p]
  BY <1>2, Unwritten
<1>4. moved'[p] = moved[p]
  <2>1. call[p] # NoCall
    BY <1>1, RealCall DEF Fit, Asked, Busy
  <2> QED BY <1>2, <2>1, Unwritten
<1>5. Due(p)'
  BY <1>2, <1>4 DEF Due
<1>6. Asked(p)' /\ Sees(p)' /\ Looked(p)' /\ Inputs(p)' /\ Drafts(p)' /\ Wrote(p)'
  BY <1>1, <1>2, <1>3 DEF Fit, Asked, Busy, Before, Sees, Looking, Looked, Inputs, Drafts, Wrote
<1> QED BY <1>5, <1>6 DEF Fit

LEMMA CreateFit ==
    ASSUME IInv, NEW p \in Callers, MCStep(p), Create(p)
    PROVE  Fit(p)'
<1> PICK i, rows :
      /\ i \in Ids \ minted
      /\ rows = [j \in {i} |-> [status |-> NewStatus(p), val |-> Given(p)]] /\ WillWrite(p, rows)
  BY DEF Create
<1>1. store[i] = None
  BY DEF IInv, HandedOut
<1>2. p \in Posts => rows[i].status = "draft" /\ rows[i] \in Item
  <2>1. Given(p) \in [Fields -> Callers \cup {Seeded}]
    BY DEF IInv, Typed, TypeOK, Given
  <2> QED BY <2>1 DEF NewStatus, Item, Statuses
<1> QED BY <1>1, <1>2, NoneAssumption, DecidesFit DEF Create, AsAsked

LEMMA UpdateFit ==
    ASSUME IInv, NEW p \in Callers, MCStep(p), Update(p)
    PROVE  Fit(p)'
<1> PICK rows :
      /\ rows = [i \in call[p].on |->
           [status |-> IF call[p].status = None THEN index[p][i].status ELSE call[p].status,
            val |-> Given(p)]]
      /\ WillWrite(p, rows)
  BY DEF Update
<1>1. Fit(p) /\ TypeOK /\ cpc[p] = "loaded" /\ call[p].op = "update" /\ Found(p)
  BY DEF IInv, Typed, Update
<1>2. PICK i \in Ids : call[p].on = {i}
  BY <1>1, OneRow DEF Busy
<1>3. ASSUME p \in Posts, i \notin moved[p]
      PROVE  AsAsked(call[p], store[i], rows[i])
  <2>1. store[i] = index[p][i] /\ store[i] # None /\ store[i] \in Item
    BY <1>1, <1>2, <1>3 DEF Fit, Sees, Looking, Found, TypeOK, Table
  <2>2. input[p] = [f \in Fields |-> IF f \in call[p].gives THEN p ELSE store[i].val[f]]
    BY <1>1, <1>2, <1>3 DEF Fit, Inputs
  <2>3. \A f \in Fields : input[p][f] # None
    BY <2>1, <2>2, NoneAssumption DEF Item
  <2>4. Given(p) = [f \in Fields |-> IF f \in call[p].gives THEN p ELSE store[i].val[f]]
    BY <2>2, <2>3 DEF Given
  <2>5. call[p].status = None
    BY <1>1, <1>3, McpAssumption DEF Fit, Asked, Busy, Allowed, ToolCalls
  <2>6. rows[i] = [status |-> store[i].status, val |-> Given(p)]
    BY <1>2, <2>1, <2>5
  <2>7. rows[i].status = store[i].status
        /\ \A f \in Fields : rows[i].val[f] # store[i].val[f] => f \in call[p].gives
    <3>1. rows[i].status = store[i].status /\ rows[i].val = Given(p)
      BY <2>6
    <3>2. \A f \in Fields : f \notin call[p].gives => Given(p)[f] = store[i].val[f]
      BY <2>4
    <3> QED BY <3>1, <3>2
  <2>8. Given(p) \in [Fields -> Callers \cup {Seeded}]
    BY <1>1 DEF TypeOK, Given
  <2>9. rows[i] # None
    BY <2>1, <2>6, <2>8, NoneAssumption DEF Item
  <2> QED BY <1>1, <2>1, <2>7, <2>9 DEF AsAsked
<1> QED BY <1>1, <1>2, <1>3, DecidesFit

LEMMA RemoveFit ==
    ASSUME IInv, NEW p \in Callers, MCStep(p), Remove(p)
    PROVE  Fit(p)'
<1> PICK rows : rows = [i \in call[p].on |-> None] /\ WillWrite(p, rows)
  BY DEF Remove
<1>1. Fit(p) /\ TypeOK /\ cpc[p] = "loaded" /\ call[p].op \in {"delete", "delete_draft"} /\ Found(p)
  BY DEF IInv, Typed, Remove
<1>2. PICK i \in Ids : call[p].on = {i}
  BY <1>1, OneRow DEF Busy
<1>3. ASSUME p \in Posts, i \notin moved[p]
      PROVE  AsAsked(call[p], store[i], rows[i])
  <2>1. store[i] # None
    BY <1>1, <1>2, <1>3 DEF Fit, Sees, Looking, Found
  <2>2. call[p].op = "delete_draft" => store[i].status = "draft"
    BY <1>1, <1>2, <1>3 DEF Fit, Drafts
  <2> QED BY <1>1, <1>2, <2>1, <2>2 DEF AsAsked
<1> QED BY <1>1, <1>2, <1>3, DecidesFit

LEMMA SetStatusFit ==
    ASSUME IInv, NEW p \in Callers, MCStep(p), SetStatus(p)
    PROVE  Fit(p)'
<1> PICK status : status = IF call[p].op = "publish" THEN "published" ELSE call[p].status
  OBVIOUS
<1> PICK rows : rows = [i \in {j \in call[p].on : index[p][j].status # status} |->
                           [index[p][i] EXCEPT !.status = status]]
  OBVIOUS
<1>1. WillWrite(p, rows)
  BY DEF SetStatus
<1>2. Fit(p) /\ TypeOK /\ cpc[p] = "loaded" /\ call[p].op \in {"set_status", "publish"} /\ Found(p)
  BY DEF IInv, Typed, SetStatus
<1>3. call[p].on \subseteq Ids /\ DOMAIN rows \subseteq call[p].on
  BY <1>2 DEF TypeOK, Call
<1>4. ASSUME NEW i \in DOMAIN rows
      PROVE  /\ rows[i] # None
             /\ i \notin moved[p] => AsAsked(call[p], store[i], rows[i])
  <2>1. index[p][i] \in Item /\ rows[i] = [index[p][i] EXCEPT !.status = status]
    BY <1>2, <1>3 DEF Found, TypeOK, Table
  <2>2. status \in Statuses
    BY <1>2 DEF Fit, Asked, Busy, TypeOK, Call, Allowed, ToolCalls, RestCalls, Shaped, Statuses
  <2>3. rows[i] \in Item /\ rows[i].val = index[p][i].val
    BY <2>1, <2>2 DEF Item
  <2>4. i \notin moved[p] => store[i] = index[p][i]
    BY <1>2, <1>3 DEF Fit, Sees, Looking
  <2> QED BY <1>2, <2>1, <2>3, <2>4, NoneAssumption DEF AsAsked
<1> QED BY <1>1, <1>2, <1>3, <1>4, DecidesFit

LEMMA WriteFit ==
    ASSUME IInv, NEW p \in Callers, MCStep(p), NEW i \in Ids, Write(p, i)
    PROVE  Fit(p)'
<1>1. Fit(p) /\ Typed /\ DOMAIN todo[p] \subseteq Ids
  BY DEF IInv, Typed, TypeOK
<1>2. /\ cpc[p] = "write" /\ i \in DOMAIN todo[p] /\ UNCHANGED <<cpc, call, index, input, reply>>
      /\ store' = [store EXCEPT ![i] = todo[p][i]] /\ store \in Table
  BY <1>1 DEF Write, Typed, TypeOK
<1>3. DOMAIN todo'[p] = DOMAIN todo[p] \ {i} /\ \A j \in DOMAIN todo'[p] : todo'[p][j] = todo[p][j]
  BY <1>1 DEF Write, Restrict, Typed
<1>4. store'[i] = todo[p][i] /\ \A j \in Ids : j # i => store'[j] = store[j]
  BY <1>2 DEF Table
<1>5. moved'[p] = moved[p]
  <2>1. call[p] # NoCall
    BY <1>1, <1>2, RealCall DEF Fit, Asked, Busy
  <2> QED BY <1>2, <2>1 DEF MCStep
<1>6. wrote'[p] = wrote[p] \cup Changed /\ Changed \subseteq {i} /\ wrote[p] \subseteq Ids
  BY <1>1, <1>2, <1>4 DEF MCStep, Changed, Typed
<1>7. Due(p)'
  BY <1>1, <1>2, <1>3, <1>4, <1>5 DEF Fit, Due
<1>8. Wrote(p)'
  <2>1. p \in Posts /\ call[p].op = "publish" => i \in call[p].on /\ todo[p][i] # None
    BY <1>1, <1>2 DEF Fit, Due
  <2>2. p \in Posts /\ call[p].op = "publish" => \A j \in wrote[p] : j \in call[p].on /\ store[j] # None
    BY <1>1, <1>2 DEF Fit, Wrote
  <2> QED BY <1>2, <1>4, <1>6, <2>1, <2>2 DEF Wrote, Before
<1>9. Asked(p)' /\ Sees(p)' /\ Looked(p)' /\ Inputs(p)' /\ Drafts(p)'
  BY <1>1, <1>2 DEF Fit, Asked, Sees, Looking, Looked, Inputs, Drafts
<1> QED BY <1>7, <1>8, <1>9 DEF Fit

\* The answers.
LEMMA AnswerFit ==
    ASSUME IInv, NEW p \in Callers, MCStep(p), Refuse(p) \/ Written(p) \/ Show(p) \/ Fail(p)
    PROVE  Fit(p)'
<1>1. Fit(p) /\ TypeOK
  BY DEF IInv, Typed
<1>2. CASE Refuse(p)
  <2>1. p \in Posts => wrote[p] = {}
    BY <1>1, <1>2 DEF Fit, Wrote, Before, Refuse
  <2> QED BY <1>2, <2>1, EndsFit DEF Refuse
<1>3. CASE Written(p) /\ Ends(p, "result")
  BY <1>3, EndsFit DEF Written
<1>4. CASE Written(p) /\ cpc' = [cpc EXCEPT ![p] = "show"] /\ UNCHANGED <<left, call, index, input, todo, reply>>
  <2>1. /\ cpc[p] = "write" /\ cpc'[p] = "show" /\ DOMAIN todo[p] = {} /\ UNCHANGED <<store, todo, call>>
    BY <1>1, <1>4 DEF Written, TypeOK
  <2>2. call[p].op = "publish"
    <3>1. call[p].op # "publish" => Ends(p, "result")
      BY <1>4 DEF Written
    <3>2. ~Ends(p, "result")
      BY <1>1, <1>4, <2>1 DEF Ends, TypeOK
    <3> QED BY <3>1, <3>2
  <2>3. wrote'[p] = wrote[p]
    BY <2>1, Unwritten
  <2>4. Asked(p)' /\ Sees(p)' /\ Looked(p)' /\ Inputs(p)' /\ Drafts(p)' /\ Due(p)' /\ Wrote(p)'
    BY <1>1, <2>1, <2>2, <2>3 DEF Fit, Asked, Busy, Before, Sees, Looking, Looked, Inputs, Drafts, Due, Wrote
  <2> QED BY <2>4 DEF Fit
<1>5. CASE Show(p)
  <2>1. cpc[p] = "show" /\ call[p].op = "publish" /\ UNCHANGED store
    BY <1>1, <1>5 DEF Show, Fit, Asked
  <2>2. PICK i \in Ids : call[p].on = {i}
    BY <2>1, OneRow DEF Busy
  <2>3. p \in Posts /\ store[i] = None => wrote[p] = {}
    BY <1>1, <2>1, <2>2 DEF Fit, Wrote
  <2>4. CASE store[i] = None
    BY <1>5, <2>1, <2>2, <2>3, <2>4, EndsFit DEF Show
  <2>5. CASE store[i] # None
    <3>1. Ends(p, "result")
      BY <1>5, <2>2, <2>5 DEF Show
    <3> QED BY <2>1, <3>1, EndsFit
  <2> QED BY <2>4, <2>5
<1>6. CASE Fail(p)
  BY <1>6, EndsFit DEF Fail
<1> QED BY <1>2, <1>3, <1>4, <1>5, <1>6 DEF Written

LEMMA StepFit ==
    ASSUME IInv, NEW p \in Callers, MCStep(p), NEW q \in Callers
    PROVE  Fit(q)'
<1>1. CASE q # p
  BY <1>1, OthersFit
<1>2. CASE q = p
  BY <1>2, EndpointFit, BeginFit, LoadFit, MergeFit, PeekFit, CreateFit, UpdateFit, RemoveFit,
     SetStatusFit, WriteFit, AnswerFit DEF MCStep, Step, CallStep
<1> QED BY <1>1, <1>2

\* Rows come from ids that were handed out, and new ones from those that were not.
LEMMA StepHandedOut ==
    ASSUME IInv, NEW p \in Callers, MCStep(p)
    PROVE  HandedOut' /\ Own'
<1>1. /\ HandedOut /\ Own /\ Typed /\ TypeOK /\ Fit(p)
      /\ \A q \in Callers : DOMAIN todo[q] # {} => cpc[q] = "write"
  BY DEF IInv, Typed, Fit, Due
<1>2. \A q \in Callers : q # p =>
          /\ cpc'[q] = cpc[q] /\ call'[q] = call[q] /\ index'[q] = index[q] /\ todo'[q] = todo[q]
  BY Frame
<1>3. CASE /\ UNCHANGED <<store, minted>>
           /\ index'[p] \in {index[p], store, NoIndex}
           /\ DOMAIN todo'[p] = {}
  <2>1. \A i \in Ids : NoIndex[i] = None
    BY DEF NoIndex
  <2>2. HandedOut'
    BY <1>1, <1>2, <1>3, <2>1 DEF HandedOut
  <2>3. Own'
    <3> SUFFICES ASSUME NEW q \in Callers, cpc'[q] = "write", call'[q].op = "create", NEW i \in DOMAIN todo'[q]
                 PROVE  store'[i] = None /\ \A d \in Callers : index'[d][i] = None /\ (d # q => i \notin DOMAIN todo'[d])
      BY DEF Own
    <3>1. q # p /\ cpc[q] = "write" /\ call[q].op = "create" /\ i \in DOMAIN todo[q]
      BY <1>2, <1>3
    <3>2. i \in Ids /\ store[i] = None /\ \A d \in Callers : index[d][i] = None /\ (d # q => i \notin DOMAIN todo[d])
      BY <1>1, <3>1 DEF Own, TypeOK
    <3> QED BY <1>2, <1>3, <2>1, <3>2
  <2> QED BY <2>2, <2>3
<1>4. CASE \/ Post(p) \/ Challenge(p) \/ Notification(p) \/ Plain(p) \/ Respond(p)
           \/ \E c \in Allowed(p) : Begin(p, c)
           \/ Merge(p) \/ Peek(p)
  <2>1. UNCHANGED <<store, minted, index, todo>> /\ cpc[p] # "write"
    BY <1>4 DEF Post, Challenge, Notification, Plain, Respond, TakesMessage, Begin, Merge, Peek
  <2> QED BY <1>1, <1>3, <2>1
<1>5. CASE Load(p)
  <2>1. UNCHANGED <<store, minted, todo>> /\ index'[p] = store /\ cpc[p] # "write"
    BY <1>1, <1>5 DEF Load, TypeOK
  <2> QED BY <1>1, <1>3, <2>1
<1>6. CASE Refuse(p) \/ Written(p) \/ Show(p) \/ Fail(p)
  <2>1. UNCHANGED <<store, minted>> /\ index'[p] \in {index[p], NoIndex}
    BY <1>1, <1>6 DEF Refuse, Written, Show, Fail, Ends, TypeOK
  <2>2. todo'[p] = NoWrites \/ (todo' = todo /\ DOMAIN todo[p] = {})
    BY <1>1, <1>6 DEF Refuse, Written, Show, Fail, Ends, Typed
  <2> QED BY <1>1, <1>3, <2>1, <2>2, NoneTyped
<1>7. CASE Create(p)
  <2> PICK i, rows :
        /\ i \in Ids \ minted
        /\ rows = [j \in {i} |-> [status |-> NewStatus(p), val |-> Given(p)]] /\ WillWrite(p, rows)
        /\ minted' = minted \cup {i}
    BY <1>7 DEF Create
  <2>1. UNCHANGED store /\ DOMAIN todo'[p] = {i} /\ index'[p] = NoIndex
    BY <1>1 DEF WillWrite, Typed, TypeOK
  <2>2. /\ store[i] = None
        /\ \A q \in Callers : index[q][i] = None /\ i \notin DOMAIN todo[q]
    BY <1>1 DEF HandedOut
  <2>3. \A j \in Ids : NoIndex[j] = None
    BY DEF NoIndex
  <2>4. HandedOut'
    BY <1>1, <1>2, <2>1, <2>2, <2>3 DEF HandedOut
  <2>5. Own'
    <3> SUFFICES ASSUME NEW q \in Callers, cpc'[q] = "write", call'[q].op = "create", NEW j \in DOMAIN todo'[q]
                 PROVE  store'[j] = None /\ \A d \in Callers : index'[d][j] = None /\ (d # q => j \notin DOMAIN todo'[d])
      BY DEF Own
    <3>1. CASE q = p
      BY <1>2, <2>1, <2>2, <2>3, <3>1
    <3>2. CASE q # p
      <4>1. cpc[q] = "write" /\ call[q].op = "create" /\ j \in DOMAIN todo[q] /\ j \in Ids /\ j # i
        BY <1>1, <1>2, <2>2, <3>2 DEF TypeOK
      <4>2. store[j] = None /\ \A d \in Callers : index[d][j] = None /\ (d # q => j \notin DOMAIN todo[d])
        BY <1>1, <4>1 DEF Own
      <4> QED BY <1>2, <2>1, <2>3, <4>1, <4>2
    <3> QED BY <3>1, <3>2
  <2> QED BY <2>4, <2>5
<1>8. CASE Update(p) \/ Remove(p) \/ SetStatus(p)
  <2>1. PICK rows : WillWrite(p, rows) /\ DOMAIN rows \subseteq call[p].on
    BY <1>8 DEF Update, Remove, SetStatus
  <2>2. /\ UNCHANGED <<store, minted, call>> /\ todo'[p] = rows /\ index'[p] = NoIndex /\ call[p].op # "create"
        /\ \A i \in call[p].on : i \in Ids /\ index[p][i] # None
    BY <1>1, <1>8, <2>1 DEF Update, Remove, SetStatus, WillWrite, Typed, TypeOK, Found, Call
  <2>3. \A j \in Ids : NoIndex[j] = None
    BY DEF NoIndex
  <2>4. HandedOut'
    BY <1>1, <1>2, <2>1, <2>2, <2>3 DEF HandedOut
  <2>5. Own'
    <3> SUFFICES ASSUME NEW q \in Callers, cpc'[q] = "write", call'[q].op = "create", NEW j \in DOMAIN todo'[q]
                 PROVE  store'[j] = None /\ \A d \in Callers : index'[d][j] = None /\ (d # q => j \notin DOMAIN todo'[d])
      BY DEF Own
    <3>1. q # p /\ cpc[q] = "write" /\ call[q].op = "create" /\ j \in DOMAIN todo[q]
      BY <1>2, <2>2
    <3>2. j \in Ids /\ store[j] = None /\ \A d \in Callers : index[d][j] = None /\ (d # q => j \notin DOMAIN todo[d])
      BY <1>1, <3>1 DEF Own, TypeOK
    <3>3. j \notin DOMAIN rows
      BY <2>1, <2>2, <3>2
    <3> QED BY <1>2, <2>2, <2>3, <3>2, <3>3
  <2> QED BY <2>4, <2>5
<1>9. ASSUME NEW i \in Ids, Write(p, i) PROVE HandedOut' /\ Own'
  <2>1. /\ UNCHANGED <<cpc, call, index, minted>> /\ i \in DOMAIN todo[p] /\ cpc[p] = "write"
        /\ DOMAIN todo'[p] = DOMAIN todo[p] \ {i}
        /\ \A j \in Ids : j # i => store'[j] = store[j]
    BY <1>1, <1>9 DEF Write, Restrict, Typed, TypeOK, Table
  <2>2. HandedOut'
    BY <1>1, <1>2, <2>1 DEF HandedOut
  <2>3. Own'
    <3> SUFFICES ASSUME NEW q \in Callers, cpc'[q] = "write", call'[q].op = "create", NEW j \in DOMAIN todo'[q]
                 PROVE  store'[j] = None /\ \A d \in Callers : index'[d][j] = None /\ (d # q => j \notin DOMAIN todo'[d])
      BY DEF Own
    <3>1. cpc[q] = "write" /\ call[q].op = "create" /\ j \in DOMAIN todo[q] /\ (q = p => j # i)
      BY <1>2, <2>1
    <3>2. j \in Ids /\ store[j] = None /\ \A d \in Callers : index[d][j] = None /\ (d # q => j \notin DOMAIN todo[d])
      BY <1>1, <3>1 DEF Own, TypeOK
    <3>3. j # i
      BY <2>1, <3>1, <3>2
    <3> QED BY <1>2, <2>1, <3>2, <3>3
  <2> QED BY <2>2, <2>3
<1> QED BY <1>4, <1>5, <1>6, <1>7, <1>8, <1>9 DEF MCStep, Step, CallStep

LEMMA NextIInv == IInv /\ [MCNext]_<<vars, moved, wrote>> => IInv'
<1> SUFFICES ASSUME IInv, [MCNext]_<<vars, moved, wrote>> PROVE IInv'
  OBVIOUS
<1>1. ASSUME NEW p \in Callers, MCStep(p) PROVE IInv'
  BY <1>1, StepTyped, StepFit, StepHandedOut DEF IInv
<1>2. CASE UNCHANGED <<vars, moved, wrote>>
  BY <1>2 DEF vars, IInv, Typed, TypeOK, Fit, Asked, Sees, Looked, Found, Inputs, Drafts, Due, Wrote,
              HandedOut, Own
<1> QED BY <1>1, <1>2 DEF MCNext

LEMMA SpecIInv == MCSpec => []IInv
  BY InitIInv, NextIInv, PTL DEF MCSpec
-------------------------------------------------------------------------------
\* The table, every call and every body have their types.
THEOREM McpTypeOK == MCSpec => []TypeOK
<1>1. IInv => TypeOK
  BY DEF IInv, Typed
<1> QED BY <1>1, SpecIInv, PTL

\* A tool call the model is told was refused has written nothing that is still
\* there, whatever other connectors and editors do meanwhile (callTool).
THEOREM McpRefusedWroteNothing == MCSpec => []RefusedWroteNothing
<1>1. IInv => RefusedWroteNothing
  BY DEF IInv, Fit, Wrote, RefusedWroteNothing, Callers
<1> QED BY <1>1, SpecIInv, PTL

\* What a tool does to a row nobody else has written since it looked is what it
\* was asked to do: update keeps the fields and the status not passed, create
\* makes a draft, delete_draft removes only drafts, publish and set_status move
\* the status alone (mcp-tools).
THEOREM McpOnlyAskedChanges == MCSpec => OnlyAskedChanges
<1>1. ASSUME IInv, [MCNext]_<<vars, moved, wrote>>, NEW p \in Posts, NEW i \in Ids, Writes(p, i)
      PROVE  AsAsked(call[p], store[i], store'[i])
  <2>1. p \in Callers /\ Fit(p) /\ Typed
    BY <1>1 DEF IInv, Callers
  <2>2. todo[p] # todo'[p] /\ cpc[p] = "write" /\ cpc'[p] = "write" /\ i \in DOMAIN todo[p] /\ i \notin DOMAIN todo'[p]
        /\ i \notin moved[p]
    BY <1>1 DEF Writes
  <2>3. MCStep(p)
    BY <1>1, <2>1, <2>2, Frame DEF MCNext, vars
  <2>4. \E j \in Ids : Write(p, j)
    BY <2>1, <2>2, <2>3 DEF Typed, TypeOK, MCStep, Step, CallStep, Post, Challenge, Notification, Plain,
          Respond, TakesMessage, Begin, Load, Merge, Peek, Refuse, Create, Update, Remove, SetStatus,
          WillWrite, Written, Show, Fail, Ends
  <2>5. PICK j \in Ids : Write(p, j)
    BY <2>4
  <2>6. j = i
    BY <2>1, <2>2, <2>5 DEF Write, Restrict, Typed
  <2>7. store'[i] = todo[p][i]
    BY <2>1, <2>5, <2>6 DEF Write, Typed, TypeOK, Table
  <2> QED BY <2>1, <2>2, <2>7 DEF Fit, Due
<1>2. IInv /\ [MCNext]_<<vars, moved, wrote>> =>
          [\A p \in Posts, i \in Ids : Writes(p, i) =>
             LET was == store[i]
                 is == store'[i]
             IN  CASE was = None -> call[p].op = "create" /\ is.status = "draft"
                   [] is = None -> \/ call[p].op = "delete"
                                   \/ call[p].op = "delete_draft" /\ was.status = "draft"
                   [] OTHER ->
                         /\ \A f \in Fields : is.val[f] # was.val[f] =>
                                call[p].op = "update" /\ f \in call[p].gives
                         /\ is.status # was.status =>
                                call[p].op \in {"publish", "set_status"}]_<<vars, moved, wrote>>
  BY <1>1 DEF AsAsked
<1> QED BY <1>2, SpecIInv, PTL DEF MCSpec, OnlyAskedChanges
================================================================================
