------------------------------- MODULE McpContent -------------------------------
(***************************************************************************)
(* The connector: packages/mcp answers JSON-RPC bodies behind the OAuth    *)
(* bearer, and packages/cms makes its tools out of ContentService.  A post *)
(* is an HTTP request with a body of up to MaxBatch messages; an edit is a *)
(* request of the editor's REST controller.  Both end in the same service, *)
(* whose writes of rows without children are modelled field by field: a    *)
(* field holds who gave it its value.  A handler takes one action between  *)
(* two awaits; index(true) answers with the table as it is.                *)
(***************************************************************************)
EXTENDS Naturals, Functions

CONSTANTS
    Posts, Edits,
    Ids,
    Fields, Omitted,    \* the fields of the DTO, and those the spec's mcp.omit hides
    MaxBatch,
    Seeded,             \* gave the fields their first values
    None

ASSUME McpAssumption ==
    /\ Posts \cap Edits = {} /\ Seeded \notin Posts \cup Edits
    /\ Omitted \subseteq Fields /\ MaxBatch \in Nat

Callers == Posts \cup Edits
Statuses == {"draft", "published"}
Item == [status : Statuses, val : [Fields -> Callers \cup {Seeded}]]
Table == [Ids -> Item \cup {None}]

ASSUME NoneAssumption == None \notin Item \cup Statuses \cup Callers \cup {Seeded}

\* A tool call or a REST request: what it names, the fields and the status given.
Ops == {"create", "update", "delete", "delete_draft", "publish", "set_status"}
Call == [op : Ops, on : SUBSET Ids, gives : SUBSET Fields, status : Statuses \cup {None}]

VARIABLES
    store,              \* the table
    minted,             \* ids handed out so far (newId is random)
    cpc,                \* per caller: control
    left,               \* per post: messages of the body yet to be handled
    call,               \* per caller: the call under way
    index,              \* per caller: what index(true) answered
    input,              \* per caller: the DTO, None where a field is not given
    todo,               \* per caller: the rows it has yet to write
    reply               \* per post: what the body's last message was answered

vars == <<store, minted, cpc, left, call, index, input, todo, reply>>

NoCall == [op |-> "publish", on |-> {}, gives |-> {}, status |-> None]
NoWrites == [i \in {} |-> None]
NoIndex == [i \in Ids |-> None]
NoInput == [f \in Fields |-> None]

Replies == {"result", "refused", "failed", "error"}

TypeOK ==
    /\ store \in Table /\ minted \subseteq Ids
    /\ cpc \in [Callers -> {"idle", "next", "begun", "found", "peeked", "load", "loaded", "write",
                            "show", "200", "202", "401", "done"}]
    /\ left \in [Posts -> 0 .. MaxBatch]
    /\ call \in [Callers -> Call]
    /\ index \in [Callers -> Table]
    /\ input \in [Callers -> [Fields -> Callers \cup {Seeded, None}]]
    /\ \A p \in Callers : DOMAIN todo[p] \subseteq Ids
                          /\ \A i \in DOMAIN todo[p] : todo[p][i] \in Item \cup {None}
    /\ reply \in [Posts -> Replies \cup {None}]

Init ==
    /\ store \in [Ids -> [status : Statuses, val : {[f \in Fields |-> Seeded]}] \cup {None}]
    /\ minted = {i \in Ids : store[i] # None}
    /\ cpc = [p \in Callers |-> "idle"]
    /\ left = [p \in Posts |-> MaxBatch]
    /\ call = [p \in Callers |-> NoCall]
    /\ index = [p \in Callers |-> NoIndex]
    /\ input = [p \in Callers |-> NoInput]
    /\ todo = [p \in Callers |-> NoWrites]
    /\ reply = [p \in Posts |-> None]

-------------------------------------------------------------------------------
(* The endpoint. *)

\* post: the bearer is looked at once, for the whole body.
Post(p) ==
    /\ p \in Posts /\ cpc[p] = "idle"
    /\ cpc' = [cpc EXCEPT ![p] = "next"]
    /\ UNCHANGED <<store, minted, left, call, index, input, todo, reply>>

Challenge(p) ==
    /\ p \in Posts /\ cpc[p] = "idle"
    /\ cpc' = [cpc EXCEPT ![p] = "401"]
    /\ UNCHANGED <<store, minted, left, call, index, input, todo, reply>>

TakesMessage(p) ==
    /\ p \in Posts /\ cpc[p] = "next" /\ left[p] > 0
    /\ left' = [left EXCEPT ![p] = @ - 1]

\* handleBody: a notification, or what is no message, is not even dispatched.
Notification(p) ==
    /\ TakesMessage(p)
    /\ UNCHANGED <<store, minted, cpc, call, index, input, todo, reply>>

\* initialize, ping, tools/list and the tools that read; an unknown method or tool.
Plain(p) ==
    /\ TakesMessage(p)
    /\ \E answer \in {"result", "error"} : reply' = [reply EXCEPT ![p] = answer]
    /\ UNCHANGED <<store, minted, cpc, call, index, input, todo>>

Shaped == {c \in Call :
    /\ c.op \in {"update", "delete", "delete_draft", "publish"} => \E i \in Ids : c.on = {i}
    /\ c.op = "set_status" => c.on # {} /\ c.status # None
    /\ c.op = "create" => c.on = {}
    /\ c.op \notin {"create", "update"} => c.gives = {}}

\* What the tools' schemas and what the routes take: a connector has no say in the
\* status of what it creates or updates, nor in the fields it is not shown.
ToolCalls == {c \in Shaped :
    c.gives \cap Omitted = {} /\ (c.op # "set_status" => c.status = None)}
RestCalls == {c \in Shaped :
    /\ c.op \in {"create", "update", "delete", "publish"}
    /\ IF c.op \in {"create", "update"} THEN c.gives = Fields ELSE c.status = None}

Allowed(p) == IF p \in Posts THEN ToolCalls ELSE RestCalls

\* A tools/call or a REST request; the fields given hold the caller's values.
Begin(p, c) ==
    /\ IF p \in Posts THEN TakesMessage(p) ELSE cpc[p] = "idle" /\ UNCHANGED left
    /\ call' = [call EXCEPT ![p] = c]
    /\ input' = [input EXCEPT ![p] = [f \in Fields |-> IF f \in c.gives THEN p ELSE None]]
    /\ cpc' = [cpc EXCEPT ![p] =
           IF c.op \in {"delete_draft", "publish"} \/ (p \in Posts /\ c.op = "update")
           THEN "begun" ELSE "load"]
    /\ UNCHANGED <<store, minted, index, todo, reply>>

\* The caller is answered: a tool's failure is a result the model can read.
Ends(p, answer) ==
    /\ cpc' = [cpc EXCEPT ![p] = IF p \in Posts THEN "next" ELSE "done"]
    /\ reply' = IF p \in Posts THEN [reply EXCEPT ![p] = answer] ELSE reply
    /\ call' = [call EXCEPT ![p] = NoCall]
    /\ input' = [input EXCEPT ![p] = NoInput]
    /\ index' = [index EXCEPT ![p] = NoIndex]
    /\ todo' = [todo EXCEPT ![p] = NoWrites]
    /\ UNCHANGED left

\* The body is done: 202 when there is nothing to say.
Respond(p) ==
    /\ p \in Posts /\ cpc[p] = "next"
    /\ cpc' = [cpc EXCEPT ![p] = IF reply[p] = None THEN "202" ELSE "200"]
    /\ UNCHANGED <<store, minted, left, call, index, input, todo, reply>>

-------------------------------------------------------------------------------
(* The tools, and the service behind them. *)

Found(p) == \A i \in call[p].on : index[p][i] # None

Load(p) ==
    /\ cpc[p] \in {"begun", "load"} 
    /\ index' = [index EXCEPT ![p] = store]
    /\ cpc' = [cpc EXCEPT ![p] =
           IF @ = "load" THEN "loaded" ELSE IF call[p].op = "update" THEN "found" ELSE "peeked"]
    /\ UNCHANGED <<store, minted, left, call, input, todo, reply>>

\* Mutant of currentInput: only the fields the connector is shown.
currentInputShown(item) == [f \in Fields |-> IF f \in Omitted THEN None ELSE item.val[f]]

\* The item's current values as DTO input.
currentInput(item) == item.val

\* update_<entity>: what is passed over what was found makes the whole DTO.
Merge(p) ==
    /\ cpc[p] = "found" /\ Found(p)
    /\ \E i \in call[p].on :
           input' = [input EXCEPT ![p] =
               [f \in Fields |-> IF @[f] # None THEN @[f] ELSE currentInput(index[p][i])[f]]]
    /\ cpc' = [cpc EXCEPT ![p] = "load"]
    /\ UNCHANGED <<store, minted, left, call, index, todo, reply>>

Admits(p) ==
    Found(p) /\ (call[p].op = "delete_draft" => \A i \in call[p].on : index[p][i].status = "draft")

\* removeDraft and publish look at the item before remove and setStatus load again.
Peek(p) ==
    /\ cpc[p] = "peeked" /\ Admits(p)
    /\ cpc' = [cpc EXCEPT ![p] = "load"]
    /\ UNCHANGED <<store, minted, left, call, index, input, todo, reply>>

\* Mutant of Refuse: the entity's own checks come after the save.
RefuseLate(p) ==
    /\ \/ cpc[p] = "loaded" /\ ~Found(p)
       \/ cpc[p] = "write" /\ call[p].op \in {"create", "update"}
    /\ Ends(p, "refused")
    /\ UNCHANGED <<store, minted>>

\* 400 or 404: the arguments, the DTO or the item will not do.
Refuse(p) ==
    /\ \/ cpc[p] = "begun"
       \/ cpc[p] = "load" /\ call[p].op \notin {"publish", "delete_draft"}
       \/ cpc[p] = "found"
       \/ cpc[p] = "peeked" /\ ~Admits(p)
       \/ cpc[p] = "loaded" /\ (~Found(p) \/ call[p].op \in {"create", "update"})
    /\ Ends(p, "refused")
    /\ UNCHANGED <<store, minted>>

WillWrite(p, rows) ==
    /\ todo' = [todo EXCEPT ![p] = rows]
    /\ cpc' = [cpc EXCEPT ![p] = "write"]
    /\ index' = [index EXCEPT ![p] = NoIndex]
    /\ input' = [input EXCEPT ![p] = NoInput]
    /\ UNCHANGED <<store, left, call, reply>>

\* Mutant of Given: what is not given is stored as it came.
GivenRaw(p) == input[p]

\* A field that is not given is not in the new item (Seeded: its default).
Given(p) == [f \in Fields |-> IF input[p][f] = None THEN Seeded ELSE input[p][f]]

\* "Everything the connector creates is a draft."
NewStatus(p) == IF p \in Posts \/ call[p].status = None THEN "draft" ELSE call[p].status

Create(p) ==
    /\ cpc[p] = "loaded" /\ call[p].op = "create"
    /\ \E i \in Ids \ minted :
           /\ minted' = minted \cup {i}
           /\ WillWrite(p, [j \in {i} |-> [status |-> NewStatus(p), val |-> Given(p)]])

\* compose: the status of the item as update loads it, unless one is given.
Update(p) ==
    /\ cpc[p] = "loaded" /\ call[p].op = "update" /\ Found(p)
    /\ WillWrite(p, [i \in call[p].on |->
           [status |-> IF call[p].status = None THEN index[p][i].status ELSE call[p].status,
            val |-> Given(p)]])
    /\ UNCHANGED minted

Remove(p) ==
    /\ cpc[p] = "loaded" /\ call[p].op \in {"delete", "delete_draft"} /\ Found(p)
    /\ WillWrite(p, [i \in call[p].on |-> None])
    /\ UNCHANGED minted

\* setStatus, called by set_status and by publish; nothing unless all are there.
SetStatus(p) ==
    /\ cpc[p] = "loaded" /\ call[p].op \in {"set_status", "publish"} /\ Found(p)
    /\ LET status == IF call[p].op = "publish" THEN "published" ELSE call[p].status
       IN  WillWrite(p, [i \in {j \in call[p].on : index[p][j].status # status} |->
                            [index[p][i] EXCEPT !.status = status]])
    /\ UNCHANGED minted

Write(p, i) ==
    /\ cpc[p] = "write" /\ i \in DOMAIN todo[p]
    /\ store' = [store EXCEPT ![i] = todo[p][i]]
    /\ todo' = [todo EXCEPT ![p] = Restrict(@, DOMAIN @ \ {i})]
    /\ UNCHANGED <<minted, cpc, left, call, index, input, reply>>

\* create and update show what they wrote on a new index; publish looks it up.
Written(p) ==
    /\ cpc[p] = "write" /\ DOMAIN todo[p] = {}
    /\ IF call[p].op = "publish"
       THEN cpc' = [cpc EXCEPT ![p] = "show"] /\ UNCHANGED <<left, call, index, input, todo, reply>>
       ELSE Ends(p, "result")
    /\ UNCHANGED <<store, minted>>

\* publish ends with a get, which refuses when the item has gone meanwhile.
Show(p) ==
    /\ cpc[p] = "show"
    /\ Ends(p, IF call[p].op = "publish" /\ \E i \in call[p].on : store[i] = None
               THEN "refused" ELSE "result")
    /\ UNCHANGED <<store, minted>>

\* The store fails, before the row is written or after.
Fail(p) ==
    /\ cpc[p] \in {"begun", "load", "write", "show"}
    /\ Ends(p, "failed")
    /\ UNCHANGED <<store, minted>>

-------------------------------------------------------------------------------
CallStep(p) ==
    \/ \E c \in Allowed(p) : Begin(p, c)
    \/ Load(p) \/ Merge(p) \/ Peek(p) \/ Refuse(p)
    \/ Create(p) \/ Update(p) \/ Remove(p) \/ SetStatus(p)
    \/ \E i \in Ids : Write(p, i)
    \/ Written(p) \/ Show(p) \/ Fail(p)

Step(p) == Post(p) \/ Challenge(p) \/ Notification(p) \/ Plain(p) \/ Respond(p) \/ CallStep(p)

Next == \E p \in Callers : Step(p)

Spec == Init /\ [][Next]_vars
================================================================================
