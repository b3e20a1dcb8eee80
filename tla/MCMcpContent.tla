------------------------------ MODULE MCMcpContent ------------------------------
(* McpContent on small instances, with two history variables per caller: the  *)
(* rows others have written since its call first looked at the table, and the *)
(* rows its call has written that nobody has deleted since.                   *)
EXTENDS McpContent, TLC

VARIABLES moved, wrote

Symmetry == Permutations(Ids)

Changed == {i \in Ids : store'[i] # store[i]}

MCInit ==
    /\ Init
    /\ moved = [p \in Callers |-> {}]
    /\ wrote = [p \in Callers |-> {}]

MCStep(p) ==
    /\ Step(p)
    /\ moved' = [q \in Callers |->
           IF call'[q] = NoCall \/ (index[q] = NoIndex /\ index'[q] # NoIndex) THEN {}
           ELSE moved[q] \cup (IF q = p THEN {} ELSE Changed)]
    /\ wrote' = [q \in Callers |->
           IF q # p THEN wrote[q] \ {i \in Changed : store'[i] = None}
           ELSE IF cpc'[p] \in {"begun", "load"} THEN {} ELSE wrote[p] \cup Changed]

MCNext == \E p \in Callers : MCStep(p)

MCSpec == MCInit /\ [][MCNext]_<<vars, moved, wrote>>

Writes(p, i) ==
    /\ cpc[p] = "write" /\ cpc'[p] = "write"
    /\ i \in DOMAIN todo[p] \ DOMAIN todo'[p] /\ i \notin moved[p]

(* "Only the fields you pass change", "everything the connector creates is *)
(* a draft", "published items are refused": what a tool call does to a row *)
(* nobody else has written since it looked is what it was asked to do.     *)
OnlyAskedChanges ==
    [][\A p \in Posts, i \in Ids : Writes(p, i) =>
        LET was == store[i]
            is == store'[i]
        IN  CASE was = None -> call[p].op = "create" /\ is.status = "draft"
              [] is = None -> \/ call[p].op = "delete"
                              \/ call[p].op = "delete_draft" /\ was.status = "draft"
              [] OTHER ->
                    /\ \A f \in Fields : is.val[f] # was.val[f] =>
                           call[p].op = "update" /\ f \in call[p].gives
                    /\ is.status # was.status =>
                           call[p].op \in {"publish", "set_status"}]_<<vars, moved, wrote>>

(* "Unknown ids fail the whole call before anything is written": a call    *)
(* the model is told was refused has written nothing that is still there;  *)
(* a publish whose item is gone when it is to be shown is refused as well. *)
RefusedWroteNothing ==
    \A p \in Posts : cpc[p] = "next" /\ reply[p] = "refused" => wrote[p] = {}
================================================================================
