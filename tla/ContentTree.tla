------------------------------ MODULE ContentTree ------------------------------
(***************************************************************************)
(* What ContentService promises about the stored content, apart from how   *)
(* it loads, caches and writes it: roots with children under them, each    *)
(* draft or published, changed by whole operations that take effect at     *)
(* once.                                                                   *)
(***************************************************************************)
CONSTANTS Roots, Kids, Editors, Absent, Never

Statuses == {"draft", "published"}
Items == Roots \cup Kids

VARIABLE tree       \* per item: Absent, or its parent, status, edit and pub

Here(i) == tree[i] # Absent
Under(r) == {k \in Kids : Here(k) /\ tree[k].parent = r}

\* An item first seen: nothing else changes, and its parent is there.
Add(e, i) ==
    /\ ~Here(i)
    /\ \E p \in Roots \cup {Never}, s \in Statuses :
        /\ i \in Kids <=> p # Never
        /\ i \in Kids => Here(p)
        /\ tree' = [tree EXCEPT ![i] =
                [parent |-> p, status |-> s, edit |-> e,
                 pub |-> IF s = "published" THEN e ELSE Never]]

Marked(v, e, s) ==
    [v EXCEPT !.status = s,
              !.pub = IF s = "published" /\ v.status # "published" THEN e ELSE v.pub]

Edit(e, i) ==
    /\ Here(i)
    /\ \E s \in Statuses :
        tree' = [tree EXCEPT ![i] = [Marked(tree[i], e, s) EXCEPT !.edit = e]]

\* An item goes together with what hangs off it.
Drop(i) ==
    /\ Here(i)
    /\ tree' = [j \in Items |-> IF j = i \/ j \in Under(i) THEN Absent ELSE tree[j]]

\* All the items there, or nothing is written.
Mark(e, S, s) ==
    /\ \A i \in S : Here(i)
    /\ tree' = [i \in Items |-> IF i \in S THEN Marked(tree[i], e, s) ELSE tree[i]]

TreeInit ==
    /\ \A i \in Items : Here(i) => tree[i].status \in Statuses
    /\ \A k \in Kids : Here(k) => Here(tree[k].parent)

TreeNext ==
    \/ \E e \in Editors, i \in Items : Add(e, i) \/ Edit(e, i)
    \/ \E i \in Items : Drop(i)
    \/ \E e \in Editors, S \in SUBSET Items, s \in Statuses : Mark(e, S, s)

TreeSpec == TreeInit /\ [][TreeNext]_tree
================================================================================
