---------------------------- MODULE EphemeralProofs ----------------------------
(***************************************************************************)
(* EphemeralConfig for every set of environments and names, whatever the   *)
(* batches: nothing lingers, what was cloned boots, tweaks are kept.       *)
(***************************************************************************)
EXTENDS EphemeralConfig, TLAPS

\* Nobody writes to the source or to what is shared.
SourcesStay ==
    \A e \in {Source, Shared} :
        params[e] = [n \in Names |-> IF n \in Provisioned[e] THEN "source" ELSE None]

\* What the stack does, with what it does it, and with which environment.
Phases ==
    /\ target = None <=> phase = "none"
    /\ phase \in {"none", "active"} <=> op["handler"] = None
    /\ phase = "creating" => op["handler"].kind = "clone" /\ op["handler"].env = target
    /\ phase = "deleting" => op["handler"].kind = "delete" /\ op["handler"].env = target

\* A clone copies what the source has.
Copies == \A a \in Actors :
    op[a] # None /\ op[a].kind = "clone" => op[a].todo \subseteq Present(Source)

\* The handler's delete has all that is there on its list.
DeletesAll ==
    phase = "deleting" /\ target \notin dirty => Present(target) \subseteq op["handler"].todo

\* A cloned environment has what its source has, or the handler has yet to put it.
Cloned ==
    \A e \in cloned, n \in Present(Source) :
        \/ params[e][Leaf[n]] # None
        \/ phase = "creating" /\ target = e /\ n \in op["handler"].todo

\* Nothing is under way on an environment somebody has tweaked.
Untouched ==
    \A t \in tweaks, a \in Actors : op[a] # None => op[a].env # t[1]

\* The inductive invariant.
IInv ==
    /\ TypeOK
    /\ SourcesStay /\ Phases /\ Copies
    /\ DeletesAll /\ NoLeftovers
    /\ Cloned
    /\ Untouched /\ TweaksKept
-------------------------------------------------------------------------------
LEMMA InitIInv == Init => IInv
<1> SUFFICES ASSUME Init PROVE IInv
  OBVIOUS
<1> USE ConfigAssumption
<1>1. params \in [Envs -> [Names -> Values \cup {None}]]
  BY DEF Init, Values
<1>2. TypeOK
  BY <1>1 DEF Init, TypeOK, Actors
<1>3. SourcesStay /\ Phases /\ Copies /\ DeletesAll /\ Cloned
  BY DEF Init, SourcesStay, Phases, Copies, DeletesAll, Cloned, Envs, Actors
<1>4. NoLeftovers
  BY DEF Init, NoLeftovers, Present, Envs
<1>5. Untouched /\ TweaksKept
  BY DEF Init, Untouched, TweaksKept
<1> QED BY <1>2, <1>3, <1>4, <1>5 DEF IInv

\* PutParameter writes the one name it is given.
LEMMA PutParams ==
    ASSUME IInv, NEW e \in Targets, NEW n \in Names, NEW v \in Values, Put(e, n, v)
    PROVE  /\ params' \in [Envs -> [Names -> Values \cup {None}]]
           /\ ghosts' \subseteq Targets \X Names
           /\ \A f \in Envs : f # e => params'[f] = params[f]
           /\ params'[e][n] = v /\ v # None
           /\ \A m \in Names : m # n => params'[e][m] = params[e][m]
<1> USE DEF IInv, TypeOK
<1>1. e \in Envs /\ v # None
  BY NoneAssumption DEF Envs
<1>2. params[e] \in [Names -> Values \cup {None}]
  BY <1>1
<1>3. [params[e] EXCEPT ![n] = v] \in [Names -> Values \cup {None}]
  BY <1>2
<1>4. params' = [params EXCEPT ![e] = [params[e] EXCEPT ![n] = v]]
  BY <1>1 DEF Put
<1> QED BY <1>1, <1>2, <1>3, <1>4 DEF Put

\* Nobody writes to Source or Shared: what a clone copies is there.
LEMMA SourceStays ==
    ASSUME IInv, NEW e \in Targets,
           \A f \in Envs : f # e => params'[f] = params[f]
    PROVE  SourcesStay' /\ Present(Source)' = Present(Source)
  BY ConfigAssumption DEF IInv, SourcesStay, Present, Envs

\* A delete lists all that is there, and maybe more.
LEMMA Listed ==
    ASSUME IInv, NEW e \in Targets, NEW l \in Listings(e)
    PROVE  l \subseteq Names /\ Present(e) \subseteq l
  BY DEF Listings, Present
\* A call that goes on writes to no environment with a tweak in it.
LEMMA CallKeepsTweaks ==
    ASSUME IInv, NEW a \in Actors, op[a] # None, UNCHANGED tweaks,
           op'[a].env = op[a].env, \A b \in Actors : b # a => op'[b] = op[b],
           \A f \in Envs : f # op[a].env => params'[f] = params[f]
    PROVE  Untouched' /\ TweaksKept'
<1>1. Untouched'
  BY DEF IInv, Untouched
<1>2. \A t \in tweaks : t[1] # op[a].env /\ t[1] \in Envs
  BY DEF IInv, TypeOK, Untouched, Envs
<1> QED BY <1>1, <1>2 DEF IInv, TweaksKept

\* What somebody begins on an environment ends the tweaks of it.
LEMMA BeginKeepsTweaks ==
    ASSUME IInv, NEW a \in Actors, NEW e \in Targets, UNCHANGED params,
           tweaks' = Untweaked(e), op'[a].env = e,
           \A b \in Actors : b # a => op'[b] = op[b]
    PROVE  Untouched' /\ TweaksKept' /\ tweaks' \subseteq Targets \X Names
<1>1. /\ tweaks' \subseteq tweaks
      /\ \A t \in tweaks' : t[1] # e
  BY DEF IInv, TypeOK, Untweaked
<1> QED BY <1>1 DEF IInv, TypeOK, Untouched, TweaksKept
-------------------------------------------------------------------------------
LEMMA CatchUpKeeps ==
    ASSUME IInv, NEW e \in Targets, CatchUp(e)
    PROVE  IInv'
  BY DEF CatchUp, hist, IInv, TypeOK, SourcesStay, Phases, Copies, DeletesAll, NoLeftovers,
         Cloned, Present, Untouched, TweaksKept

LEMMA PushKeeps ==
    ASSUME IInv, NEW e \in Targets, NEW n \in Names, Push(e, n)
    PROVE  IInv'
<1> USE DEF IInv, TypeOK, Push
<1>0. "hand" \in Values /\ e \in Envs /\ None # e
  BY ConfigAssumption DEF Values, Envs
<1>1. /\ params' \in [Envs -> [Names -> Values \cup {None}]]
      /\ ghosts' \subseteq Targets \X Names
      /\ \A f \in Envs : f # e => params'[f] = params[f]
      /\ params'[e][n] # None
      /\ \A m \in Names : m # n => params'[e][m] = params[e][m]
  BY <1>0, PutParams
<1>2. SourcesStay' /\ Present(Source)' = Present(Source)
  BY <1>1, SourceStays
<1>3. TypeOK' /\ tweaks' \subseteq tweaks \cup {<<e, n>>}
  <2>1. /\ tweaks' \subseteq Targets \X Names /\ dirty' \subseteq Targets
        /\ tweaks' \subseteq tweaks \cup {<<e, n>>}
    OBVIOUS
  <2> QED BY <1>1, <2>1
<1>4. Phases' /\ Copies'
  BY <1>2 DEF Phases, Copies
<1>5. e \in dirty' \/ Kept(e)
  OBVIOUS
<1>6. \A f \in Envs : f # e => Present(f)' = Present(f)
  BY <1>1 DEF Present
<1>7. DeletesAll'
  BY <1>5, <1>6 DEF DeletesAll, Kept, Envs, Phases
<1>8. NoLeftovers'
  BY <1>5, <1>6 DEF NoLeftovers, Kept, Envs
<1>9. Cloned'
  <2> SUFFICES ASSUME NEW f \in cloned', NEW m \in Present(Source)'
               PROVE  \/ params'[f][Leaf[m]] # None
                      \/ phase' = "creating" /\ target' = f /\ m \in op'["handler"].todo
    BY DEF Cloned
  <2>1. Leaf[m] \in Names /\ m \in Present(Source) /\ f \in Envs
    BY <1>2, ConfigAssumption DEF Present, Envs
  <2> QED BY <2>1, <1>1 DEF Cloned
<1>10. Untouched'
  <2>1. tweaks' = tweaks \/ (Kept(e) /\ \A t \in tweaks' : t \in tweaks \/ t[1] = e)
    BY <1>3
  <2>2. Kept(e) => \A a \in Actors : op[a] = None
    BY DEF Kept, Phases, Actors
  <2> QED BY <2>1, <2>2 DEF Untouched
<1>11. TweaksKept'
  <2> SUFFICES ASSUME NEW t \in tweaks' PROVE params'[t[1]][t[2]] = "hand"
    BY DEF TweaksKept
  <2>1. params'[e][n] = "hand"
    BY <1>0, PutParams
  <2>2. CASE t = <<e, n>>
    BY <2>1, <2>2
  <2>3. CASE t # <<e, n>>
    <3>1. t \in tweaks /\ t[1] \in Envs /\ t[2] \in Names /\ t = <<t[1], t[2]>>
      BY <1>3, <2>3 DEF Envs
    <3>2. params[t[1]][t[2]] = "hand"
      BY <3>1 DEF TweaksKept
    <3>3. CASE t[1] = e
      BY <1>1, <2>3, <3>1, <3>2, <3>3
    <3>4. CASE t[1] # e
      BY <1>1, <3>1, <3>2, <3>4
    <3> QED BY <3>3, <3>4
  <2> QED BY <2>2, <2>3
<1> QED BY <1>2, <1>3, <1>4, <1>7, <1>8, <1>9, <1>10, <1>11

LEMMA PutNextKeeps ==
    ASSUME IInv, NEW a \in Actors, PutNext(a)
    PROVE  IInv'
<1> USE DEF IInv, TypeOK
<1>1. op[a] \in Op /\ op[a].kind = "clone" /\ op[a].todo \subseteq Present(Source)
  BY DEF PutNext, Copies
<1> PICK e : e = op[a].env
  OBVIOUS
<1>2. e \in Targets /\ e \in Envs /\ e # None
  BY <1>1, ConfigAssumption DEF Op, Envs
<1>3. PICK n \in op[a].todo :
          /\ Put(e, Leaf[n], params[Source][n])
          /\ op' = [op EXCEPT ![a].todo = @ \ {n}]
  BY DEF PutNext
<1>4. n \in Names /\ Leaf[n] \in Names /\ params[Source][n] \in Values
  BY <1>1, ConfigAssumption DEF Present, Envs
<1>5. /\ params' \in [Envs -> [Names -> Values \cup {None}]]
      /\ ghosts' \subseteq Targets \X Names
      /\ \A f \in Envs : f # e => params'[f] = params[f]
      /\ params'[e][Leaf[n]] # None
      /\ \A m \in Names : m # Leaf[n] => params'[e][m] = params[e][m]
  BY <1>2, <1>3, <1>4, PutParams
<1>6. SourcesStay' /\ Present(Source)' = Present(Source)
  BY <1>2, <1>5, SourceStays
<1>7. /\ [op[a] EXCEPT !.todo = @ \ {n}] \in Op
      /\ [op[a] EXCEPT !.todo = @ \ {n}] # None
      /\ op' = [op EXCEPT ![a] = [op[a] EXCEPT !.todo = @ \ {n}]]
  BY <1>1, <1>3, NoneAssumption DEF Op
<1>8. op' \in [Actors -> Op \cup {None}] /\ (op'["handler"] = None <=> op["handler"] = None)
  BY <1>1, <1>7, NoneAssumption DEF Actors
<1>9. UNCHANGED <<phase, target, cloned, moved, tweaks>>
  BY DEF PutNext
<1>10. TypeOK'
  BY <1>2, <1>5, <1>8, <1>9 DEF PutNext
<1>11. /\ op'[a].kind = "clone" /\ op'[a].env = e /\ op'[a].todo = op[a].todo \ {n}
       /\ \A b \in Actors : b # a => op'[b] = op[b]
  BY <1>1, <1>3 DEF Op
<1>12. Phases'
  BY <1>1, <1>8, <1>9, <1>11 DEF Phases, Actors
<1>13. Copies'
  BY <1>6, <1>1, <1>11 DEF Copies
<1>14. e \in dirty' \/ Kept(e) \/ (phase = "creating" /\ target = e)
  BY <1>1, NoneAssumption DEF PutNext, Phases, Actors
<1>15. \A f \in Envs : f # e => Present(f)' = Present(f)
  BY <1>5 DEF Present
<1>16. \A f \in dirty : f \in dirty'
  BY <1>1 DEF PutNext
<1>17. DeletesAll'
  <2> SUFFICES ASSUME phase = "deleting", target \notin dirty'
               PROVE  Present(target)' \subseteq op'["handler"].todo
    BY <1>9 DEF DeletesAll, Present
  <2>1. a # "handler"
    BY <1>1 DEF Phases
  <2>2. op'["handler"] = op["handler"] /\ target \in Envs
    BY <2>1, <1>11 DEF Actors, Phases, Envs
  <2>3. target # e
    BY <1>14 DEF Kept
  <2> QED BY <2>2, <2>3, <1>9, <1>15, <1>16 DEF DeletesAll, Present
<1>18. NoLeftovers'
  <2> SUFFICES ASSUME NEW f \in Targets, f # target, f \notin dirty' \cup moved
               PROVE  Present(f)' = {}
    BY <1>9 DEF NoLeftovers, Present
  <2>1. f # e /\ f \in Envs
    BY <1>14 DEF Kept, Envs
  <2> QED BY <2>1, <1>15, <1>16 DEF NoLeftovers
<1>19. Cloned'
  <2> SUFFICES ASSUME NEW f \in cloned, NEW m \in Present(Source)
               PROVE  \/ params'[f][Leaf[m]] # None
                      \/ phase = "creating" /\ target = f /\ m \in op'["handler"].todo
    BY <1>6, <1>9 DEF Cloned
  <2>1. Leaf[m] \in Names /\ f \in Envs
    BY ConfigAssumption DEF Present, Envs
  <2>2. CASE params[f][Leaf[m]] # None
    BY <2>1, <2>2, <1>5
  <2>3. CASE params[f][Leaf[m]] = None
    <3>1. phase = "creating" /\ target = f /\ m \in op["handler"].todo
      BY <2>3 DEF Cloned
    <3>2. CASE a = "handler" /\ m = n
      BY <3>1, <3>2, <1>5 DEF Phases
    <3>3. CASE a # "handler" \/ m # n
      BY <3>1, <3>3, <1>11 DEF Actors
    <3> QED BY <3>2, <3>3
  <2> QED BY <2>2, <2>3
<1>20. Untouched' /\ TweaksKept'
  BY <1>5, <1>9, <1>11, NoneAssumption, CallKeepsTweaks DEF PutNext
<1> QED BY <1>6, <1>10, <1>12, <1>13, <1>17, <1>18, <1>19, <1>20

LEMMA DeleteNextKeeps ==
    ASSUME IInv, NEW a \in Actors, DeleteNext(a)
    PROVE  IInv'
<1> USE DEF IInv, TypeOK
<1>1. op[a] \in Op /\ op[a].kind = "delete"
  BY DEF DeleteNext
<1> PICK e : e = op[a].env
  OBVIOUS
<1>2. e \in Targets /\ e \in Envs
  BY <1>1 DEF Op, Envs
<1>3. PICK b \in SUBSET op[a].todo :
          /\ params' = [params EXCEPT ![e] =
                           [n \in Names |-> IF n \in b THEN None ELSE params[e][n]]]
          /\ ghosts' \subseteq ghosts \cup ({e} \X Names)
          /\ op' = [op EXCEPT ![a].todo = @ \ b]
          /\ cloned' = cloned \ {e}
  <2>1. PICK b \in SUBSET op[a].todo :
            /\ params' = [params EXCEPT ![op[a].env] =
                             [n \in Names |-> IF n \in b THEN None ELSE params[op[a].env][n]]]
            /\ ghosts' \in {g \cup (ghosts \ ({op[a].env} \X b)) :
                               g \in SUBSET ({op[a].env} \X (b \cap Present(op[a].env)))}
            /\ op' = [op EXCEPT ![a].todo = @ \ b]
            /\ cloned' = cloned \ {op[a].env}
    BY Zenon DEF DeleteNext
  <2>2. ghosts' \subseteq ghosts \cup ({e} \X Names)
    BY <2>1 DEF Present
  <2> QED BY <2>1, <2>2
<1>4. b \subseteq Names
  BY <1>1, <1>3 DEF Op
<1>5. [n \in Names |-> IF n \in b THEN None ELSE params[e][n]] \in [Names -> Values \cup {None}]
  BY <1>2
<1>6. /\ params' \in [Envs -> [Names -> Values \cup {None}]]
      /\ \A f \in Envs : f # e => params'[f] = params[f]
      /\ \A n \in Names : params'[e][n] = IF n \in b THEN None ELSE params[e][n]
  BY <1>2, <1>3, <1>5
<1>7. ghosts' \subseteq Targets \X Names
  BY <1>2, <1>3, <1>4
<1>8. SourcesStay' /\ Present(Source)' = Present(Source)
  BY <1>2, <1>6, SourceStays
<1>9. /\ [op[a] EXCEPT !.todo = @ \ b] \in Op
      /\ [op[a] EXCEPT !.todo = @ \ b] # None
      /\ op' = [op EXCEPT ![a] = [op[a] EXCEPT !.todo = @ \ b]]
  BY <1>1, <1>3, NoneAssumption DEF Op
<1>10. op' \in [Actors -> Op \cup {None}] /\ (op'["handler"] = None <=> op["handler"] = None)
  BY <1>1, <1>9, NoneAssumption DEF Actors
<1>11. UNCHANGED <<phase, target, dirty, moved, tweaks>>
  BY DEF DeleteNext
<1>12. TypeOK'
  BY <1>3, <1>6, <1>7, <1>10, <1>11
<1>13. /\ op'[a].kind = "delete" /\ op'[a].env = e /\ op'[a].todo = op[a].todo \ b
       /\ \A c \in Actors : c # a => op'[c] = op[c]
  BY <1>1, <1>3 DEF Op
<1>14. Phases'
  BY <1>1, <1>10, <1>11, <1>13 DEF Phases, Actors
<1>15. Copies'
  BY <1>8, <1>1, <1>13 DEF Copies
<1>16. \A f \in Envs : f # e => Present(f)' = Present(f)
  BY <1>6 DEF Present
<1>17. Present(e)' = Present(e) \ b
  BY <1>6 DEF Present
<1>19. DeletesAll'
  <2> SUFFICES ASSUME phase = "deleting", target \notin dirty
               PROVE  Present(target)' \subseteq op'["handler"].todo
    BY <1>11 DEF DeletesAll, Present
  <2>1. target \in Envs /\ op["handler"].env = target /\ Present(target) \subseteq op["handler"].todo
    BY DEF DeletesAll, Phases, Envs
  <2>2. \A f \in Envs : Present(f)' \subseteq Present(f)
    BY <1>16, <1>17
  <2>3. Present(target)' \subseteq Present(target)
    BY <1>11, <2>1, <2>2 DEF Present
  <2>4. CASE a = "handler"
    BY <2>1, <2>4, <1>11, <1>13, <1>17 DEF Present
  <2>5. CASE a # "handler"
    BY <2>1, <2>3, <2>5, <1>13 DEF Actors
  <2> QED BY <2>4, <2>5
<1>20. NoLeftovers'
  BY <1>11, <1>16, <1>17 DEF NoLeftovers, Envs
<1>21. Cloned'
  <2> SUFFICES ASSUME NEW f \in cloned, f # e, NEW m \in Present(Source)
               PROVE  \/ params'[f][Leaf[m]] # None
                      \/ phase = "creating" /\ target = f /\ m \in op'["handler"].todo
    BY <1>3, <1>8, <1>11 DEF Cloned
  <2>1. params'[f] = params[f]
    BY <1>6 DEF Envs
  <2>2. phase = "creating" => a # "handler"
    BY <1>1 DEF Phases
  <2>3. a # "handler" => op'["handler"] = op["handler"]
    BY <1>13 DEF Actors
  <2> QED BY <2>1, <2>2, <2>3 DEF Cloned
<1>22. Untouched' /\ TweaksKept'
  BY <1>6, <1>11, <1>13, NoneAssumption, CallKeepsTweaks DEF DeleteNext
<1> QED BY <1>8, <1>12, <1>14, <1>15, <1>19, <1>20, <1>21, <1>22

LEMMA CliBeginsKeeps ==
    ASSUME IInv, NEW e \in Targets, CliBegins(e)
    PROVE  IInv'
<1> USE DEF IInv, TypeOK
<1>1. Present(Source) \subseteq Names
  BY DEF Present
<1>2. PICK o \in Op :
          /\ op' = [op EXCEPT !["cli"] = o] /\ o # None /\ o.env = e
          /\ o.kind = "clone" => o.todo = Present(Source)
  <2>1. CASE Clone("cli", e)
    <3>1. [kind |-> "clone", env |-> e, todo |-> Present(Source)] \in Op
      BY <1>1 DEF Op
    <3> QED BY <2>1, <3>1, NoneAssumption DEF Clone
  <2>2. CASE Delete("cli", e)
    <3>1. PICK l \in Listings(e) :
              op' = [op EXCEPT !["cli"] = [kind |-> "delete", env |-> e, todo |-> l]]
      BY <2>2 DEF Delete
    <3>2. [kind |-> "delete", env |-> e, todo |-> l] \in Op
      BY Listed DEF Op
    <3> QED BY <3>1, <3>2, NoneAssumption
  <2> QED BY <2>1, <2>2 DEF CliBegins
<1>3. /\ UNCHANGED <<params, ghosts, phase, target, cloned, moved>> /\ tweaks' = Untweaked(e)
      /\ dirty \subseteq dirty' /\ dirty' \subseteq Targets
      /\ op'["handler"] = op["handler"]
  BY <1>2 DEF CliBegins, Actors
<1>9. Untouched' /\ TweaksKept' /\ tweaks' \subseteq Targets \X Names
  <2>1. op'["cli"].env = e /\ \A b \in Actors : b # "cli" => op'[b] = op[b]
    BY <1>2 DEF Actors
  <2> QED BY <1>3, <2>1, BeginKeepsTweaks DEF Actors
<1>4. TypeOK'
  BY <1>2, <1>3, <1>9 DEF Actors
<1>5. \A f \in Envs : Present(f)' = Present(f)
  BY <1>3 DEF Present
<1>6. SourcesStay' /\ Phases' /\ NoLeftovers' /\ Cloned'
  BY <1>3, <1>5 DEF SourcesStay, Phases, NoLeftovers, Cloned, Envs
<1>7. Copies'
  BY <1>2, <1>5 DEF Copies, Envs, Actors
<1>8. DeletesAll'
  BY <1>3 DEF DeletesAll, Present
<1> QED BY <1>4, <1>6, <1>7, <1>8, <1>9

LEMMA CliEndsKeeps ==
    ASSUME IInv, CliEnds
    PROVE  IInv'
  BY DEF CliEnds, hist, IInv, TypeOK, SourcesStay, Phases, Copies, DeletesAll, NoLeftovers,
         Cloned, Present, Actors, Untouched, TweaksKept
-------------------------------------------------------------------------------
\* The steps of the stack change no parameter.
LEMMA ParamsStay ==
    ASSUME UNCHANGED params
    PROVE  /\ SourcesStay => SourcesStay'
           /\ \A e : Present(e)' = Present(e)
  BY DEF SourcesStay, Present

LEMMA CreateStackKeeps ==
    ASSUME IInv, NEW e \in Targets, CreateStack(e)
    PROVE  IInv'
<1> USE DEF IInv, TypeOK
<1>1. /\ [kind |-> "clone", env |-> e, todo |-> Present(Source)] \in Op
      /\ op' = [op EXCEPT !["handler"] = [kind |-> "clone", env |-> e, todo |-> Present(Source)]]
      /\ op'["handler"] = [kind |-> "clone", env |-> e, todo |-> Present(Source)]
  BY DEF CreateStack, Clone, Op, Present, Actors
<1>2. /\ UNCHANGED <<params, ghosts, dirty, moved>> /\ phase = "none" /\ tweaks' = Untweaked(e)
      /\ phase' = "creating" /\ target' = e /\ cloned' = cloned \cup {e} /\ e # None
  BY ConfigAssumption DEF CreateStack, Envs
<1>3. SourcesStay' /\ \A f : Present(f)' = Present(f)
  BY <1>2, ParamsStay
<1>9. Untouched' /\ TweaksKept' /\ tweaks' \subseteq Targets \X Names
  <2>1. op'["handler"].env = e /\ \A b \in Actors : b # "handler" => op'[b] = op[b]
    BY <1>1 DEF Actors
  <2> QED BY <1>2, <2>1, BeginKeepsTweaks DEF Actors
<1>4. TypeOK'
  BY <1>1, <1>2, <1>9, NoneAssumption DEF Actors
<1>5. Phases' /\ DeletesAll'
  BY <1>1, <1>2, NoneAssumption DEF Phases, DeletesAll
<1>6. Copies'
  BY <1>1, <1>3 DEF Copies, Actors
<1>7. NoLeftovers'
  BY <1>2, <1>3, ConfigAssumption DEF NoLeftovers, Phases, Envs
<1>8. Cloned'
  BY <1>1, <1>2, <1>3 DEF Cloned
<1> QED BY <1>3, <1>4, <1>5, <1>6, <1>7, <1>8, <1>9

\* The handler begins to delete e, which the stack gives up.
LEMMA HandlerDeletes ==
    ASSUME IInv, NEW e \in Targets, Delete("handler", e), UNCHANGED params
    PROVE  /\ op' \in [Actors -> Op \cup {None}]
           /\ op'["handler"] \in Op /\ op'["handler"] # None
           /\ op'["handler"].kind = "delete" /\ op'["handler"].env = e
           /\ Present(e) \subseteq op'["handler"].todo
           /\ \A b \in Actors : b # "handler" => op'[b] = op[b]
           /\ Copies'
<1> USE DEF IInv, TypeOK
<1>1. PICK l \in Listings(e) :
          op' = [op EXCEPT !["handler"] = [kind |-> "delete", env |-> e, todo |-> l]]
  BY DEF Delete
<1>2. [kind |-> "delete", env |-> e, todo |-> l] \in Op /\ Present(e) \subseteq l
  BY Listed DEF Op
<1>3. \A f : Present(f)' = Present(f)
  BY ParamsStay
<1> QED BY <1>1, <1>2, <1>3, NoneAssumption DEF Actors, Copies

\* An update of the stack makes no call at all.
LEMMA UpdateStackKeeps ==
    ASSUME IInv, NEW e \in Targets, UpdateStack(e)
    PROVE  IInv'
<1> USE DEF IInv, TypeOK, UpdateStack
<1>1. target \in Targets /\ e # None
  BY ConfigAssumption DEF Phases, Envs
<1>2. SourcesStay' /\ \A f : Present(f)' = Present(f)
  BY ParamsStay
<1>3. TypeOK'
  BY <1>1
<1>4. Phases' /\ DeletesAll'
  BY <1>1 DEF Phases, DeletesAll
<1>5. Copies' /\ Cloned'
  BY <1>2 DEF Copies, Cloned
<1>6. NoLeftovers'
  BY <1>1, <1>2 DEF NoLeftovers
<1>7. Untouched' /\ TweaksKept'
  BY DEF Untouched, TweaksKept
<1> QED BY <1>2, <1>3, <1>4, <1>5, <1>6, <1>7

LEMMA DeleteStackKeeps ==
    ASSUME IInv, DeleteStack
    PROVE  IInv'
<1> USE DEF IInv, TypeOK, DeleteStack
<1>1. target \in Targets
  BY DEF Phases
<1>2. SourcesStay' /\ \A f : Present(f)' = Present(f)
  BY ParamsStay
<1>3. /\ op' \in [Actors -> Op \cup {None}]
      /\ op'["handler"].kind = "delete" /\ op'["handler"].env = target /\ op'["handler"] # None
      /\ Present(target) \subseteq op'["handler"].todo
      /\ \A b \in Actors : b # "handler" => op'[b] = op[b]
      /\ Copies'
  BY <1>1, HandlerDeletes
<1>4. Untouched' /\ TweaksKept' /\ tweaks' \subseteq Targets \X Names
  BY <1>1, <1>3, BeginKeepsTweaks DEF Actors
<1>5. TypeOK'
  BY <1>3, <1>4
<1>6. Phases'
  BY <1>1, <1>3 DEF Phases
<1>7. DeletesAll' /\ NoLeftovers' /\ Cloned'
  BY <1>2, <1>3 DEF DeletesAll, NoLeftovers, Cloned
<1> QED BY <1>2, <1>3, <1>4, <1>5, <1>6, <1>7

\* The handler is done with what it was called for, or gives up.
LEMMA CallEnds ==
    ASSUME IInv, op' = [op EXCEPT !["handler"] = None], UNCHANGED params
    PROVE  /\ op' \in [Actors -> Op \cup {None}] /\ op'["handler"] = None
           /\ UNCHANGED tweaks => Untouched' /\ TweaksKept'
           /\ SourcesStay' /\ Copies'
           /\ \A e : Present(e)' = Present(e)
<1>1. SourcesStay' /\ \A e : Present(e)' = Present(e)
  BY ParamsStay DEF IInv
<1>2. UNCHANGED tweaks => Untouched' /\ TweaksKept'
  BY DEF IInv, TypeOK, Untouched, TweaksKept, Actors
<1> QED BY <1>1, <1>2 DEF IInv, TypeOK, Copies, Actors

LEMMA CreatedKeeps ==
    ASSUME IInv, Created
    PROVE  IInv'
<1> USE DEF IInv, TypeOK, Created, Finished, hist
<1>1. TypeOK' /\ Phases' /\ DeletesAll' /\ SourcesStay' /\ Copies' /\ Untouched' /\ TweaksKept'
  BY CallEnds DEF Phases, DeletesAll
<1>2. NoLeftovers' /\ Cloned'
  BY CallEnds DEF NoLeftovers, Cloned
<1> QED BY <1>1, <1>2

LEMMA CreateFailsKeeps ==
    ASSUME IInv, CreateFails
    PROVE  IInv'
<1> USE DEF IInv, TypeOK, CreateFails
<1>1. target \in Targets
  BY DEF Phases
<1>2. TypeOK' /\ Phases' /\ DeletesAll' /\ SourcesStay' /\ Copies' /\ Untouched' /\ TweaksKept'
  BY <1>1, CallEnds DEF Phases, DeletesAll
<1>3. NoLeftovers' /\ Cloned'
  BY <1>1, CallEnds DEF NoLeftovers, Cloned
<1> QED BY <1>2, <1>3

LEMMA DeletedKeeps ==
    ASSUME IInv, Deleted
    PROVE  IInv'
<1> USE DEF IInv, TypeOK, Deleted, Finished, hist
<1>1. op["handler"].env = target /\ op["handler"] # None
  BY DEF Phases
<1>2. TypeOK' /\ Phases' /\ DeletesAll' /\ SourcesStay' /\ Copies' /\ Untouched' /\ TweaksKept'
  BY <1>1, CallEnds DEF Phases, DeletesAll
<1>3. NoLeftovers' /\ Cloned'
  BY <1>1, CallEnds DEF NoLeftovers, Cloned, DeletesAll
<1> QED BY <1>2, <1>3
-------------------------------------------------------------------------------
LEMMA StepIInv == IInv /\ [Next]_vars => IInv'
<1> SUFFICES ASSUME IInv, [Next]_vars PROVE IInv'
  OBVIOUS
<1>1. CASE \E e \in Targets : CatchUp(e) \/ CreateStack(e) \/ UpdateStack(e)
  BY <1>1, CatchUpKeeps, CreateStackKeeps, UpdateStackKeeps
<1>2. CASE \E e \in Used : CliBegins(e) \/ \E n \in Tweaked : Push(e, n)
  BY <1>2, CliBeginsKeeps, PushKeeps, BoundsAssumption
<1>3. CASE \E a \in Actors : PutNext(a) \/ DeleteNext(a)
  BY <1>3, PutNextKeeps, DeleteNextKeeps
<1>4. CASE CliEnds \/ Created \/ CreateFails
  BY <1>4, CliEndsKeeps, CreatedKeeps, CreateFailsKeeps
<1>5. CASE DeleteStack \/ Deleted
  BY <1>5, DeleteStackKeeps, DeletedKeeps
<1>6. CASE UNCHANGED vars
  BY <1>6 DEF vars, IInv, TypeOK, SourcesStay, Phases, Copies, DeletesAll, NoLeftovers,
              Cloned, Present, Untouched, TweaksKept
<1> QED BY <1>1, <1>2, <1>3, <1>4, <1>5, <1>6 DEF Next

THEOREM EphemeralIInv == Spec => []IInv
  BY InitIInv, StepIInv, PTL DEF Spec

(* Every environment, call and phase of the stack has its type             *)
(* (packages/config and the EphemeralConfig custom resource).              *)
THEOREM EphemeralTypeOK == Spec => []TypeOK
<1>1. IInv => TypeOK
  BY DEF IInv
<1> QED BY <1>1, EphemeralIInv, PTL

(* An environment no stack has is empty, unless its create failed, an      *)
(* update moved the stack away from it or somebody wrote to it, for every  *)
(* size of a batch of deleteSsmNamespace and whatever a listing shows.     *)
THEOREM EphemeralNoLeftovers == Spec => []NoLeftovers
<1>1. IInv => NoLeftovers
  BY DEF IInv
<1> QED BY <1>1, EphemeralIInv, PTL

LEMMA ProvidersGrow ==
    ASSUME NEW s, NEW t, \A n \in Names : s[n] # None => t[n] # None
    PROVE  Providers(s) \subseteq Providers(t)
<1>1. {n \in Names : s[n] # None} \subseteq {n \in Names : t[n] # None}
  OBVIOUS
<1> QED BY <1>1 DEF Providers

(* An environment that was cloned boots with a secret of its own and with  *)
(* every provider of its source: a clone that succeeded has put all that   *)
(* the source has, under the last part of its name, where toLeafMap finds  *)
(* it again (cloneSsmNamespace, loadSsmConfig).                            *)
THEOREM EphemeralBootsConfigured == Spec => []BootsConfigured
<1>1. IInv => BootsConfigured
  <2> USE DEF IInv, TypeOK
  <2> SUFFICES ASSUME IInv, phase = "active", target \in cloned
               PROVE  /\ Loaded(target)["jwt-secret"] = target
                      /\ Providers(Loaded(Source)) \subseteq Providers(Loaded(target))
    BY DEF BootsConfigured
  <2>1. target \in Envs /\ target # None /\ Source # None /\ Shared # None
    BY ConfigAssumption DEF Envs
  <2>2. \A n \in Present(Source) : Leaf[n] \in Present(target)
    BY ConfigAssumption DEF Cloned, Present
  <2>3. \A n \in Present(Source) : Leaf[n] \in Leaves(target)
    BY <2>2, LeafAssumption, ConfigAssumption DEF Leaves, Present
  <2>4. Leaves(Source) \subseteq Leaves(target)
    BY <2>3 DEF Leaves
  <2>5. PICK n \in Provisioned[Source] : Leaf[n] = "jwt-secret"
    BY SourceAssumption
  <2>6. n \in Names /\ Leaf[n] \in Names
    BY ConfigAssumption
  <2>7. params[Source][n] = "source" /\ n \in Present(Source)
    BY <2>6, NoneAssumption DEF SourcesStay, Present, Values
  <2>8. Loaded(target)["jwt-secret"] = target
    BY <2>3, <2>5, <2>6, <2>7 DEF Loaded
  <2>9. \A m \in Names : Loaded(Source)[m] # None => Loaded(target)[m] # None
    BY <2>1, <2>4 DEF Loaded
  <2> QED BY <2>8, <2>9, ProvidersGrow
<1> QED BY <1>1, EphemeralIInv, PTL

(* A parameter set by hand while the stack is up stays as it was set until *)
(* somebody asks for a clone or a delete of its environment: whatever a    *)
(* handler or a command line does goes to an environment nobody has        *)
(* tweaked since, and an update calls nothing (handler, cli).              *)
THEOREM EphemeralTweaksKept == Spec => []TweaksKept
<1>1. IInv => TweaksKept
  BY DEF IInv
<1> QED BY <1>1, EphemeralIInv, PTL
================================================================================
