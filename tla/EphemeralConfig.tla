----------------------------- MODULE EphemeralConfig -----------------------------
(***************************************************************************)
(* packages/config over SSM parameters, the EphemeralConfig custom         *)
(* resource of packages/cdk, and what packages/auth boots with.  A stack   *)
(* gets an environment cloned from a source and gives it up when it is     *)
(* deleted, while somebody uses the CLI.  Every SSM call is a step and may *)
(* fail.  CloudFormation and the provider framework are external: a create *)
(* that failed is not followed by a Delete, a changed physical id is, and  *)
(* a deployment updates the handler's role before its resource.            *)
(***************************************************************************)
EXTENDS Naturals, FiniteSets

CONSTANTS
    Source, Shared, Targets,    \* environments of the namespace
    Names,              \* names of parameters, below their environment
    Leaf,               \* the last part of each name (leafName)
    Provisioned,        \* the names in the source, and in shared
    Tweaked, Used,      \* bounds: the names pushed by hand, and the environments
                        \* the command line is used on
    DELETE_BATCH_SIZE,
    None

Envs == Targets \cup {Source, Shared}
Values == {"source", "hand"}    \* where a value comes from

ASSUME ConfigAssumption ==
    /\ Source # Shared /\ {Source, Shared} \cap Targets = {} /\ None \notin Envs
    /\ Leaf \in [Names -> Names] /\ Provisioned \in [{Source, Shared} -> SUBSET Names]
    /\ DELETE_BATCH_SIZE \in Nat \ {0}

Actors == {"handler", "cli"}
Op == [kind : {"clone", "delete"}, env : Targets, todo : SUBSET Names]

ASSUME BoundsAssumption == Tweaked \subseteq Names /\ Used \subseteq Targets
ASSUME NoneAssumption == None \notin Values \cup Op
\* leafName of a last part is itself; the source has a secret to boot with.
ASSUME LeafAssumption == \A n \in Names : Leaf[Leaf[n]] = Leaf[n]
ASSUME SourceAssumption == \E n \in Provisioned[Source] : Leaf[n] = "jwt-secret"

VARIABLES
    params,             \* per environment and name, a value or None
    ghosts,             \* deleted parameters that a listing still shows
    op,                 \* per actor, the clone or delete under way
    phase, target,      \* the stack: what CloudFormation does, its TargetEnv
    cloned,             \* history: environments a Create was made of, which did not
                        \* fail, and that nobody has deleted from since
    dirty,              \* history: environments left by a create that failed, or
                        \* written to by hand, with no delete of them to follow
    moved,              \* history: environments an update has moved the stack from
    tweaks              \* history: the parameters set by hand in the environment of
                        \* a stack that is up, until somebody asks for a clone or
                        \* a delete of it

hist == <<cloned, dirty, moved, tweaks>>
vars == <<params, ghosts, op, phase, target, cloned, dirty, moved, tweaks>>

TypeOK ==
    /\ params \in [Envs -> [Names -> Values \cup {None}]]
    /\ ghosts \subseteq Targets \X Names
    /\ op \in [Actors -> Op \cup {None}]
    /\ phase \in {"none", "creating", "active", "deleting"}
    /\ target \in Targets \cup {None}
    /\ cloned \subseteq Targets /\ dirty \subseteq Targets /\ moved \subseteq Targets
    /\ tweaks \subseteq Targets \X Names

Init ==
    /\ params = [e \in Envs |-> [n \in Names |->
           IF e \in {Source, Shared} /\ n \in Provisioned[e] THEN "source" ELSE None]]
    /\ ghosts = {}
    /\ op = [a \in Actors |-> None]
    /\ phase = "none" /\ target = None
    /\ cloned = {} /\ dirty = {} /\ moved = {} /\ tweaks = {}

Present(e) == {n \in Names : params[e][n] # None}
\* Whether the stack keeps an environment, with a Delete of it to come.
Kept(e) == phase = "active" /\ target = e

-------------------------------------------------------------------------------
(* packages/config. *)

\* Names as GetParametersByPath lists them: it lags behind a delete.
Listings(e) == {Present(e) \cup g : g \in SUBSET {n \in Names : <<e, n>> \in ghosts}}

Put(e, n, v) ==
    /\ params' = [params EXCEPT ![e][n] = v]
    /\ ghosts' = ghosts \ {<<e, n>>}

Clone(a, e) == op' = [op EXCEPT ![a] = [kind |-> "clone", env |-> e, todo |-> Present(Source)]]

\* Mutant of Delete: of the stack's environment, whichever was asked for.
DeleteOwn(a, e) ==
    \E listed \in Listings(e) :
        op' = [op EXCEPT ![a] = [kind |-> "delete", env |-> target, todo |-> listed]]

Delete(a, e) ==
    \E listed \in Listings(e) :
        op' = [op EXCEPT ![a] = [kind |-> "delete", env |-> e, todo |-> listed]]

\* pushSsmConfig, of one non-empty value.
Push(e, n) ==
    /\ op["cli"] = None
    /\ Put(e, n, "hand")
    /\ IF Kept(e) THEN tweaks' = tweaks \cup {<<e, n>>} /\ UNCHANGED dirty
                  ELSE dirty' = dirty \cup {e} /\ UNCHANGED tweaks
    /\ UNCHANGED <<op, phase, target, cloned, moved>>

Untweaked(e) == tweaks \ ({e} \X Names)

\* cloneSsmNamespace or deleteSsmNamespace from the command line.
CliBegins(e) ==
    /\ op["cli"] = None
    /\ \/ Clone("cli", e) /\ dirty' = IF Kept(e) THEN dirty ELSE dirty \cup {e}
       \/ Delete("cli", e) /\ UNCHANGED dirty
    /\ tweaks' = Untweaked(e)
    /\ UNCHANGED <<params, ghosts, phase, target, cloned, moved>>

\* One PutParameter of a clone, under the last part of the name.
PutNext(a) ==
    /\ op[a] # None /\ op[a].kind = "clone"
    /\ \E n \in op[a].todo :
           /\ Put(op[a].env, Leaf[n], params[Source][n])
           /\ op' = [op EXCEPT ![a].todo = @ \ {n}]
    /\ dirty' = IF Kept(op[a].env) \/ a = "handler" THEN dirty ELSE dirty \cup {op[a].env}
    /\ UNCHANGED <<phase, target, cloned, moved, tweaks>>

\* DeleteParameters takes at most DELETE_BATCH_SIZE names.
Batch(todo, b) ==
    /\ b \subseteq todo /\ Cardinality(b) <= DELETE_BATCH_SIZE
    /\ Cardinality(b) = DELETE_BATCH_SIZE \/ b = todo

\* Mutant of DeleteNext: only the first batch is deleted.
DeleteFirst(a) ==
    /\ op[a] # None /\ op[a].kind = "delete" /\ op[a].todo # {}
    /\ \E b \in SUBSET op[a].todo :
           LET e == op[a].env IN
           /\ Batch(op[a].todo, b)
           /\ params' = [params EXCEPT ![e] = [n \in Names |-> IF n \in b THEN None ELSE @[n]]]
           /\ op' = [op EXCEPT ![a].todo = {}]
           /\ cloned' = cloned \ {e}
    /\ UNCHANGED <<ghosts, phase, target, dirty, moved, tweaks>>

DeleteNext(a) ==
    /\ op[a] # None /\ op[a].kind = "delete" /\ op[a].todo # {}
    /\ \E b \in SUBSET op[a].todo :
           LET e == op[a].env IN
           /\ Batch(op[a].todo, b)
           /\ params' = [params EXCEPT ![e] = [n \in Names |-> IF n \in b THEN None ELSE @[n]]]
           /\ ghosts' \in {g \cup (ghosts \ ({e} \X b)) : g \in SUBSET ({e} \X (b \cap Present(e)))}
           /\ op' = [op EXCEPT ![a].todo = @ \ b]
           /\ cloned' = cloned \ {e}
    /\ UNCHANGED <<phase, target, dirty, moved, tweaks>>

Finished(a) == op[a] # None /\ op[a].todo = {}

CliEnds ==
    /\ op["cli"] # None     \* done, or some call has failed
    /\ op' = [op EXCEPT !["cli"] = None]
    /\ UNCHANGED <<params, ghosts, phase, target, hist>>

\* Listings catch up.
CatchUp(e) ==
    /\ \E n \in Names : <<e, n>> \in ghosts
    /\ ghosts' = ghosts \ ({e} \X Names)
    /\ UNCHANGED <<params, op, phase, target, hist>>

-------------------------------------------------------------------------------
(* The custom resource: its handler, as CloudFormation calls it. *)

CreateStack(e) ==
    /\ phase = "none"
    /\ phase' = "creating" /\ target' = e
    /\ Clone("handler", e)
    /\ cloned' = cloned \cup {e} /\ tweaks' = Untweaked(e)
    /\ UNCHANGED <<params, ghosts, dirty, moved>>

Created ==
    /\ phase = "creating" /\ Finished("handler")
    /\ op' = [op EXCEPT !["handler"] = None]
    /\ phase' = "active"
    /\ UNCHANGED <<params, ghosts, target, hist>>

\* A call fails, or the 30 seconds of the function are over: the stack is rolled
\* back, and the handler is not asked to delete what it had written.
CreateFails ==
    /\ phase = "creating"
    /\ op' = [op EXCEPT !["handler"] = None]
    /\ phase' = "none" /\ target' = None
    /\ dirty' = dirty \cup {target} /\ cloned' = cloned \ {target}
    /\ UNCHANGED <<params, ghosts, moved, tweaks>>

\* Mutant of UpdateStack: an update clones again.
UpdateStackClones(e) ==
    /\ phase = "active" /\ e = target
    /\ Clone("handler", e)
    /\ UNCHANGED <<params, ghosts, phase, target, hist>>

\* The handler does nothing on Update.  With another TargetEnv its answer has
\* another physical id, so that a Delete of the old one follows: but the role is
\* that of the new TargetEnv by then, and not granted to list or delete under
\* the old one.  CloudFormation completes the update without its clean-up.
UpdateStack(e) ==
    /\ phase = "active" /\ e # target
    /\ target' = e
    /\ moved' = (moved \cup {target}) \ {e} /\ dirty' = dirty \ {e}
    /\ UNCHANGED <<params, ghosts, op, phase, cloned, tweaks>>

DeleteStack ==
    /\ phase = "active"
    /\ phase' = "deleting"
    /\ Delete("handler", target)
    /\ dirty' = dirty \ {target} /\ tweaks' = Untweaked(target)
    /\ UNCHANGED <<params, ghosts, target, cloned, moved>>

\* A failed Delete leaves the stack, to be deleted again.
Deleted ==
    /\ phase = "deleting"
    /\ op' = [op EXCEPT !["handler"] = None]
    /\ IF Finished("handler") THEN phase' = "none" /\ target' = None
                              ELSE phase' = "active" /\ UNCHANGED target
    /\ UNCHANGED <<params, ghosts, hist>>

Next ==
    \/ \E e \in Targets : CatchUp(e) \/ CreateStack(e) \/ UpdateStack(e)
    \/ \E e \in Used : CliBegins(e) \/ \E n \in Tweaked : Push(e, n)
    \/ \E a \in Actors : PutNext(a) \/ DeleteNext(a)
    \/ CliEnds \/ Created \/ CreateFails \/ DeleteStack \/ Deleted

Spec == Init /\ [][Next]_vars
-------------------------------------------------------------------------------
(* What the application boots with. *)

\* toLeafMap: a value is found under the last part of its name.
Leaves(e) == {Leaf[n] : n \in Present(e)}

\* Mutant of Loaded: shared is merged over the environment.
LoadedShared(e) ==
    [n \in Names |-> IF n \in Leaves(Shared) THEN Shared
                     ELSE IF n \in Leaves(e) THEN e ELSE None]

\* loadSsmConfig: per name, where its value comes from; the environment wins over
\* shared.
Loaded(e) ==
    [n \in Names |-> IF n \in Leaves(e) THEN e
                     ELSE IF n \in Leaves(Shared) THEN Shared ELSE None]

\* The sign-in providers of buildMycotaAuthConfigFromSsm.
Providers(ssm) ==
    LET set == {n \in Names : ssm[n] # None} IN
    {p \in {"github", "apple", "facebook"} :
        CASE p = "github" -> {"github-client-id", "github-client-secret"} \cap set # {}
          [] p = "apple" -> {"apple-client-id", "apple-private-key"} \subseteq set
          [] OTHER -> "facebook-client-id" \in set}
-------------------------------------------------------------------------------
(* Secrets do not linger: an environment no stack has is empty, unless its *)
(* Create failed, an update moved the stack away from it or somebody wrote *)
(* to it when no Delete was to follow (deleteSsmNamespace in its batches). *)
NoLeftovers ==
    \A e \in Targets : e # target /\ e \notin dirty \cup moved => Present(e) = {}

(* A created environment boots with a secret of its own and offers every   *)
(* provider its source does, whatever was pushed to it meanwhile, until    *)
(* somebody deletes from it (cloneSsmNamespace, loadSsmConfig).            *)
BootsConfigured ==
    phase = "active" /\ target \in cloned =>
        /\ Loaded(target)["jwt-secret"] = target
        /\ Providers(Loaded(Source)) \subseteq Providers(Loaded(target))

(* What somebody sets by hand in the environment of a stack that is up is  *)
(* never silently overwritten: not by what is left of its create, not by   *)
(* updates and moves of the stack nor by another environment's deletes,    *)
(* until somebody asks for a clone or a delete of that environment.        *)
TweaksKept == \A t \in tweaks : params[t[1]][t[2]] = "hand"
================================================================================
