---------------------------- MODULE RenderGraph ----------------------------
(***************************************************************************)
(* FVizRenderGraph.c: passes, the resources they use, the order in which   *)
(* they run and the physical targets they share; and the list of passes    *)
(* from which FVizRenderer.c makes its own graph.                          *)
(***************************************************************************)
EXTENDS Integers, Sequences, SequencesExt, FiniteSetsExt, Functions

CONSTANTS
    Kinds,  \* resources: [target, external, transient]
    Stages, \* of the renderer's passes
    MaxPasses, MaxResources, MaxUses, MaxDependencies, None

VARIABLES
    passes,       \* sequence of names: a stage for the renderer's
    resources,    \* sequence of kinds
    dependencies, \* pairs of passes, before and after
    uses,         \* function from [pass, resource] to what is done: "read", "write", both
    plan,         \* what the last compilation made, or None: [order, life, slot, targets]
    list, dirty   \* the renderer's passes, or None when the program owns the graph

graphVars == <<passes, resources, dependencies, uses, plan, list, dirty>>

Init ==
    /\ passes = <<>> /\ resources = <<>>
    /\ dependencies = {} /\ uses = <<>>
    /\ plan = None
    /\ list \in {None, <<>>}
    /\ dirty = TRUE

-----------------------------------------------------------------------------
(* Compilation *)

Accesses == {{"read"}, {"write"}, {"read", "write"}}
Users(r) == {p \in DOMAIN passes : <<p, r>> \in DOMAIN uses}
Reads(p, r) == p \in Users(r) /\ "read" \in uses[<<p, r>>]
Writes(p, r) == p \in Users(r) /\ "write" \in uses[<<p, r>>]

\* Passes that use a resource keep their order, unless both only read.
HazardsOfWriters(p, q) == \E r \in DOMAIN resources : p \in Users(r) /\ Writes(q, r)
Hazards(p, q) ==
    \E r \in DOMAIN resources :
        /\ p \in Users(r) /\ q \in Users(r)
        /\ Writes(p, r) \/ Writes(q, r)
Edges ==
    dependencies \cup {e \in (DOMAIN passes) \X (DOMAIN passes) : e[1] < e[2] /\ Hazards(e[1], e[2])}

ReadsBeforeWrite ==
    \E r \in DOMAIN resources, p \in DOMAIN passes :
        Reads(p, r) /\ ~resources[r].external /\ ~\E q \in 1 .. p - 1 : Writes(q, r)

\* The first pass that waits for no other, as long as there is one.
EmitInto(edges) ==
    LET Emit(order, i) ==
            LET ready == {p \in DOMAIN passes :
                            /\ ~Contains(order, p)
                            /\ \A e \in edges : e[2] = p => Contains(order, e[1])}
            IN  IF ready = {} THEN order ELSE Append(order, Min(ready))
    IN  FoldLeft(Emit, <<>>, passes)

\* Positions in the order at which a resource is used.
Positions(order, r) == {i \in DOMAIN order : order[i] \in Users(r)}
Lives(order) ==
    [r \in DOMAIN resources |->
        IF Positions(order, r) = {} THEN None
        ELSE [first |-> Min(Positions(order, r)), last |-> Max(Positions(order, r))]]

\* The first target of that kind that nothing uses any more.
Reusable(target, r, life) ==
    /\ resources[r].transient
    /\ target.last < life.first /\ target.target = resources[r].target

AssignInto(lives) ==
    LET Assign(acc, r) ==
            LET free == {t \in DOMAIN acc.targets : Reusable(acc.targets[t], r, lives[r])}
                t == IF free = {} THEN Len(acc.targets) + 1 ELSE Min(free)
                used == [target |-> resources[r].target, last |-> lives[r].last]
            IN  IF resources[r].external \/ lives[r] = None THEN acc
                ELSE [slot |-> [acc.slot EXCEPT ![r] = t],
                      targets |-> IF free = {} THEN Append(acc.targets, used)
                                  ELSE [acc.targets EXCEPT ![t] = used]]
    IN  FoldLeft(Assign, [slot |-> [r \in DOMAIN resources |-> 0], targets |-> <<>>],
                 [r \in DOMAIN resources |-> r])

Plan(order, lives) ==
    [order |-> order, life |-> lives, slot |-> AssignInto(lives).slot,
     targets |-> AssignInto(lives).targets]

CompiledInto(order) ==
    IF ReadsBeforeWrite \/ Len(order) < Len(passes) THEN None ELSE Plan(order, Lives(order))
Compiled == CompiledInto(EmitInto(Edges))

-----------------------------------------------------------------------------
(* A graph of the program's *)

Mutate == list = None /\ plan' = None /\ UNCHANGED <<list, dirty>>

AddResource(kind) ==
    /\ Mutate /\ Len(resources) < MaxResources
    /\ resources' = Append(resources, kind)
    /\ UNCHANGED <<passes, dependencies, uses>>

AddPass ==
    /\ Mutate /\ Len(passes) < MaxPasses
    /\ passes' = Append(passes, "pass")
    /\ UNCHANGED <<resources, dependencies, uses>>

AddDependency(before, after) ==
    /\ before # after /\ <<before, after>> \notin dependencies
    /\ Mutate /\ Cardinality(dependencies) < MaxDependencies
    /\ dependencies' = dependencies \cup {<<before, after>>}
    /\ UNCHANGED <<passes, resources, uses>>

\* What a pass does with a resource adds up.
UseResource(p, r, access) ==
    /\ Mutate
    /\ IF p \in Users(r)
       THEN uses' = [uses EXCEPT ![<<p, r>>] = @ \cup access]
       ELSE /\ Cardinality(DOMAIN uses) < MaxUses
            /\ uses' = [u \in DOMAIN uses \cup {<<p, r>>} |->
                            IF u = <<p, r>> THEN access ELSE uses[u]]
    /\ UNCHANGED <<passes, resources, dependencies>>

Compile ==
    /\ list = None
    /\ plan' = Compiled
    /\ UNCHANGED <<passes, resources, dependencies, uses, list, dirty>>

Clear ==
    /\ Mutate
    /\ passes' = <<>> /\ resources' = <<>> /\ dependencies' = {} /\ uses' = <<>>

-----------------------------------------------------------------------------
(* The renderer's *)

unlisted == <<resources, dependencies, uses, passes, plan>>

\* Behind the passes of its own stage and of those before.
Place(stage) == Cardinality({i \in DOMAIN list : list[i] <= stage}) + 1

AddRendererPass(stage) ==
    /\ Len(list) < MaxPasses
    /\ list' = InsertAt(list, Place(stage), stage)
    /\ dirty' = TRUE
    /\ UNCHANGED unlisted

RemoveRendererPass(i) ==
    /\ list' = RemoveAt(list, i)
    /\ dirty' = TRUE
    /\ UNCHANGED unlisted

\* The scene, the camera or a pass was modified.
DependencyModified ==
    /\ list # None
    /\ dirty' = TRUE
    /\ UNCHANGED <<unlisted, list>>

CompileRenderer ==
    /\ list # None /\ (dirty \/ plan = None)
    /\ passes' = list /\ resources' = <<>> /\ uses' = <<>>
    /\ dependencies' = {<<i, i + 1>> : i \in 1 .. Len(list) - 1}
    /\ plan' = Compiled'
    /\ dirty' = (plan' = None)
    /\ UNCHANGED list

Next ==
    \/ AddPass \/ Compile \/ Clear
    \/ \E kind \in Kinds : AddResource(kind)
    \/ \E p, q \in DOMAIN passes : AddDependency(p, q)
    \/ \E p \in DOMAIN passes, r \in DOMAIN resources, a \in Accesses : UseResource(p, r, a)
    \/ DependencyModified \/ CompileRenderer
    \/ /\ list # None
       /\ \/ \E s \in Stages : AddRendererPass(s)
          \/ \E i \in DOMAIN list : RemoveRendererPass(i)

-----------------------------------------------------------------------------
Before(p, q) ==
    \E i, j \in DOMAIN plan.order : i < j /\ plan.order[i] = p /\ plan.order[j] = q

\* A compiled graph runs every pass once, after those it depends on; what a pass reads
\* of the graph's own targets was written before, by the last writer that was added
\* before it, and by no later one (docs/api/PUBLIC_API_CONTRACTS.md:108-110).
OrderRespectsUses ==
    plan # None =>
        /\ ToSet(plan.order) = DOMAIN passes /\ Len(plan.order) = Len(passes)
        /\ \A d \in dependencies : Before(d[1], d[2])
        /\ \A r \in DOMAIN resources, p \in DOMAIN passes :
            Reads(p, r) =>
                /\ resources[r].external \/ \E q \in DOMAIN passes : Writes(q, r) /\ Before(q, p)
                /\ \A q \in DOMAIN passes \ {p} : Writes(q, r) => (Before(q, p) <=> q < p)

\* Targets that are shared are alike, and used one after the other; external resources
\* have none.
SlotsApart ==
    plan # None =>
        \A r, s \in DOMAIN resources :
            /\ (plan.slot[r] = 0) <=> (resources[r].external \/ Users(r) = {})
            /\ (r # s /\ plan.slot[r] # 0 /\ plan.slot[r] = plan.slot[s]) =>
                /\ resources[r].target = resources[s].target
                /\ plan.life[r].last < plan.life[s].first \/ plan.life[s].last < plan.life[r].first

\* A renderer's passes run in the order of its list, which is that of their stages.
RendererOrder ==
    list # None =>
        /\ \A i, j \in DOMAIN list : i < j => list[i] <= list[j]
        /\ ~dirty => /\ plan # None /\ passes = list
                     /\ \A i \in DOMAIN plan.order : plan.order[i] = i
=============================================================================
