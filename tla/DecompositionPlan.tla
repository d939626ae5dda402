------------------------- MODULE DecompositionPlan -------------------------
(***************************************************************************)
(* Decomposition plans: src/application/decomposition-plan.ts.             *)
(*                                                                         *)
(* A draft breaks a root work item into nodes that depend on each other.   *)
(* It is prepared against the registry of digital employees and the work   *)
(* items, shown to a person, approved, stored, and parsed again from the   *)
(* store at every start.  Ids are numbers, < stands for compareStrings.    *)
(*                                                                         *)
(* Abstracted: instructions, descriptions, time limits, byte limits and    *)
(* the exact shape of the JSON records.                                    *)
(***************************************************************************)
EXTENDS Naturals, Sequences, FiniteSets

LOCAL INSTANCE SequencesExt
LOCAL INSTANCE FiniteSetsExt

CONSTANTS
    MaxNodes,  \* MAX_NODES
    MaxEdges   \* MAX_EDGES

\* A node: [nodeId, workItemId, dependsOn, owner, skills, criteria].
\* A draft: [root, maxQueued, nodes], nodes a sequence in the author's order.
\* The registry: a function from the runner ids it knows to
\* [revision, skills]; a skill stands for a tag, a handoff kind or an access.

-----------------------------------------------------------------------------
(* The graph.                                                              *)

NodeIds(nodes) == {nodes[i].nodeId : i \in DOMAIN nodes}
WorkItems(nodes) == {nodes[i].workItemId : i \in DOMAIN nodes}
NodeOf(nodes, id) == CHOOSE n \in Range(nodes) : n.nodeId = id
EdgeCount(nodes) == FoldSeq(LAMBDA n, count : count + Cardinality(n.dependsOn), 0, nodes)

\* validateUniqueNodes
UniqueNodes(nodes) ==
    /\ Cardinality(NodeIds(nodes)) = Len(nodes)
    /\ Cardinality(WorkItems(nodes)) = Len(nodes)
    /\ EdgeCount(nodes) <= MaxEdges

\* Mutant: a node is released by the first of its dependencies.
ReleasedByOne(nodes, order) ==
    {id \in NodeIds(nodes) \ Range(order) :
        \/ NodeOf(nodes, id).dependsOn = {}
        \/ NodeOf(nodes, id).dependsOn \cap Range(order) # {}}

\* Nodes whose indegree has come down to 0 and that were not shifted yet.
Released(nodes, order) ==
    {id \in NodeIds(nodes) \ Range(order) : NodeOf(nodes, id).dependsOn \subseteq Range(order)}

\* Kahn's algorithm: shift the smallest released node until none is left.
KahnSteps(nodes) ==
    LET order[i \in 0..Len(nodes)] ==
            IF i = 0 THEN <<>>
            ELSE LET released == Released(nodes, order[i - 1])
                 IN  IF released = {} THEN order[i - 1]
                     ELSE Append(order[i - 1], Min(released))
    IN  order[Len(nodes)]

KnownDependencies(nodes) ==
    \A n \in Range(nodes) : n.dependsOn \subseteq NodeIds(nodes) \ {n.nodeId}

\* computeTopologicalOrder throws unless every node was shifted.
HasOrder(nodes) == KnownDependencies(nodes) /\ Len(KahnSteps(nodes)) = Len(nodes)

TopologicalOrder(nodes) == KahnSteps(nodes)

-----------------------------------------------------------------------------
(* prepareDecompositionPlan                                                *)

\* The owner is registered and has what the node asks for.
OwnerFits(registry, n) ==
    n.owner \in DOMAIN registry /\ n.skills \subseteq registry[n.owner].skills

\* decodeDraftNode; required gives the evidence contract of each work item
\* that exists.
DraftNodeIsValid(n, draft, registry, required) ==
    /\ n.workItemId # draft.root
    /\ n.workItemId \in DOMAIN required
    /\ OwnerFits(registry, n)
    /\ n.criteria = required[n.workItemId]

CanPrepare(draft, registry, required) ==
    /\ Len(draft.nodes) \in 1..MaxNodes
    /\ Len(draft.nodes) <= draft.maxQueued
    /\ draft.root \in DOMAIN required
    /\ \A n \in Range(draft.nodes) : DraftNodeIsValid(n, draft, registry, required)
    /\ UniqueNodes(draft.nodes)
    /\ HasOrder(draft.nodes)

\* The node with its owner's profile revision in place of the mere name.
PreparedNode(n, registry) ==
    [nodeId |-> n.nodeId, workItemId |-> n.workItemId, dependsOn |-> n.dependsOn,
     owner |-> [runnerId |-> n.owner, revision |-> registry[n.owner].revision],
     skills |-> n.skills, criteria |-> n.criteria]

SortedById(nodes) == SortSeq(nodes, LAMBDA m, n : m.nodeId < n.nodeId)

Prepared(draft, registry) ==
    [root |-> draft.root, maxQueued |-> draft.maxQueued,
     nodes |-> SortedById([i \in DOMAIN draft.nodes |-> PreparedNode(draft.nodes[i], registry)]),
     topologicalOrder |-> TopologicalOrder(draft.nodes)]

-----------------------------------------------------------------------------
(* parsePreparedDecompositionPlan: what the store holds is checked again.  *)
CanParse(plan) ==
    /\ Len(plan.nodes) \in 1..MaxNodes
    /\ UniqueNodes(plan.nodes)
    /\ plan.root \notin WorkItems(plan.nodes)
    /\ HasOrder(plan.nodes)
    /\ plan.topologicalOrder = TopologicalOrder(plan.nodes)
    /\ Len(plan.nodes) <= plan.maxQueued

Parsed(plan) ==
    [plan EXCEPT !.nodes = SortedById(plan.nodes),
                 !.topologicalOrder = TopologicalOrder(plan.nodes)]

\* DigitalEmployeeRegistry.matches: the owner is still the one approved.
Matches(registry, node) ==
    /\ node.owner.runnerId \in DOMAIN registry
    /\ registry[node.owner.runnerId].revision = node.owner.revision
    /\ node.skills \subseteq registry[node.owner.runnerId].skills

-----------------------------------------------------------------------------
(* What a prepared plan promises, without the algorithm.                   *)

\* Everything a node waits for, directly or not.
Ancestors(nodes, id) ==
    LET reach[k \in 0..Len(nodes)] ==
            IF k = 0 THEN NodeOf(nodes, id).dependsOn
            ELSE reach[k - 1] \cup
                 UNION {NodeOf(nodes, d).dependsOn : d \in reach[k - 1] \cap NodeIds(nodes)}
    IN  reach[Len(nodes)]

IsPlanGraph(nodes) ==
    \A id \in NodeIds(nodes) : Ancestors(nodes, id) \subseteq NodeIds(nodes) \ {id}

Position(order, id) == CHOOSE i \in DOMAIN order : order[i] = id

\* Every node once, after all it depends on, and whenever a node could have
\* come earlier a smaller one stands in its way.
IsStableOrder(nodes, order) ==
    /\ Len(order) = Len(nodes) /\ Range(order) = NodeIds(nodes)
    /\ \A id \in NodeIds(nodes) : \A d \in NodeOf(nodes, id).dependsOn :
            Position(order, d) < Position(order, id)
    /\ \A i, j \in DOMAIN order :
            (i < j /\ order[j] < order[i])
                => \E d \in Ancestors(nodes, order[j]) : Position(order, d) >= i

\* A draft has an order exactly when nothing in it waits for itself or for what is
\* not there; what is prepared is parsed again and found the same, in a stable order.
OrderIsRight(draft, registry, required) ==
    /\ HasOrder(draft.nodes) <=> IsPlanGraph(draft.nodes)
    /\ CanPrepare(draft, registry, required) =>
        LET plan == Prepared(draft, registry) IN
        /\ CanParse(plan)
        /\ Parsed(plan) = plan
        /\ IsStableOrder(plan.nodes, plan.topologicalOrder)
=============================================================================
