---------------------------- MODULE Dependencies ----------------------------
(***************************************************************************)
(* The dependency graph of features, and the blocked_by graph of tasks:    *)
(* add_dependency with its depth-first search has_cycle, remove_dependency, *)
(* and their task twins (src/src/board/services.py). The two are the same  *)
(* algorithm over different tables; a node is a feature or a task.         *)
(*                                                                         *)
(* The search reads each node's dependencies with a query of its own, and  *)
(* the edge is inserted after it: other requests come in between. The      *)
(* search's stack is a set: in which order nodes are popped is left open.  *)
(***************************************************************************)
EXTENDS Naturals

CONSTANTS
    Nodes, Requests,
    NoNode,
    ProjectOf   \* the project of each node

ASSUME NoNodeAssumption == NoNode \notin Nodes

VARIABLES
    edges,              \* <<n, m>>: n depends on m
    pc, from, to,       \* add requests: their step and the edge asked for
    stack, visited,     \* and their search
    serial              \* history: no two requests to add have overlapped so far

search == <<from, to, stack, visited>>
graphVars == <<edges, pc, search, serial>>

GraphTypeOK ==
    /\ edges \subseteq Nodes \X Nodes
    /\ pc \in [Requests -> {"idle", "search", "insert"}]
    /\ from \in [Requests -> Nodes \cup {NoNode}]
    /\ to \in [Requests -> Nodes \cup {NoNode}]
    /\ stack \in [Requests -> SUBSET Nodes]
    /\ visited \in [Requests -> SUBSET Nodes]
    /\ serial \in BOOLEAN

GraphInit ==
    /\ edges = {}
    /\ pc = [r \in Requests |-> "idle"]
    /\ from = [r \in Requests |-> NoNode]
    /\ to = [r \in Requests |-> NoNode]
    /\ stack = [r \in Requests |-> {}]
    /\ visited = [r \in Requests |-> {}]
    /\ serial = TRUE

-----------------------------------------------------------------------------
\* get_feature_dependencies, get_task_dependencies
Deps(n) == {m \in Nodes : <<n, m>> \in edges}

Respond(r) ==
    /\ pc' = [pc EXCEPT ![r] = "idle"]
    /\ from' = [from EXCEPT ![r] = NoNode]
    /\ to' = [to EXCEPT ![r] = NoNode]
    /\ stack' = [stack EXCEPT ![r] = {}]
    /\ visited' = [visited EXCEPT ![r] = {}]

\* The checks before the search; a request that fails one changes nothing.
AddDependency(r, a, b) ==
    /\ pc[r] = "idle"
    /\ a # b /\ ProjectOf[a] = ProjectOf[b] /\ <<a, b>> \notin edges
    /\ pc' = [pc EXCEPT ![r] = "search"]
    /\ from' = [from EXCEPT ![r] = a]
    /\ to' = [to EXCEPT ![r] = b]
    /\ stack' = [stack EXCEPT ![r] = {b}]
    /\ visited' = [visited EXCEPT ![r] = {}]
    /\ serial' = (serial /\ \A s \in Requests : pc[s] = "idle")
    /\ UNCHANGED edges

\* Mutant: nodes are searched again each time they are reached.
PopUnmarked(r, n) ==
    /\ pc[r] = "search" /\ n \in stack[r] /\ n # from[r]
    /\ stack' = [stack EXCEPT ![r] = (@ \ {n}) \cup Deps(n)]
    /\ UNCHANGED <<edges, pc, from, to, visited, serial>>

\* One turn of the loop on a node that is not the one looked for.
Pop(r, n) ==
    /\ pc[r] = "search" /\ n \in stack[r] /\ n # from[r]
    /\ stack' = [stack EXCEPT ![r] = (@ \ {n}) \cup (IF n \in visited[r] THEN {} ELSE Deps(n))]
    /\ visited' = [visited EXCEPT ![r] = @ \cup {n}]
    /\ UNCHANGED <<edges, pc, from, to, serial>>

\* Mutant: the found cycle is not reported.
FoundIgnored(r) ==
    /\ pc[r] = "search" /\ from[r] \in stack[r]
    /\ stack' = [stack EXCEPT ![r] = {}]
    /\ UNCHANGED <<edges, pc, from, to, visited, serial>>

\* The edge would close a cycle: refused.
CycleFound(r) ==
    /\ pc[r] = "search" /\ from[r] \in stack[r]
    /\ Respond(r)
    /\ UNCHANGED <<edges, serial>>

NotFound(r) ==
    /\ pc[r] = "search" /\ stack[r] = {}
    /\ pc' = [pc EXCEPT ![r] = "insert"]
    /\ UNCHANGED <<edges, search, serial>>

\* The insert; if the edge is there by now, the key constraint refuses it.
InsertEdge(r) ==
    /\ pc[r] = "insert"
    /\ edges' = edges \cup {<<from[r], to[r]>>}
    /\ Respond(r)
    /\ UNCHANGED serial

\* remove_dependency; a deleted node loses its edges the same way.
RemoveDependency(a, b) ==
    /\ <<a, b>> \in edges
    /\ edges' = edges \ {<<a, b>>}
    /\ UNCHANGED <<pc, search, serial>>

Step(r) == CycleFound(r) \/ NotFound(r) \/ InsertEdge(r) \/ \E n \in Nodes : Pop(r, n)

GraphNext ==
    \/ \E r \in Requests : Step(r) \/ \E a, b \in Nodes : AddDependency(r, a, b)
    \/ \E a, b \in Nodes : RemoveDependency(a, b)

GraphSpec == GraphInit /\ [][GraphNext]_graphVars

\* A request that runs is not abandoned.
FairSpec == GraphSpec /\ \A r \in Requests : WF_graphVars(Step(r))

\* As long as dependencies are added only, however many requests overlap.
GrowSpec == GraphInit /\ [][GraphNext /\ edges \subseteq edges']_graphVars

-----------------------------------------------------------------------------
(* Properties *)

\* No set of nodes each of which depends on another of the set: every
\* non-empty set has a node with no dependency in it.
Acyclic ==
    \A S \in (SUBSET Nodes) \ {{}} : \E n \in S : \A m \in S : <<n, m>> \notin edges

\* As long as adds come one at a time the graph is acyclic, also when edges are
\* removed in the middle of a search.
SerialAcyclic == serial => Acyclic

\* No dependency crosses projects, although the check is made long before the insert.
SameProject == \A e \in edges : ProjectOf[e[1]] = ProjectOf[e[2]]

\* The nodes of S, all of them, could follow each other round for ever.
HasCycle(S, E) == S # {} /\ \A n \in S : \E m \in S : <<n, m>> \in E

\* The search refuses no innocent edge: with the one that it refuses there would be
\* a cycle. It holds if nothing is removed meanwhile, under GrowSpec.
OnlyCyclesRefused ==
    [][\A r \in Requests : CycleFound(r) =>
         \E S \in SUBSET Nodes : HasCycle(S, edges \cup {<<from[r], to[r]>>})]_graphVars

\* The search ends, also in a graph that has got a cycle and while edges come and go.
SearchEnds == \A r \in Requests : pc[r] = "search" ~> pc[r] # "search"

-----------------------------------------------------------------------------
(* What the proofs add: the search of a waiting request covers what its    *)
(* target reaches, without meeting its source.                             *)

Covered(r) ==
    /\ to[r] \in stack[r] \cup visited[r]
    /\ from[r] \notin visited[r]
    /\ \A n \in visited[r] : \A m \in Nodes : <<n, m>> \in edges => m \in stack[r] \cup visited[r]

SearchInv ==
    serial => \A r \in Requests : pc[r] # "idle" =>
        /\ \A s \in Requests : s # r => pc[s] = "idle"
        /\ from[r] \in Nodes /\ to[r] \in Nodes /\ from[r] # to[r]
        /\ Covered(r)
        /\ pc[r] = "insert" => stack[r] = {}

\* What is on the stack is reached from the target: it is in every set that holds the
\* target and all dependencies of its nodes.
Closed(C) == \A n \in C : Deps(n) \subseteq C

Reached ==
    \A r \in Requests : pc[r] = "search" =>
        \A C \in SUBSET Nodes : to[r] \in C /\ Closed(C) => stack[r] \subseteq C

\* An edge waiting to be inserted stays within a project.
ProjectInv ==
    /\ SameProject
    /\ \A r \in Requests : pc[r] # "idle" =>
         from[r] \in Nodes /\ to[r] \in Nodes /\ ProjectOf[from[r]] = ProjectOf[to[r]]

=============================================================================
