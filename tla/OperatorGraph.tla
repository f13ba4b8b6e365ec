---------------------------- MODULE OperatorGraph ---------------------------
(***************************************************************************)
(* The operator graph of one inference (OperatorGraph in                   *)
(* operator_scheduler.cpp) and its validate().  A graph is a record: size  *)
(* nodes, numbered as add() numbers them; dependencies[id], the set of ids *)
(* a node lists; repeated, the nodes that list some id twice.  The ready   *)
(* queue is a set, since the verdict does not depend on its order.         *)
(***************************************************************************)
EXTENDS Integers, FiniteSets

CONSTANT Graphs              \* the graphs to validate

Ids(g) == 0..(g.size - 1)

ASSUME GraphsAssumption ==
    \A g \in Graphs : /\ g.size \in Nat
                      /\ g.dependencies \in [Ids(g) -> SUBSET Nat]
                      /\ \A id \in Ids(g) : IsFiniteSet(g.dependencies[id])
                      /\ g.repeated \subseteq Ids(g)

VARIABLES
    graph, phase,
    scanned,                 \* how many nodes the first loop has looked at
    indegree, ready,
    visited,                 \* the counter the verdict is drawn from
    seen,                    \* history: the nodes that were visited
    status                   \* the returned StatusCode

graphVars == <<graph, phase, scanned, indegree, ready, visited, seen, status>>

ValidateInit ==
    /\ graph \in Graphs
    /\ phase = "scan"
    /\ scanned = 0
    /\ indegree = [id \in Ids(graph) |-> 0]
    /\ ready = {}
    /\ visited = 0
    /\ seen = {}
    /\ status = "none"

\* A dependency is out of range, or a node lists it twice.
Malformed(g, id) == ~ (g.dependencies[id] \subseteq Ids(g)) \/ id \in g.repeated

Reject ==
    /\ phase = "scan" /\ scanned < graph.size
    /\ Malformed(graph, scanned)
    /\ phase' = "done" /\ status' = "invalid_argument"
    /\ UNCHANGED <<graph, scanned, indegree, ready, visited, seen>>

Scan ==
    /\ phase = "scan" /\ scanned < graph.size
    /\ ~ Malformed(graph, scanned)
    /\ indegree' = [indegree EXCEPT ![scanned] = Cardinality(graph.dependencies[scanned])]
    /\ scanned' = scanned + 1
    /\ UNCHANGED <<graph, phase, ready, visited, seen, status>>

Seed ==
    /\ phase = "scan" /\ scanned = graph.size
    /\ ready' = {id \in Ids(graph) : indegree[id] = 0}
    /\ phase' = "visit"
    /\ UNCHANGED <<graph, scanned, indegree, visited, seen, status>>

Children(g, id) == {child \in Ids(g) : id \in g.dependencies[child]}

Released(id) == {child \in Children(graph, id) : indegree[child] = 1}

Visit(id) ==
    /\ phase = "visit" /\ id \in ready
    /\ visited' = visited + 1
    /\ indegree' = [n \in Ids(graph) |-> IF n \in Children(graph, id)
                                         THEN indegree[n] - 1 ELSE indegree[n]]
    /\ ready' = (ready \ {id}) \cup Released(id)
    /\ seen' = seen \cup {id}
    /\ UNCHANGED <<graph, phase, scanned, status>>

\* Mutant of Verdict: a graph with no visited node passes.
VerdictIfAnyVisited == IF visited = 0 /\ graph.size # 0 THEN "invalid_argument" ELSE "ok"

Verdict == IF visited # graph.size THEN "invalid_argument" ELSE "ok"

Drained == ready = {}

Finish ==
    /\ phase = "visit" /\ Drained
    /\ phase' = "done" /\ status' = Verdict
    /\ UNCHANGED <<graph, scanned, indegree, ready, visited, seen>>

ValidateNext == Reject \/ Scan \/ Seed \/ (\E id \in ready : Visit(id)) \/ Finish

ValidateSpec == ValidateInit /\ [][ValidateNext]_graphVars

-----------------------------------------------------------------------------
(* What a valid graph is, without reference to the algorithm. *)

\* A nonempty set of nodes each of which waits for another of the set: in a
\* finite graph there is one exactly when there is a dependency cycle.
Trapped(g, S) == S # {} /\ \A n \in S : g.dependencies[n] \cap S # {}

Acyclic(g) == \A S \in SUBSET Ids(g) : ~ Trapped(g, S)

WellFormed(g) == \A id \in Ids(g) : ~ Malformed(g, id)

Valid(g) == WellFormed(g) /\ Acyclic(g)

\* Every variable has its type; in particular no in-degree underflows.
GraphTypeOK ==
    /\ graph \in Graphs
    /\ phase \in {"scan", "visit", "done"}
    /\ scanned \in 0..graph.size
    /\ indegree \in [Ids(graph) -> Nat]
    /\ ready \subseteq Ids(graph)
    /\ visited \in Nat
    /\ seen \subseteq Ids(graph)
    /\ status \in {"none", "ok", "invalid_argument"}

\* validate() accepts a graph exactly when its references are in range and
\* distinct and it has no cycle: no cyclic graph reaches the workers, and no
\* acyclic one is refused.
ValidatesExactly == phase = "done" => (status = "ok" <=> Valid(graph))

\* A node is pushed once: what a visit releases is neither queued nor visited,
\* so the count that decides the verdict counts nodes.
PushedOnce ==
    phase = "visit" =>
        /\ visited = Cardinality(seen)
        /\ \A id \in ready : Released(id) \cap (ready \cup seen) = {}
=============================================================================
