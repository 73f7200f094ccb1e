------------------------------ MODULE FlowGraph ------------------------------
(***************************************************************************)
(* The graph of a flow: the check before it is stored (platform/control-   *)
(* plane/flows/internal/domain ValidateDefinition), its execution          *)
(* (internal/engine Run), and its lineage (internal/lineage Extract,       *)
(* internal/store LineageNeighbors).                                       *)
(***************************************************************************)
EXTENDS Naturals, FiniteSets, Sequences

CONSTANTS
  Node,    \* the nodes of the definition, numbered in the order of their identifiers
  MaxHops  \* how far a question about lineage reaches

VARIABLES
  edges,     \* the definition's edges: pairs of nodes
  engine,    \* [pc, indegree, order]
  answered   \* the last question of lineage: [node, up, edges], or the empty sequence

graphVars == <<edges, engine, answered>>

Into(n) == {e \in edges : e[2] = n}
Parents(n) == {e[1] : e \in Into(n)}

\* Kahn's rounds: what has been visited once everything it waits for has.
Visited ==
  LET after[k \in 0 .. Cardinality(Node)] ==
        IF k = 0 THEN {} ELSE {n \in Node : Parents(n) \subseteq after[k - 1]}
  IN after[Cardinality(Node)]

\* Mutant: the check starts at the nodes without parents and ends when one of them is reached.
AcceptsRooted == Node = {} \/ \E n \in Node : Parents(n) = {}

Accepts == Node # {} /\ Visited = Node

GraphInit ==
  /\ edges \in SUBSET (Node \X Node)
  /\ engine = [pc |-> "check", indegree |-> [n \in Node |-> Cardinality(Into(n))], order |-> <<>>]
  /\ answered = <<>>

Validate ==
  /\ engine.pc = "check"
  /\ engine' = [engine EXCEPT !.pc = IF Accepts THEN "run" ELSE "refused"]
  /\ UNCHANGED <<edges, answered>>

Done == {engine.order[i] : i \in DOMAIN engine.order}
Ready == {n \in Node \ Done : engine.indegree[n] = 0}

\* Mutant: a node is ready as soon as one of its parents has run.
Released(n) == [m \in Node |-> IF <<n, m>> \in edges THEN 0 ELSE engine.indegree[m]]

Counted(n) == [m \in Node |-> IF <<n, m>> \in edges THEN engine.indegree[m] - 1 ELSE engine.indegree[m]]

\* Run: the first of the ready nodes; an operator that fails, or a cancelled context, ends the run.
Execute(ok) ==
  \E n \in Ready :
    /\ engine.pc = "run" /\ \A m \in Ready : n <= m
    /\ engine' = IF ok THEN [engine EXCEPT !.order = Append(@, n), !.indegree = Counted(n)] ELSE [engine EXCEPT !.pc = "failed"]
    /\ UNCHANGED <<edges, answered>>

\* Nothing is ready: the run has succeeded, or has not converged.
Return ==
  /\ engine.pc = "run" /\ Ready = {}
  /\ engine' = [engine EXCEPT !.pc = IF Len(engine.order) = Cardinality(Node) THEN "succeeded" ELSE "stuck"]
  /\ UNCHANGED <<edges, answered>>

\* The edges one step further up or down.
Further(E, up) == {e \in edges : \E f \in E : IF up THEN e[2] = f[1] ELSE e[1] = f[2]}

\* LineageNeighbors on the edges of a published version.
LineageNeighbors(n, up) ==
  LET start == {e \in edges : IF up THEN e[2] = n ELSE e[1] = n}
      reach[k \in 0 .. MaxHops] == IF k = 0 THEN start ELSE reach[k - 1] \cup Further(reach[k - 1], up)
  IN /\ engine.pc = "succeeded" /\ answered = <<>>
     /\ answered' = [node |-> n, up |-> up, edges |-> reach[MaxHops]]
     /\ UNCHANGED <<edges, engine>>

GraphNext ==
  \/ Validate \/ Return
  \/ \E ok \in BOOLEAN : Execute(ok)
  \/ \E n \in Node, up \in BOOLEAN : LineageNeighbors(n, up)

-----------------------------------------------------------------------------
(* Properties.                                                             *)

\* Every nonempty set of nodes has one whose parents are all outside it.
Acyclic == \A S \in SUBSET Node \ {{}} : \E n \in S : Parents(n) \cap S = {}

\* A definition is stored exactly when it has no cycle, and what is stored never gets stuck: each
\* node runs once, after all its parents (ValidateDefinition, Run).
RunsInOrder ==
  /\ engine.pc = "refused" => ~Acyclic
  /\ engine.pc \in {"run", "succeeded", "failed"} => Acyclic
  /\ engine.pc # "stuck"
  /\ \A i, j \in DOMAIN engine.order : engine.order[i] = engine.order[j] => i = j
  /\ \A i \in DOMAIN engine.order : Parents(engine.order[i]) \subseteq {engine.order[j] : j \in 1 .. i - 1}

\* The answer about a node names every edge on a path to it or from it, and no other.
Above(n) == CHOOSE S \in SUBSET Node :
  /\ n \in S /\ \A e \in edges : e[2] \in S => e[1] \in S
  /\ \A T \in SUBSET S : n \in T /\ (\A e \in edges : e[2] \in T => e[1] \in T) => T = S
LineageIsComplete ==
  answered # <<>> => LET n == answered.node IN
    answered.edges = IF answered.up THEN {e \in edges : e[2] \in Above(n)} ELSE {e \in edges : n \in Above(e[1])}

\* Both together.
GraphHolds == RunsInOrder /\ LineageIsComplete
===============================================================================
