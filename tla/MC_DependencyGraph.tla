-------------------------- MODULE MC_DependencyGraph --------------------------
EXTENDS DependencyGraph

LOCAL INSTANCE Relation

MCFiles == {1, 2, 3}
MCCallers == {"t1", "t2"}

(* The files reachable from x over the dependents edges of g, from the     *)
(* transitive closure of the edge relation.                                *)
ReachableDependents(g, x) ==
  LET edge == [p, q \in MCFiles |-> q \in g[p]]
  IN {y \in MCFiles : TransitiveClosure(edge, MCFiles)[x, y]}

(* transitive_dependents returns exactly the files that depend on file_id  *)
(* through a chain of dependents edges, file_id itself only on a cycle,    *)
(* on every graph over MCFiles.                                            *)
ASSUME \A g \in [MCFiles -> SUBSET MCFiles], x \in MCFiles :
         TransitiveDependents(g, x) = ReachableDependents(g, x)
==============================================================================
