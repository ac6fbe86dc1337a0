--------------------------- MODULE DependencyGraph ---------------------------
(***************************************************************************)
(* The dependency graph of the analysis cache (crates/vraftls-cache/src/   *)
(* invalidation.rs).  Two maps, each behind its own tokio RwLock:          *)
(* dependents (a file -> the files that depend on it) and dependencies (a  *)
(* file -> the files it depends on).  add_dependency and remove_file are   *)
(* async and take the two locks in separate scopes, so calls from several  *)
(* tasks interleave between the scopes; each scope is atomic.  A HashMap   *)
(* key that is absent reads like an empty set, so the maps are total       *)
(* functions to sets.  transitive_dependents holds one read lock for its   *)
(* whole traversal and changes nothing: it is an operator.                 *)
(***************************************************************************)
EXTENDS Naturals, Sequences, SequencesExt

CONSTANTS
  Files,     \* FileIds
  Callers,   \* tasks calling the graph concurrently
  MaxOps     \* calls each task makes

VARIABLES
  dependents,    \* dependents[f]: files recorded as depending on f
  dependencies,  \* dependencies[d]: files d is recorded to depend on
  pc,            \* where each caller is inside its call
  arg,           \* the arguments of each caller's call
  snap,          \* remove_file's clone of dependencies[file_id]
  ops            \* calls each caller has started

vars == <<dependents, dependencies, pc, arg, snap, ops>>

NoArg == [dependent |-> 0, dependency |-> 0, file |-> 0]

(* DependencyGraph::new: both maps empty.                                  *)
Init ==
  /\ dependents = [f \in Files |-> {}]
  /\ dependencies = [f \in Files |-> {}]
  /\ pc = [c \in Callers |-> "idle"]
  /\ arg = [c \in Callers |-> NoArg]
  /\ snap = [c \in Callers |-> {}]
  /\ ops = [c \in Callers |-> 0]

Begin(c) == pc[c] = "idle" /\ ops[c] < MaxOps /\ ops' = [ops EXCEPT ![c] = @ + 1]

-----------------------------------------------------------------------------
(* add_dependency(dependent, dependency), first scope: the dependents      *)
(* write lock.                                                             *)
AddDependents(c, d, f) ==
  /\ Begin(c)
  /\ dependents' = [dependents EXCEPT ![f] = @ \cup {d}]
  /\ arg' = [arg EXCEPT ![c] = [NoArg EXCEPT !.dependent = d, !.dependency = f]]
  /\ pc' = [pc EXCEPT ![c] = "add_dependencies"]
  /\ UNCHANGED <<dependencies, snap>>

(* add_dependency, second scope: the dependencies write lock.              *)
AddDependencies(c) ==
  /\ pc[c] = "add_dependencies"
  /\ dependencies' = [dependencies EXCEPT ![arg[c].dependent] =
                                            @ \cup {arg[c].dependency}]
  /\ pc' = [pc EXCEPT ![c] = "idle"]
  /\ UNCHANGED <<dependents, arg, snap, ops>>

(* remove_file(file_id): clone dependencies[file_id] under the read lock,  *)
(* which is released at the end of the inner block.                        *)
RemoveSnapshot(c, x) ==
  /\ Begin(c)
  /\ snap' = [snap EXCEPT ![c] = dependencies[x]]
  /\ arg' = [arg EXCEPT ![c] = [NoArg EXCEPT !.file = x]]
  /\ pc' = [pc EXCEPT ![c] = "remove_as_dependent"]
  /\ UNCHANGED <<dependents, dependencies>>

(* Under the dependents write lock, take file_id out of the dependents of  *)
(* every file in the clone.                                                *)
RemoveAsDependent(c) ==
  /\ pc[c] = "remove_as_dependent"
  /\ dependents' = [f \in Files |->
                      IF f \in snap[c] THEN dependents[f] \ {arg[c].file}
                      ELSE dependents[f]]
  /\ pc' = [pc EXCEPT ![c] = "remove_dependents"]
  /\ UNCHANGED <<dependencies, arg, snap, ops>>

(* dependents.remove(file_id), under a second write lock.                  *)
RemoveDependents(c) ==
  /\ pc[c] = "remove_dependents"
  /\ dependents' = [dependents EXCEPT ![arg[c].file] = {}]
  /\ pc' = [pc EXCEPT ![c] = "remove_dependencies"]
  /\ UNCHANGED <<dependencies, arg, snap, ops>>

(* dependencies.remove(file_id), under the dependencies write lock.        *)
RemoveDependencies(c) ==
  /\ pc[c] = "remove_dependencies"
  /\ dependencies' = [dependencies EXCEPT ![arg[c].file] = {}]
  /\ pc' = [pc EXCEPT ![c] = "idle"]
  /\ UNCHANGED <<dependents, arg, snap, ops>>

Next ==
  \E c \in Callers :
    \/ \E d, f \in Files : AddDependents(c, d, f)
    \/ AddDependencies(c)
    \/ \E x \in Files : RemoveSnapshot(c, x)
    \/ RemoveAsDependent(c)
    \/ RemoveDependents(c)
    \/ RemoveDependencies(c)

Spec == Init /\ [][Next]_vars

-----------------------------------------------------------------------------
(* transitive_dependents(file_id): a depth-first search with an explicit   *)
(* stack; each dependent newly inserted into the result is pushed (the     *)
(* HashSet's order of the pushes changes nothing of the result).           *)
RECURSIVE Visit(_, _, _)
Visit(g, toVisit, result) ==
  IF toVisit = <<>> THEN result
  ELSE LET current == Last(toVisit)
           new     == g[current] \ result
       IN Visit(g, Front(toVisit) \o SetToSeq(new), result \cup new)

TransitiveDependents(g, fileId) == Visit(g, <<fileId>>, {})

-----------------------------------------------------------------------------
TypeOK ==
  /\ dependents \in [Files -> SUBSET Files]
  /\ dependencies \in [Files -> SUBSET Files]
  /\ pc \in [Callers -> {"idle", "add_dependencies", "remove_as_dependent",
                         "remove_dependents", "remove_dependencies"}]
  /\ snap \in [Callers -> SUBSET Files]

Quiescent == \A c \in Callers : pc[c] = "idle"

(* Whenever no call is in progress, every edge of dependents is also in    *)
(* dependencies: if d is a dependent of f, f is among d's dependencies.    *)
(* remove_file(d) finds the edges to cut through dependencies[d] only, so  *)
(* an edge without its twin is never cut, and transitive_dependents keeps *)
(* returning d, a file that was removed, for as long as the graph lives.   *)
DependentsBacked ==
  Quiescent =>
    \A f, d \in Files : d \in dependents[f] => f \in dependencies[d]

=============================================================================
