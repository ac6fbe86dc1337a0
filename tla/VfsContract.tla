---------------------------- MODULE VfsContract ----------------------------
(***************************************************************************)
(* What one group's VFS promises (spec section 3, data model and           *)
(* lifecycle, and section 4.1, the apply contract), with no index, no      *)
(* counter and no change stream: a map from file id to (path, version,     *)
(* content) and the set of ids ever minted.                                *)
(*   - a path is taken when a live file has the same normalized path;      *)
(*   - create mints an id never used before, at version 0;                 *)
(*   - a content update adds exactly 1 to the version;                     *)
(*   - rename moves a file to a free path, version and content kept;       *)
(*   - delete removes the file; its id stays used.                         *)
(* A failing operation changes nothing.  One committed command applies at  *)
(* most MaxBatch operations in order (BatchWrite is not atomic: each op    *)
(* succeeds or fails on its own).                                          *)
(***************************************************************************)
EXTENDS Naturals, Functions, FiniteSets, TLC

CONSTANTS
  Paths,          \* paths as the commands spell them
  Contents,
  IdSpace,        \* ids a create may mint
  MaxBatch,       \* operations one command may apply
  Normalize(_)    \* the normal form of a path (section 3)

VARIABLES
  afiles,         \* id -> [path, version, content], the live files
  aused           \* every id ever minted

cvars == <<afiles, aused>>

St == [files |-> afiles, used |-> aused]

PathTaken(s, p) ==
  \E id \in DOMAIN s.files : Normalize(s.files[id].path) = Normalize(p)

Ops ==
       [kind : {"Create"}, id : IdSpace, path : Paths, content : Contents]
  \cup [kind : {"Update"}, id : IdSpace, content : Contents]
  \cup [kind : {"Delete"}, id : IdSpace]
  \cup [kind : {"Rename"}, id : IdSpace, path : Paths]

Live(s, o) == o.id \in DOMAIN s.files

(* The state after operation o, or s itself when o fails.                  *)
Apply(s, o) ==
  CASE o.kind = "Create" /\ o.id \notin s.used /\ ~PathTaken(s, o.path) ->
         [files |-> s.files @@ (o.id :> [path |-> o.path, version |-> 0,
                                         content |-> o.content]),
          used  |-> s.used \cup {o.id}]
    [] o.kind = "Update" /\ Live(s, o) ->
         [s EXCEPT !.files[o.id].version = @ + 1,
                   !.files[o.id].content = o.content]
    [] o.kind = "Delete" /\ Live(s, o) ->
         [s EXCEPT !.files = Restrict(@, DOMAIN @ \ {o.id})]
    [] o.kind = "Rename" /\ Live(s, o) /\ ~PathTaken(s, o.path) ->
         [s EXCEPT !.files[o.id].path = o.path]
    [] OTHER -> s

(* Every operation changes the entry of one id at most (and mints that id  *)
(* at most), so the ids on which s and t differ bound from below how many  *)
(* operations lead from s to t.                                            *)
Apart(s, t) ==
  Cardinality({id \in DOMAIN s.files \cup DOMAIN t.files :
                 id \notin DOMAIN s.files \/ id \notin DOMAIN t.files
                 \/ s.files[id] # t.files[id]}
              \cup (t.used \ s.used))

(* t follows from s by at most n successful operations.                    *)
RECURSIVE Reaches(_, _, _)
Reaches(s, t, n) ==
  \/ s = t
  \/ /\ n > 0
     /\ s.used \subseteq t.used
     /\ Apart(s, t) <= n
     /\ \E o \in Ops : LET m == Apply(s, o)
                       IN m # s /\ Reaches(m, t, n - 1)

CInit == afiles = <<>> /\ aused = {}

CNext == Reaches(St, [files |-> afiles', used |-> aused'], MaxBatch)

CSpec == CInit /\ [][CNext]_cvars

=============================================================================
