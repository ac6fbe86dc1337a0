------------------------------ MODULE VfsGroup ------------------------------
(***************************************************************************)
(* One Raft group's VFS driven by the committed commands that              *)
(* VfsStateMachine::apply hands to Vfs::apply, one command per step.  Any  *)
(* command may arrive in any state: the proposer (the LSP gateway or a     *)
(* client) does not see the state machine when it builds a command.        *)
(***************************************************************************)
EXTENDS Vfs

CONSTANTS
  FileIds,      \* ids that commands may name (existing or not)
  MaxCommands   \* bound on the number of commands applied

ASSUME MaxCommands \in Nat

VARIABLES
  vfs,          \* the Vfs record
  applied       \* commands applied so far (bounds the model)

vars == <<vfs, applied>>

Init ==
  /\ vfs = EmptyVfs
  /\ applied = 0

Do(cmd) ==
  /\ applied < MaxCommands
  /\ vfs' = ApplyCommand(vfs, cmd).st
  /\ applied' = applied + 1

CreateFile(p, c)      == Do(CreateCmd(p, c))
UpdateFile(id, c, e)  == Do(UpdateCmd(id, c, e))
DeleteFile(id)        == Do(DeleteCmd(id))
RenameFile(id, p)     == Do(RenameCmd(id, p))
BatchWrite(ops)       == Do(BatchCmd(ops))
InvalidateCache(ids)  == Do(InvalidateCmd(ids))

(* A committed VFS command stream has no end; the group is idle once the   *)
(* bound is reached, which is a legitimate final state (CHECK_DEADLOCK is  *)
(* off in the configurations for that reason).                            *)
Next ==
  \/ \E p \in Paths, c \in Contents : CreateFile(p, c)
  \/ \E id \in FileIds, c \in Contents,
        e \in {NoVersion} \cup {0, 1} : UpdateFile(id, c, e)
  \/ \E id \in FileIds : DeleteFile(id)
  \/ \E id \in FileIds, p \in Paths : RenameFile(id, p)
  \/ \E o1, o2 \in BatchOps(FileIds) : BatchWrite(<<o1, o2>>)
  \/ \E ids \in SUBSET FileIds : InvalidateCache(ids)

Spec == Init /\ [][Next]_vars

-----------------------------------------------------------------------------
FileRec == [path : Paths, version : Nat, content : Contents]

TypeOK ==
  /\ DOMAIN vfs.files \subseteq 1..(vfs.next_file_id - 1)
  /\ \A id \in DOMAIN vfs.files : vfs.files[id] \in FileRec
  /\ DOMAIN vfs.path_index \subseteq Paths
  /\ \A p \in DOMAIN vfs.path_index : vfs.path_index[p] \in Nat
  /\ vfs.next_file_id \in Nat \ {0}
  /\ applied \in 0..MaxCommands

(* Spec invariant (i): files and path_index are mutually inverse: every    *)
(* file's path maps back to it, and every indexed path names a file with   *)
(* that path.  create, delete and rename each touch both maps, in          *)
(* different orders and under different early returns.                     *)
IndexConsistent ==
  /\ \A id \in DOMAIN vfs.files :
       /\ vfs.files[id].path \in DOMAIN vfs.path_index
       /\ vfs.path_index[vfs.files[id].path] = id
  /\ \A p \in DOMAIN vfs.path_index :
       /\ vfs.path_index[p] \in DOMAIN vfs.files
       /\ vfs.files[vfs.path_index[p]].path = p

(* A subscriber that saw the change stream from the start (the analyzer    *)
(* caches are meant to learn of changes this way) can rebuild, for every   *)
(* live file, its id, path and version from the events alone: every        *)
(* mutation emits exactly one event carrying the path and version after    *)
(* the change, and Deleted removes the file.                               *)
ReplayEvent(view, ev) ==
  CASE ev.type = "Created"  -> view @@ (ev.id :> [path |-> ev.path,
                                                 version |-> ev.version])
    [] ev.type = "Deleted"  -> Restrict(view, DOMAIN view \ {ev.id})
    [] OTHER                -> [view EXCEPT ![ev.id] = [path |-> ev.path,
                                                 version |-> ev.version]]

EventView == FoldLeft(ReplayEvent, <<>>, vfs.events)

EventsReplayToState ==
  EventView = [id \in DOMAIN vfs.files |->
                 [path |-> vfs.files[id].path,
                  version |-> vfs.files[id].version]]

(* Spec: two paths are equal iff their normalized components are.  No two *)
(* live files may then share a normalized path.                            *)
NoAliasedFiles ==
  \A i, j \in DOMAIN vfs.files :
    i # j => Normalize(vfs.files[i].path) # Normalize(vfs.files[j].path)


(* The group implements the contract of spec sections 3 and 4.1: with the  *)
(* live files as they are and the used ids read off the counter, every     *)
(* committed command is at most two contract operations (a BatchWrite of   *)
(* two ops here), each succeeding or failing as the contract says.  Rename *)
(* must keep version and content, update must add exactly one, a create    *)
(* must mint an id no file ever had, on every path through the early       *)
(* returns of the five handlers and the batch loop.                        *)
VC == INSTANCE VfsContract WITH
        afiles <- vfs.files,
        aused <- 1..(vfs.next_file_id - 1),
        IdSpace <- 1..(2 * MaxCommands),
        MaxBatch <- 2

ImplementsContract == VC!CSpec

=============================================================================
