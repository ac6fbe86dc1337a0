-------------------------------- MODULE Vfs --------------------------------
(***************************************************************************)
(* The in-memory virtual file system of one Raft group                     *)
(* (crates/vraftls-vfs/src/vfs.rs) and the path normalisation it keys on   *)
(* (crates/vraftls-vfs/src/path.rs).                                       *)
(*                                                                         *)
(* The apply logic is written as pure operators over a state record        *)
(*   [files, path_index, next_file_id, events]                             *)
(* so that the replicated state machine (VfsStateMachine) applies the very *)
(* same commands on every replica.  Each operator returns                  *)
(*   [st |-> new state, resp |-> VfsResponse].                             *)
(*                                                                         *)
(* Abstractions: a path is the sequence of std::path Components of its     *)
(* original text ("/" RootDir, "." CurDir, ".." ParentDir, anything else a *)
(* Normal name); VfsPath derives Eq/Hash over (client_id, components,      *)
(* original), and components is a function of original, so two paths are  *)
(* equal iff these sequences are.  Content is a member of a small set; the *)
(* checksum is recomputed from the content at every assignment of content  *)
(* (VfsFile::new, update_content) and is left out.  Timestamps feed no     *)
(* decision and are left out.  The broadcast channel is the history of     *)
(* every event sent (send errors without subscribers are ignored by the    *)
(* code, so sending never changes control flow).                           *)
(***************************************************************************)
EXTENDS Naturals, Sequences, FiniteSets, Functions, SequencesExt, TLC

CONSTANTS
  Paths,        \* original paths, as std::path component sequences
  Contents,     \* file contents
  NoId,         \* Option<FileId>::None in responses
  NoVersion     \* Option<u64>::None for expected_version

-----------------------------------------------------------------------------
(* path.rs: VfsPath::normalize.  RootDir clears, ParentDir pops (a no-op   *)
(* on an empty stack), CurDir is ignored, Normal names are pushed.         *)
NormalizeStep(stack, c) ==
  CASE c = "/"  -> <<>>
    [] c = ".." -> IF stack = <<>> THEN <<>> ELSE Front(stack)
    [] c = "."  -> stack
    [] OTHER    -> Append(stack, c)

Normalize(p) == FoldLeft(NormalizeStep, <<>>, p)

-----------------------------------------------------------------------------
(* Vfs::new: empty maps, next_file_id = 1.                                 *)
EmptyVfs ==
  [files |-> <<>>, path_index |-> <<>>, next_file_id |-> 1, events |-> <<>>]

Event(type, id, p, v) == [type |-> type, id |-> id, path |-> p, version |-> v]

Resp(tag, arg) == [tag |-> tag, arg |-> arg]
Err(kind, arg) == Resp("Error", [kind |-> kind, arg |-> arg])

Result(st, resp) == [st |-> st, resp |-> resp]

Emit(s, ev) == [s EXCEPT !.events = Append(@, ev)]

(* Mutant of create_file: the counter read without being advanced.        *)
CreateFileNoAdvance(s, p, c) ==
  IF p \in DOMAIN s.path_index
  THEN Result(s, Err("FileAlreadyExists", p))
  ELSE LET id == s.next_file_id
       IN Result(Emit([s EXCEPT
                         !.files = @ @@ (id :> [path |-> p, version |-> 0,
                                                content |-> c]),
                         !.path_index = @ @@ (p :> id)],
                      Event("Created", id, p, 0)),
                 Resp("Created", id))

(* Vfs::create_file.  The id is fetch_add(1) of next_file_id; the file is  *)
(* inserted into files, then into path_index, then Created is sent.        *)
CreateFileOp(s, p, c) ==
  IF p \in DOMAIN s.path_index
  THEN Result(s, Err("FileAlreadyExists", p))
  ELSE LET id == s.next_file_id
       IN Result(Emit([s EXCEPT
                         !.files = @ @@ (id :> [path |-> p, version |-> 0,
                                                content |-> c]),
                         !.path_index = @ @@ (p :> id),
                         !.next_file_id = @ + 1],
                      Event("Created", id, p, 0)),
                 Resp("Created", id))

(* Mutant of update_file: the event built from the version read before   *)
(* update_content.                                                         *)
UpdateFileStaleEvent(s, id, c, expected) ==
  IF id \notin DOMAIN s.files
  THEN Result(s, Err("FileNotFound", id))
  ELSE IF expected # NoVersion /\ s.files[id].version # expected
  THEN Result(s, Err("VersionMismatch", <<expected, s.files[id].version>>))
  ELSE LET f  == s.files[id]
           nf == [f EXCEPT !.content = c, !.version = @ + 1]
       IN Result(Emit([s EXCEPT !.files[id] = nf],
                      Event("Modified", id, f.path, f.version)),
                 Resp("Ok", id))

(* Vfs::update_file with VfsFile::update_content: the version guard, then  *)
(* content replaced and version + 1; Modified carries the new version.     *)
UpdateFileOp(s, id, c, expected) ==
  IF id \notin DOMAIN s.files
  THEN Result(s, Err("FileNotFound", id))
  ELSE IF expected # NoVersion /\ s.files[id].version # expected
  THEN Result(s, Err("VersionMismatch", <<expected, s.files[id].version>>))
  ELSE LET f  == s.files[id]
           nf == [f EXCEPT !.content = c, !.version = @ + 1]
       IN Result(Emit([s EXCEPT !.files[id] = nf],
                      Event("Modified", id, f.path, nf.version)),
                 Resp("Ok", id))

(* Vfs::delete_file: remove from files, then the file's path from the      *)
(* index; Deleted carries the last version.                                *)
DeleteFileOp(s, id) ==
  IF id \notin DOMAIN s.files
  THEN Result(s, Err("FileNotFound", id))
  ELSE LET f == s.files[id]
       IN Result(Emit([s EXCEPT
                         !.files = Restrict(@, DOMAIN @ \ {id}),
                         !.path_index = Restrict(@, DOMAIN @ \ {f.path})],
                      Event("Deleted", id, f.path, f.version)),
                 Resp("Ok", NoId))

(* Mutant of rename_file: the old path is left in the index.             *)
RenameFileKeepOld(s, id, np) ==
  IF np \in DOMAIN s.path_index
  THEN Result(s, Err("FileAlreadyExists", np))
  ELSE IF id \notin DOMAIN s.files
  THEN Result(s, Err("FileNotFound", id))
  ELSE LET f == s.files[id]
       IN Result(Emit([s EXCEPT
                         !.files[id].path = np,
                         !.path_index = @ @@ (np :> id)],
                      Event("Renamed", id, np, f.version)),
                 Resp("Ok", id))

(* Mutant of rename_file: the file rebuilt by VfsFile::new at the new     *)
(* path, which starts it again at version 0.                               *)
RenameFileNewFile(s, id, np) ==
  IF np \in DOMAIN s.path_index
  THEN Result(s, Err("FileAlreadyExists", np))
  ELSE IF id \notin DOMAIN s.files
  THEN Result(s, Err("FileNotFound", id))
  ELSE LET f == s.files[id]
       IN Result(Emit([s EXCEPT
                         !.files[id] = [path |-> np, version |-> 0,
                                        content |-> f.content],
                         !.path_index = Restrict(@, DOMAIN @ \ {f.path})
                                          @@ (np :> id)],
                      Event("Renamed", id, np, 0)),
                 Resp("Ok", id))

(* Vfs::rename_file: the new path is checked before the id; the old path   *)
(* leaves the index and the new one enters it; the version is kept.        *)
RenameFileOp(s, id, np) ==
  IF np \in DOMAIN s.path_index
  THEN Result(s, Err("FileAlreadyExists", np))
  ELSE IF id \notin DOMAIN s.files
  THEN Result(s, Err("FileNotFound", id))
  ELSE LET f == s.files[id]
       IN Result(Emit([s EXCEPT
                         !.files[id].path = np,
                         !.path_index = Restrict(@, DOMAIN @ \ {f.path})
                                          @@ (np :> id)],
                      Event("Renamed", id, np, f.version)),
                 Resp("Ok", id))

(* Vfs::batch_write: every op runs in order through create_file,           *)
(* update_file (no version guard) or delete_file; an error is recorded and *)
(* the batch goes on, so earlier effects stay (the batch is not atomic).   *)
BatchOp(s, op) ==
  CASE op.kind = "Create" -> CreateFileOp(s, op.path, op.content)
    [] op.kind = "Update" -> UpdateFileOp(s, op.id, op.content, NoVersion)
    [] op.kind = "Delete" -> DeleteFileOp(s, op.id)

BatchResult(resp) ==
  CASE resp.tag = "Created" -> [ok |-> TRUE, arg |-> resp.arg]
    [] resp.tag = "Ok"      -> [ok |-> TRUE, arg |-> resp.arg]
    [] resp.tag = "Error"   -> [ok |-> FALSE, arg |-> resp.arg]

BatchStep(acc, op) ==
  LET r == BatchOp(acc.st, op)
  IN [st |-> r.st, results |-> Append(acc.results, BatchResult(r.resp))]

BatchWriteOp(s, ops) ==
  LET acc == FoldLeft(BatchStep, [st |-> s, results |-> <<>>], ops)
  IN Result(acc.st, Resp("BatchResults", acc.results))

(* Vfs::apply: dispatch on the command; InvalidateCache changes nothing.   *)
ApplyCommand(s, cmd) ==
  CASE cmd.kind = "CreateFile" -> CreateFileOp(s, cmd.path, cmd.content)
    [] cmd.kind = "UpdateFile" -> UpdateFileOp(s, cmd.id, cmd.content,
                                               cmd.expected)
    [] cmd.kind = "DeleteFile" -> DeleteFileOp(s, cmd.id)
    [] cmd.kind = "RenameFile" -> RenameFileOp(s, cmd.id, cmd.path)
    [] cmd.kind = "BatchWrite" -> BatchWriteOp(s, cmd.ops)
    [] cmd.kind = "InvalidateCache" -> Result(s, Resp("Ok", NoId))

-----------------------------------------------------------------------------
(* Command records, as VfsCommand / BatchWriteOp values.                   *)
CreateCmd(p, c)         == [kind |-> "CreateFile", path |-> p, content |-> c]
UpdateCmd(id, c, e)     == [kind |-> "UpdateFile", id |-> id, content |-> c,
                            expected |-> e]
DeleteCmd(id)           == [kind |-> "DeleteFile", id |-> id]
RenameCmd(id, p)        == [kind |-> "RenameFile", id |-> id, path |-> p]
BatchCmd(ops)           == [kind |-> "BatchWrite", ops |-> ops]
InvalidateCmd(ids)      == [kind |-> "InvalidateCache", ids |-> ids]

BatchOps(ids) ==
       [kind : {"Create"}, path : Paths, content : Contents]
  \cup [kind : {"Update"}, id : ids, content : Contents]
  \cup [kind : {"Delete"}, id : ids]

=============================================================================
