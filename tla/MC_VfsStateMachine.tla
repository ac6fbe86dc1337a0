------------------------ MODULE MC_VfsStateMachine ------------------------
EXTENDS VfsStateMachine

MCPaths == {<<"/", "a.rs">>, <<"/", "b.rs">>}

(* Commands whose outcome depends on the state they meet: two creates, an  *)
(* unguarded and a version-guarded update of file 1, a delete of file 1    *)
(* and a rename of file 2.                                                 *)
MCCommands ==
  { CreateCmd(<<"/", "a.rs">>, "c1"),
    CreateCmd(<<"/", "b.rs">>, "c2"),
    UpdateCmd(1, "c2", NoVersion),
    UpdateCmd(1, "c1", 0),
    DeleteCmd(1),
    RenameCmd(2, <<"/", "a.rs">>) }
=============================================================================
