---------------------------- MODULE MC_VfsGroup ----------------------------
EXTENDS VfsGroup

(* Two distinct absolute paths, as the gateway produces them from file     *)
(* URIs.                                                                   *)
MCPaths == {<<"/", "a.rs">>, <<"/", "b.rs">>}

(* The same two files plus a second spelling of /a.rs that std::path       *)
(* yields for "/b.rs/../a.rs".                                             *)
MCAliasPaths == MCPaths \cup {<<"/", "b.rs", "..", "a.rs">>}

MCFileIds == 1..3

=============================================================================
