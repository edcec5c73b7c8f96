---------------------------- MODULE MCFilesystem ----------------------------
(* Two operations in flight on one repository.  Bodies of blobs are fixed  *)
(* by their names; configs have two, or one where power failures multiply  *)
(* the states.                                                             *)
EXTENDS FilesystemBackend, TLC

MCBodies == [o \in Object |-> IF o = Config THEN {"c1", "c2"} ELSE {"b"}]
OneBody == [o \in Object |-> {"b"}]
Symmetry == Permutations(Op)
Single == [p \in Prefix |-> {p}]
=============================================================================
