-------------------------- MODULE MCRemoteBackend --------------------------
(* Two operations in flight on the repository "a", beside the repository   *)
(* "ab", whose name starts alike.  Keys sort as config, data/xx/xxyy,      *)
(* data/xxyy.                                                              *)
EXTENDS RemoteBackend, TLC

MCBodies == [o \in Object |-> IF o = Config THEN {"c"} ELSE {"b"}]
MCStarts == [p \in Prefix |-> IF p = "a" THEN {"a", "ab"} ELSE {p}]
MCUnder == [p \in Prefix |-> {p}]
MCRank == [x \in Paths |-> IF x[1] = Config THEN 1 ELSE IF x[2] = "final" THEN 2 ELSE 3]
Symmetry == Permutations(Op)
=============================================================================
