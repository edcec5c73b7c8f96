--------------------------- MODULE MCShareBackend ---------------------------
(* The repository at the base directory, a data blob, a blob of another    *)
(* type and a config with two possible bodies.                             *)
EXTENDS ShareBackend

MCBodies == [o \in Object |-> IF o = Config THEN {"c1", "c2"} ELSE {"b"}]
=============================================================================
