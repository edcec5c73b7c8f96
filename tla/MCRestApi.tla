----------------------------- MODULE MCRestApi -----------------------------
(* One repository with a config, one data blob and one lock, and two       *)
(* requests in flight.  Clients are named by the level they hold.  Config  *)
(* bodies vary; a blob's body is fixed by its name, as it is for restic,   *)
(* whose names are hashes.                                                 *)
EXTENDS RestApi

MCSize == [c \in Content |-> c]
MCLevel == [c \in Client |-> [p \in Prefix |-> c]]
Addressed == [o \in Object |-> IF o = Config THEN {0, 1} ELSE IF o \in Lock THEN {1} ELSE {2}]
=============================================================================
