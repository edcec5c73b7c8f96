-------------------------- MODULE MCIdentityCache --------------------------
(* Two addresses over a cache of one, two machines, two requests at a      *)
(* time, entries that live two ticks and lookups of at most one.           *)
EXTENDS IdentityCache

MCHostnames == [m \in Machine |-> IF m = "m1" THEN {"m1.net"} ELSE {"m2"}]
MCWhoIsNames == [m \in Machine |-> {m, "tag"}]
MCShort == [h \in {"m1.net", "m2"} |-> IF h = "m1.net" THEN {"m1"} ELSE {}]
=============================================================================
