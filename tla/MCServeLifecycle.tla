-------------------------- MODULE MCServeLifecycle --------------------------
(* Three processes on one state directory, each serve or init, with two    *)
(* requests in flight and three notifications waiting.                     *)
EXTENDS ServeLifecycle
=============================================================================
