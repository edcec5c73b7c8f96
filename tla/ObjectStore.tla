---------------------------- MODULE ObjectStore ----------------------------
(***************************************************************************)
(* What a storage backend promises (internal/storage/backend.go): every    *)
(* object of every repository is absent or holds one complete request      *)
(* body, and changes in steps that store one body under one name or take   *)
(* objects of one repository away.  There is nothing in between to see.    *)
(***************************************************************************)
CONSTANTS
  Prefix,   \* repository prefixes
  Object,   \* the config and the blobs
  Bodies,   \* Bodies[o]: the bodies clients send for object o
  Nil       \* nothing stored

VARIABLE stored   \* stored[p][o]

Init == /\ DOMAIN stored = Prefix
        /\ \A p \in Prefix : /\ DOMAIN stored[p] = Object
                             /\ \A o \in Object : stored[p][o] \in Bodies[o] \cup {Nil}

\* SaveConfig and SaveBlob.
Put(p, o, body) == stored' = [stored EXCEPT ![p][o] = body]

\* DeleteBlob, and the whole or a part of DeleteRepo.
Drop(p, S) ==
  stored' = [stored EXCEPT ![p] = [o \in Object |-> IF o \in S THEN Nil ELSE stored[p][o]]]

Next ==
  \E p \in Prefix :
    \/ \E o \in Object : \E body \in Bodies[o] : Put(p, o, body)
    \/ \E S \in SUBSET Object : Drop(p, S)

Spec == Init /\ [][Next]_stored
=============================================================================
