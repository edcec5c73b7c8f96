------------------------------- MODULE MCAcl -------------------------------
(* All lists of at most two rules, each with one or two of three nested    *)
(* paths, against a request that one of two identities makes on any path.  *)
EXTENDS Acl

MCPath == {<<>>, <<"a">>, <<"a", "b">>}
PathLists == {<<p>> : p \in MCPath} \cup {<<p, q>> : p, q \in MCPath}
MCRule == [paths : PathLists, identities : {{Wildcard}, {"x"}},
           permission : {Deny, ReadOnly, FullAccess}]
MCRuleLists == {<<>>} \cup {<<r>> : r \in MCRule} \cup {<<r, s>> : r, s \in MCRule}
=============================================================================
