--------------------------- MODULE MCRequestAuth ---------------------------
(* Every rule list of MCAcl against plain requests on its paths, and three *)
(* rule lists against every request with a path of up to three segments    *)
(* and those with up to five that the API's words and extra slashes make   *)
(* interesting, and against requests to the system routes.                 *)
EXTENDS RequestAuth, MCAcl

Req(m, p) == [method |-> m, path |-> p, login |-> FALSE, token |-> FALSE, lock |-> ""]
Off == [metricsACL |-> FALSE, uiAuth |-> FALSE]
UpTo(n, S) == UNION {[1 .. k1 -> S] : k1 \in 1 .. n}

Plain == {<<Req("DELETE", p), Off>> : p \in {<<"">>, <<"a">>, <<"a", "b">>}}

Short == UpTo(3, {"", "a", "b", "data", "locks", "config", "ab", "-", "..", "n"})
Long == {<<"">> \o p : p \in [1 .. 4 -> {"", "a", "b", "locks"}]}
        \cup {<<"a">> \o p : p \in [1 .. 4 -> {"", "b", "data", "ab"}]}
Api == {<<Req(m, p), Off>> : m \in Methods, p \in Short \cup Long}

UIPaths == {<<"-", "ui", "repos">> \o p \o q : p \in UpTo(3, {"", "a", "..", "data"}),
                                              q \in {<<>>, <<"delete-lock">>}}
UIReq == [method : {"GET", "POST"}, path : UIPaths, login : BOOLEAN, token : BOOLEAN,
          lock : {"ab", "b"}]
Conf == [metricsACL : BOOLEAN, uiAuth : BOOLEAN]
SystemCalls == UIReq \X {c \in Conf : ~c.metricsACL}
          \cup {Req("GET", <<"-", "metrics">>), Req("POST", <<"-", "x">>)} \X Conf

MCPaths == {<<>>} \cup UpTo(5, {"a", "b", "ab", "-"})
SomeLists == {<<[paths |-> <<<<"a">>>>, identities |-> {Wildcard}, permission |-> l]>> :
                l \in {Deny, AppendOnly, FullAccess}}
AllLists == MCRuleLists \cup SomeLists
MCCalls(l) == IF l \in SomeLists THEN Api \cup SystemCalls ELSE Plain
=============================================================================
