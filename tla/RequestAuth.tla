---------------------------- MODULE RequestAuth ----------------------------
(***************************************************************************)
(* The way of one request to its handler: the repository prefix is taken   *)
(* off its URL (internal/middleware/repoprefix.go), the ACL middleware     *)
(* classifies it and asks the engine (internal/middleware/acl.go; Resolve  *)
(* is that of module Acl, step by step), the router picks a handler        *)
(* (internal/api/router.go), and the handler acts on the storage.  The web *)
(* UI (internal/ui/handler.go) goes past the first two.                    *)
(*                                                                         *)
(* The path of a URL is the sequence of what stands between its slashes:   *)
(* "/a//b" is <<"a", "", "b">>, "/a/" is <<"a", "">> and "/" is <<"">>.    *)
(* The router matches on the decoded path; an ACL engine is configured.    *)
(***************************************************************************)
EXTENDS Acl

CONSTANTS
  Hex,        \* the segments that are hex strings
  Bad,        \* the segments with a NUL byte or a backslash
  Calls(_)    \* Calls(l): the requests and settings considered with rule list l

Types == {"data", "keys", "locks", "snapshots", "index"}
knownSegments == Types \cup {"config"}
Methods == {"GET", "HEAD", "POST", "DELETE", "PUT"}

Request == [method : Methods, path : Seq(STRING) \ {<<>>},
            login : BOOLEAN, token : BOOLEAN, lock : STRING]
Setting == [metricsACL : BOOLEAN, uiAuth : BOOLEAN]

ASSUME RootAssumption == <<>> \in Path
ASSUME CallsAssumption == \A l \in RuleLists : Calls(l) \subseteq Request \X Setting
ASSUME SegmentAssumption ==
  /\ Hex \cap (knownSegments \cup Bad \cup {"", ".", ".."}) = {}
  /\ Bad \cap (knownSegments \cup {""}) = {}

VARIABLES
  req,       \* the request: method, path, and for the UI: login, token, lock
  conf,      \* settings: metricsACL, uiAuth
  stage,     \* what the request meets next
  prefix,    \* the prefix in its context
  apiPath,   \* the path that is left
  append,    \* the append-only mark in its context
  status,    \* the answer; 0 as long as there is none
  effect,    \* what its handler did to the storage, and where
  row        \* the key under which a page looked up the traffic of its repository

request == <<req, conf>>
mine == <<stage, prefix, apiPath, append, status, effect, row>>
authVars == <<vars, request, mine>>

NoEffect == [do |-> "none", repo |-> <<>>, type |-> "", name |-> ""]

AuthInit ==
  /\ repoPath = <<>> /\ Init
  /\ \E x \in Calls(rules) : req = x[1] /\ conf = x[2]
  /\ stage = "prefix" /\ prefix = <<>> /\ apiPath = <<>> /\ append = FALSE
  /\ status = 0 /\ effect = NoEffect /\ row = <<>>

-----------------------------------------------------------------------------
Rejected(path) == \E n \in DOMAIN path : path[n] \in {".", ".."} \cup Bad

\* Mutant of SplitRepoPath: empty segments stay.
SplitRepoPathAsIs(path) == path

\* Empty segments are dropped.
SplitRepoPath(path) ==
  LET segments[n \in 0 .. Len(path)] ==
        IF n = 0 THEN <<>>
        ELSE IF path[n] = "" THEN segments[n - 1] ELSE Append(segments[n - 1], path[n])
  IN segments[Len(path)]

\* The path starts with "/-/".
System(path) == Len(path) >= 2 /\ path[1] = "-"

\* Mutant of FirstKnown: the last one.
FirstKnownLast(segments) ==
  {n \in DOMAIN segments : /\ segments[n] \in knownSegments
                           /\ \A m \in (n + 1) .. Len(segments) : segments[m] \notin knownSegments}

\* The place of the first segment that the API knows, if there is one.
FirstKnown(segments) ==
  {n \in DOMAIN segments : /\ segments[n] \in knownSegments
                           /\ \A m \in 1 .. (n - 1) : segments[m] \notin knownSegments}

\* Mutant of Rest: the trailing slash is lost.
RestBare(segments, n, path) == SubSeq(segments, n, Len(segments))

\* What follows the prefix, with the path's trailing slash.
Rest(segments, n, path) ==
  SubSeq(segments, n, Len(segments)) \o (IF path[Len(path)] = "" THEN <<"">> ELSE <<>>)

Finish(code) == stage' = "done" /\ status' = code /\ UNCHANGED <<prefix, apiPath, append, effect, row>>

\* RepoPrefix, and the path "/" + prefix that the ACL asks about.
RepoPrefix ==
  LET path == req.path
      segments == SplitRepoPath(path)
      Goes(p, api) == /\ prefix' = p /\ repoPath' = p /\ apiPath' = api /\ stage' = "acl"
                      /\ UNCHANGED <<append, status, effect, row>>
  IN /\ stage = "prefix"
     /\ \/ System(path) /\ Goes(<<>>, path)
        \/ ~System(path) /\ Rejected(path) /\ Finish(400) /\ UNCHANGED repoPath
        \/ /\ ~System(path) /\ ~Rejected(path)
           /\ \/ \E n \in FirstKnown(segments) :
                   Goes(SubSeq(segments, 1, n - 1), Rest(segments, n, path))
              \/ FirstKnown(segments) = {} /\ Goes(segments, <<"">>)
     /\ UNCHANGED <<rules, identities, pc, i, j, bestDepth, permsAtBest, k, highest, result, request>>

-----------------------------------------------------------------------------
\* classifyOperation.
Operation(method, path) ==
  CASE method \in {"GET", "HEAD"} -> "read"
    [] method = "DELETE" -> IF path[1] = "locks" THEN "write" ELSE "delete"
    [] OTHER -> "write"

\* Engine.Allowed, of what Resolve returned.
Allowed(perm, op) ==
  CASE op = "read" -> perm >= ReadOnly
    [] op = "write" -> perm >= AppendOnly
    [] op = "delete" -> perm >= FullAccess

\* System routes bypass the ACL, except, where that is configured, the one whose path
\* starts with /-/metrics.
Bypass ==
  /\ stage = "acl"
  /\ stage' = IF System(apiPath) /\ ~(conf.metricsACL /\ apiPath[2] = "metrics")
              THEN "route" ELSE "resolve"
  /\ UNCHANGED <<vars, request, prefix, apiPath, append, status, effect, row>>

\* The engine at work.
Resolve == stage = "resolve" /\ Next /\ pc # "done" /\ UNCHANGED <<request, mine>>

\* The decision, and the mark for those who may write but not delete.
Decide ==
  LET op == Operation(req.method, apiPath)
  IN /\ stage = "resolve" /\ pc = "done"
     /\ \/ /\ Allowed(result, op) /\ stage' = "route"
           /\ append' = (op = "write" /\ ~Allowed(result, "delete"))
           /\ UNCHANGED <<prefix, apiPath, status, effect, row>>
        \/ ~Allowed(result, op) /\ Finish(403)
     /\ UNCHANGED <<vars, request>>

-----------------------------------------------------------------------------
\* External: path.Join, by which the backends find the place of a prefix.
Clean(path) ==
  LET c[n \in 0 .. Len(path)] ==
        IF n = 0 THEN <<>>
        ELSE CASE path[n] \in {"", "."} -> c[n - 1]
               [] path[n] = ".." -> SubSeq(c[n - 1], 1, Len(c[n - 1]) - 1)
               [] OTHER -> Append(c[n - 1], path[n])
  IN c[Len(path)]

Acts(do, p, type, name) ==
  /\ stage' = "done" /\ status' = 200
  /\ effect' = [do |-> do, repo |-> Clean(p), type |-> type, name |-> name]
  /\ UNCHANGED <<prefix, apiPath, append, row>>

RepoRoute ==
  /\ apiPath = <<"">>
  /\ CASE req.method = "POST" -> Acts("createRepo", prefix, "", "")
       [] req.method = "DELETE" -> Acts("deleteRepo", prefix, "", "")
       [] OTHER -> Finish(405)

ConfigRoute ==
  /\ apiPath = <<"config">>
  /\ CASE req.method \in {"GET", "HEAD"} -> Acts("read", prefix, "config", "")
       [] req.method = "POST" -> Acts("save", prefix, "config", "")
       [] OTHER -> Finish(405)

ListRoute ==
  /\ Len(apiPath) = 2 /\ apiPath[2] = ""
  /\ \/ req.method # "GET" /\ Finish(405)
     \/ req.method = "GET" /\ apiPath[1] \notin Types /\ Finish(400)
     \/ req.method = "GET" /\ apiPath[1] \in Types /\ Acts("list", prefix, apiPath[1], "")

\* The last parameter of a route takes all that is left of the path, and a name with
\* a slash in it is none.
BlobRoute ==
  /\ Len(apiPath) >= 2 /\ ~(Len(apiPath) = 2 /\ apiPath[2] = "")
  /\ LET valid == Len(apiPath) = 2 /\ apiPath[1] \in Types /\ apiPath[2] \in Hex
         Does(do) == valid /\ Acts(do, prefix, apiPath[1], apiPath[2])
     IN \/ req.method = "PUT" /\ Finish(405)
        \/ req.method # "PUT" /\ ~valid /\ Finish(400)
        \/ req.method \in {"GET", "HEAD"} /\ Does("read")
        \/ req.method = "POST" /\ Does("save")
        \/ req.method = "DELETE" /\ Does("remove")

\* A type without a slash behind it.
NoRoute == Len(apiPath) = 1 /\ apiPath[1] \notin {"", "config"} /\ Finish(404)

Handle ==
  /\ stage = "route" /\ ~System(apiPath)
  /\ RepoRoute \/ ConfigRoute \/ ListRoute \/ BlobRoute \/ NoRoute
  /\ UNCHANGED <<vars, request>>

-----------------------------------------------------------------------------
\* Mutant of repoParam: the path is taken as it is.
repoParamAsIs(path) == path

\* repoParam.
repoParam(path) == SplitRepoPath(path)

\* What follows /-/ui/repos/.
UIRest == SubSeq(apiPath, 4, Len(apiPath))
IsUI == Len(apiPath) >= 4 /\ apiPath[2] = "ui" /\ apiPath[3] = "repos"

basicAuth == conf.uiAuth => req.login

\* RepoDetail lists the locks of its repository and looks up its traffic.
RepoDetail ==
  /\ req.method = "GET" /\ UIRest # <<"">>
  /\ \/ Rejected(UIRest) /\ Finish(400)
     \/ /\ ~Rejected(UIRest) /\ stage' = "done" /\ status' = 200
        /\ row' = <<repoParam(UIRest)>>
        /\ effect' = [do |-> "list", repo |-> Clean(repoParam(UIRest)), type |-> "locks", name |-> ""]
        /\ UNCHANGED <<prefix, apiPath, append>>

\* DeleteLock.
DeleteLock ==
  LET n == Len(UIRest)
      p == SubSeq(UIRest, 1, n - 1)
  IN /\ req.method = "POST"
     /\ \/ ~(n >= 2 /\ UIRest[n] = "delete-lock") /\ Finish(404)
        \/ /\ n >= 2 /\ UIRest[n] = "delete-lock"
           /\ CASE Rejected(p) -> Finish(400)
                [] ~Rejected(p) /\ ~(req.token /\ req.lock \in Hex) -> Finish(303)
                [] OTHER -> Acts("remove", repoParam(p), "locks", req.lock)

\* The other pages, the metrics and unknown system routes change nothing stored.
HandleSystem ==
  /\ stage = "route" /\ System(apiPath)
  /\ \/ IsUI /\ basicAuth /\ (RepoDetail \/ DeleteLock)
     \/ IsUI /\ ~basicAuth /\ Finish(401)
     \/ ~(IsUI /\ (req.method = "POST" \/ (req.method = "GET" /\ UIRest # <<"">>)))
        /\ \E code \in {200, 401, 404} : Finish(code)
  /\ UNCHANGED <<vars, request>>

Served == stage = "done" /\ UNCHANGED authVars

AuthNext == RepoPrefix \/ Bypass \/ Resolve \/ Decide \/ Handle \/ HandleSystem \/ Served
AuthSpec == AuthInit /\ [][AuthNext]_authVars

-----------------------------------------------------------------------------
\* What a client must be permitted for a handler to do what it did.
Needed ==
  CASE effect.do \in {"read", "list"} -> ReadOnly
    [] effect.do \in {"createRepo", "save"} -> AppendOnly
    [] effect.do = "remove" -> IF effect.type = "locks" THEN AppendOnly ELSE FullAccess
    [] effect.do = "deleteRepo" -> FullAccess

\* However a request is spelled, its handler acts in the repository that the ACL was
\* asked about, and the engine's answer covers what the handler does there, which
\* router and handler decide independently of classifyOperation; one who may save
\* but not delete bears the append-only mark.  The UI, which asks nobody, lists and
\* removes locks only, for those who are logged in where a login is configured.
DecisionCoversEffect ==
  effect.do # "none" =>
    IF System(apiPath)
    THEN effect.type = "locks" /\ basicAuth
    ELSE /\ pc = "done" /\ effect.repo = repoPath /\ result >= Needed
         /\ effect.do = "save" /\ result < FullAccess => append

\* No request of the API takes a part of a repository for a repository: the names of
\* the directories that a repository consists of do not occur in a prefix.
NoPartOfARepository ==
  effect.do # "none" /\ ~System(apiPath) =>
    \A n \in DOMAIN effect.repo : effect.repo[n] \notin knownSegments

\* A request for an object or a listing, with any number of slashes between its parts,
\* is served unless the ACL denies it, and concerns that object of that repository.
Serves ==
  LET s == SplitRepoPath(req.path)
      n == Len(s)
      slash == req.path[Len(req.path)] = ""
      Repo(m) == SubSeq(s, 1, m)
      Plain(p) == /\ ~Rejected(p) /\ \A m \in DOMAIN p : p[m] \notin knownSegments
  IN stage = "done" /\ status # 403 /\ ~System(req.path) =>
       /\ n >= 2 /\ Plain(Repo(n - 2)) /\ s[n - 1] \in Types /\ s[n] \in Hex /\ ~slash
          /\ req.method \in {"GET", "HEAD", "POST", "DELETE"} =>
            /\ effect.repo = Repo(n - 2) /\ effect.type = s[n - 1] /\ effect.name = s[n]
            /\ effect.do \in {"read", "save", "remove"}
       /\ n >= 1 /\ Plain(Repo(n - 1)) /\ s[n] \in Types /\ slash /\ req.method = "GET" =>
            effect = [do |-> "list", repo |-> Repo(n - 1), type |-> s[n], name |-> ""]

\* repoPath of the statistics wrapper: the key under which the traffic of the
\* repository with prefix p is recorded.
recorded(p) == IF p = <<>> THEN <<"/">> ELSE p

\* The page of a repository looks up the row that the traffic of that repository is
\* recorded in, however its path is spelled, and never that of another one.  The page
\* of the repository at the root finds nothing: it looks for a row with an empty key.
RowFound ==
  \A n \in DOMAIN row :
    LET p == Clean(UIRest) IN row[n] = IF p = <<>> THEN <<>> ELSE recorded(p)
=============================================================================
