--------------------------- MODULE RemoteBackend ---------------------------
(***************************************************************************)
(* The storage backends that keep nothing themselves and hold no lock: S3, *)
(* WebDAV and rclone (internal/storage/s3, .../webdav, .../rclone).  An    *)
(* operation is a sequence of requests to the server, and the requests of  *)
(* operations in flight interleave.  A request that fails may have been    *)
(* carried out, not have been, or still be on its way: it then arrives     *)
(* when the operation has long been answered.                              *)
(*                                                                         *)
(* External is what a server makes of a request.  S3 stores an object as a *)
(* whole.  The others are sent the body as it comes in, may show what they *)
(* have of it, and may keep that when the upload breaks off; of two        *)
(* uploads the one completed last stands.  Directories make no difference  *)
(* to what is answered and are left out.                                   *)
(***************************************************************************)
EXTENDS Integers, FiniteSets

CONSTANTS
  Backend,    \* which of "s3", "webdav" and "rclone" may be configured
  Prefix,     \* repository prefixes
  Active,     \* those that clients work on; the others are only there
  Starts,     \* Starts[p]: the prefixes whose text starts with that of p
  Under,      \* Under[p]: p and the prefixes inside it
  Blob,       \* blobs of all types
  Sharded,    \* those of type data, with a name of two or more characters
  Config,     \* the config object
  Bodies,     \* Bodies[o]: the request bodies that clients send for object o
  Legacy,     \* the blobs that may be stored at their flat key initially
  Misread,    \* the objects whose paths contain what isNotFound looks for in a text
  Rank,       \* Rank[x]: the place of path x in the order of keys
  Op,         \* slots for operations in flight
  MaxLate,    \* a bound on the changes of single keys on their way after an answer
  Nil, Torn   \* nothing; bytes that are not one complete body

Object == Blob \cup {Config}
Content == UNION {Bodies[o] : o \in Object}

ASSUME BackendAssumption == Backend \subseteq {"s3", "webdav", "rclone"}
ASSUME RemoteObjectAssumption ==
  Sharded \subseteq Blob /\ Legacy \subseteq Sharded /\ Config \notin Blob /\ Misread \subseteq Object
  /\ Active \subseteq Prefix
ASSUME RemoteContentAddressed == \A o \in Blob : \E c \in Content : Bodies[o] = {c}
ASSUME RemoteNilAssumption == Nil \notin Content /\ Torn \notin Content /\ Nil # Torn
ASSUME RemotePrefixAssumption ==
  \A p \in Prefix : p \in Under[p] /\ Under[p] \subseteq Starts[p] /\ Starts[p] \subseteq Prefix

Final(o) == <<o, "final">>
Flat(o) == <<o, "flat">>
Paths == {Final(o) : o \in Object} \cup {Flat(o) : o \in Sharded}
Last == Cardinality(Paths)
ASSUME RankAssumption == Last \in Nat /\ \A x \in Paths : Rank[x] \in 1 .. Last

VARIABLES
  kind,      \* the backend configured
  obj,       \* obj[p][x]: what the server holds at path x of prefix p
  repo,      \* rclone: the prefixes its server knows a repository at
  late,      \* requests that may still be carried out
  pc, rq,    \* pc[r], rq[r]: the next request of the operation in slot r, what it is about
  page,      \* page[r]: how far a listing has come and the keys it returned last
  ans,       \* ans[r]: the result it returned
  seen,      \* history: what was at the paths of an object it asks about since it began
  want,      \* history: the keys a DeleteRepo found there that were never gone since
  refused,   \* history: the keys that the server would not delete for it
  mistaken,  \* history: the operations that took another error for "not found"
  broken     \* history: the objects of which an upload broke off, and none succeeded since

local == <<pc, rq, page, ans>>
vars == <<kind, obj, repo, late, local, seen, want, refused, mistaken, broken>>

\* The fallback to the flat path; rclone's server knows only one path.
Fallback(o) == kind # "rclone" /\ o \in Sharded
PathsOf(o) == {Final(o)} \cup (IF Fallback(o) THEN {Flat(o)} ELSE {})
Value(p, o) ==
  IF obj[p][Final(o)] = Nil /\ Fallback(o) THEN obj[p][Flat(o)] ELSE obj[p][Final(o)]

NoRequest == [kind |-> "none", p |-> Nil, o |-> Nil, body |-> Nil, key |-> Nil]
NoAnswer == [err |-> "none", value |-> Nil]
NoPage == [after |-> 0, keys |-> {}, found |-> {}]
Each(v) == [r \in Op |-> v]

Init ==
  /\ kind \in Backend
  /\ \E L \in {l \in [Prefix -> SUBSET Legacy] : \A p \in Prefix \ Active : l[p] = Legacy} :
       obj = [p \in Prefix |-> [x \in Paths |->
                IF x[2] = "flat" /\ x[1] \in L[p] THEN CHOOSE c \in Bodies[x[1]] : TRUE ELSE Nil]]
  /\ repo = {} /\ late = {} /\ mistaken = {} /\ broken = {}
  /\ pc = Each("idle") /\ rq = Each(NoRequest) /\ page = Each(NoPage) /\ ans = Each(NoAnswer)
  /\ seen = Each({}) /\ want = Each({}) /\ refused = Each({})

-----------------------------------------------------------------------------
\* The operations that tell something about an object.
Asking == {"Read", "DeleteBlob", "ListBlobs"}

\* What the server holds of an object when it holds f.
At(f, p, o) == {<<x, f[p][x]>> : x \in PathsOf(o)}

\* A change on the server, and what the operations in flight live through.
Becomes(new) ==
  /\ obj' = new
  /\ seen' = [r \in Op |-> IF rq[r].kind \notin Asking THEN {}
                           ELSE seen[r] \cup At(new, rq[r].p, rq[r].o)]
  /\ want' = [r \in Op |-> {e \in want[r] : new[e[1]][e[2]] # Nil}]

Set(p, x, v) == Becomes([obj EXCEPT ![p][x] = v])
Same == UNCHANGED <<obj, seen, want>>

\* The request is not answered and may be carried out at any later time.
Delayed(p, x, v) ==
  /\ Cardinality(late) < MaxLate
  /\ late' = late \cup {<<p, x, v>>} /\ Same

\* The same of a deletion of many keys, which the server deletes one by one, if at all.
DelayedAll(keys) ==
  /\ \E S \in SUBSET keys : late' = late \cup {<<e[1], e[2], Nil>> : e \in S}
  /\ Cardinality(late') <= MaxLate /\ Same

LateArrives ==
  \E e \in late :
    /\ late' = late \ {e} /\ Set(e[1], e[2], e[3])
    /\ UNCHANGED <<kind, repo, local, refused, mistaken, broken>>

Goto(r, step) == pc' = [pc EXCEPT ![r] = step] /\ UNCHANGED <<rq, page, ans>>
Return(r, e, value) ==
  /\ pc' = [pc EXCEPT ![r] = "done"]
  /\ ans' = [ans EXCEPT ![r] = [err |-> e, value |-> value]]
  /\ UNCHANGED <<rq, page>>
ReturnError(r) == Return(r, "error", Nil)

Still == UNCHANGED <<kind, repo, late, refused, mistaken, broken>>

-----------------------------------------------------------------------------
FirstRequest(what) ==
  CASE what = "CreateRepo" -> "create"
    [] what = "DeleteRepo" -> IF kind = "s3" THEN "page" ELSE "removeAll"
    [] what \in {"SaveConfig", "SaveBlob"} ->
         IF kind = "s3" THEN "body"
         ELSE IF kind = "webdav" /\ what = "SaveBlob" THEN "mkdir" ELSE "upload"
    [] what = "DeleteBlob" -> IF kind = "s3" THEN "head" ELSE "remove"
    [] what = "Read" -> "read"
    [] what = "ListBlobs" ->
         CASE kind = "s3" -> "listPage" [] kind = "webdav" -> "listDir" [] kind = "rclone" -> "list"

Begin(r, what, p, o, body) ==
  /\ pc[r] = "idle"
  /\ pc' = [pc EXCEPT ![r] = FirstRequest(what)]
  /\ rq' = [rq EXCEPT ![r] = [kind |-> what, p |-> p, o |-> o, body |-> body, key |-> Nil]]
  /\ seen' = [seen EXCEPT ![r] = IF what \in Asking THEN At(obj, p, o) ELSE {}]
  /\ want' = [want EXCEPT ![r] =
                IF what # "DeleteRepo" THEN {}
                ELSE {e \in Under[p] \X Paths : obj[e[1]][e[2]] # Nil}]
  /\ UNCHANGED <<kind, obj, repo, late, page, ans, refused, mistaken, broken>>

Finish(r) ==
  /\ pc[r] = "done"
  /\ pc' = [pc EXCEPT ![r] = "idle"] /\ rq' = [rq EXCEPT ![r] = NoRequest]
  /\ page' = [page EXCEPT ![r] = NoPage] /\ ans' = [ans EXCEPT ![r] = NoAnswer]
  /\ seen' = [seen EXCEPT ![r] = {}] /\ want' = [want EXCEPT ![r] = {}]
  /\ refused' = [refused EXCEPT ![r] = {}] /\ mistaken' = mistaken \ {r}
  /\ UNCHANGED <<kind, obj, repo, late, broken>>

-----------------------------------------------------------------------------
\* CreateRepo: a marker on S3, directories on WebDAV; only rclone tells whether
\* the repository was there.
Create(r) ==
  /\ pc[r] = "create" /\ Same
  /\ \/ /\ repo' = IF kind = "rclone" THEN repo \cup {rq[r].p} ELSE repo
        /\ \/ Return(r, IF rq[r].p \in repo THEN "ErrRepoExists" ELSE "ok", Nil)
           \/ ReturnError(r)
     \/ UNCHANGED repo /\ ReturnError(r)
  /\ UNCHANGED <<kind, late, refused, mistaken, broken>>

\* Mutant of ReadBody: an error of the reader is overlooked.
ReadBodyBlind(r) ==
  /\ pc[r] = "body" /\ Same /\ Still
  /\ pc' = [pc EXCEPT ![r] = "put"]
  /\ \E b \in {rq[r].body, Torn} : rq' = [rq EXCEPT ![r].body = b]
  /\ UNCHANGED <<page, ans>>

\* S3: the whole body is read, up to a limit, before a request is made.
ReadBody(r) == pc[r] = "body" /\ (Goto(r, "put") \/ ReturnError(r)) /\ Same /\ Still

\* One PutObject, at the sharded key, whatever is stored already.
PutObject(r) ==
  /\ pc[r] = "put"
  /\ \/ Set(rq[r].p, Final(rq[r].o), rq[r].body) /\ UNCHANGED late
        /\ (Return(r, "ok", Nil) \/ ReturnError(r))
     \/ Same /\ UNCHANGED late /\ ReturnError(r)
     \/ Delayed(rq[r].p, Final(rq[r].o), rq[r].body) /\ ReturnError(r)
  /\ UNCHANGED <<kind, repo, refused, mistaken, broken>>

\* WebDAV: MkdirAll of the blob's directory.
Mkdir(r) == pc[r] = "mkdir" /\ (Goto(r, "upload") \/ ReturnError(r)) /\ Same /\ Still

\* WebDAV and rclone pass the body on as it comes in.
UploadStarts(r) ==
  /\ pc[r] = "upload" /\ Still
  /\ \/ Set(rq[r].p, Final(rq[r].o), Torn) \/ Same
  /\ Goto(r, "uploading")

Others(r) == {s \in Op \ {r} : pc[s] = "uploading" /\ rq[s].p = rq[r].p /\ rq[s].o = rq[r].o}

UploadEnds(r) ==
  /\ pc[r] = "uploading"
  /\ broken' = broken \ {<<rq[r].p, rq[r].o>>} /\ UNCHANGED <<kind, repo, late, refused, mistaken>>
  /\ \E v \in {rq[r].body} \cup (IF Others(r) = {} THEN {} ELSE {Torn}) :
       Set(rq[r].p, Final(rq[r].o), v)
  /\ Return(r, "ok", Nil) \/ ReturnError(r)

\* Mutant of UploadBreaks: the error is overlooked.
UploadBreaksUnseen(r) ==
  /\ pc[r] = "uploading"
  /\ Set(rq[r].p, Final(rq[r].o), Torn)
  /\ Return(r, "ok", Nil)
  /\ UNCHANGED <<kind, repo, late, refused, mistaken, broken>>

\* The client, the connection or the server fails: what the server keeps is what
\* it had, a part, or nothing.
UploadBreaks(r) ==
  /\ pc[r] = "uploading"
  /\ \/ Same
     \/ \E v \in {Nil, Torn} : Set(rq[r].p, Final(rq[r].o), v)
  /\ broken' = broken \cup {<<rq[r].p, rq[r].o>>}
  /\ ReturnError(r)
  /\ UNCHANGED <<kind, repo, late, refused, mistaken>>

-----------------------------------------------------------------------------
\* isNotFound.  It looks for the digits 404 on WebDAV, and for words like NotFound on
\* S3, in the text of the error, which may name the path or the URL: the error may be
\* any when they occur there.  rclone goes by the status alone.
NotFound(r, x) ==
  \/ obj[rq[r].p][x] = Nil /\ UNCHANGED mistaken
  \/ /\ kind # "rclone" /\ rq[r].o \in Misread
     /\ mistaken' = mistaken \cup {r}

\* StatConfig, GetConfig, StatBlob, GetBlob.
Look(r, x, found, missing) ==
  /\ Same /\ UNCHANGED <<kind, repo, late, refused, broken>>
  /\ \/ obj[rq[r].p][x] # Nil /\ found /\ UNCHANGED mistaken
     \/ NotFound(r, x) /\ missing
     \/ ReturnError(r) /\ UNCHANGED mistaken

\* Mutant of Read: an error counts as "not found".
ReadAny(r) ==
  /\ pc[r] = "read" /\ Same /\ Still
  /\ \/ obj[rq[r].p][Final(rq[r].o)] # Nil /\ Return(r, "ok", obj[rq[r].p][Final(rq[r].o)])
     \/ IF Fallback(rq[r].o) THEN Goto(r, "readFlat") ELSE Return(r, "ErrNotFound", Nil)

Read(r) ==
  /\ pc[r] = "read"
  /\ Look(r, Final(rq[r].o), Return(r, "ok", obj[rq[r].p][Final(rq[r].o)]),
          IF Fallback(rq[r].o) THEN Goto(r, "readFlat") ELSE Return(r, "ErrNotFound", Nil))

ReadFlat(r) ==
  /\ pc[r] = "readFlat"
  /\ Look(r, Flat(rq[r].o), Return(r, "ok", obj[rq[r].p][Flat(rq[r].o)]),
          Return(r, "ErrNotFound", Nil))

-----------------------------------------------------------------------------
\* S3: DeleteBlob looks where the blob is, then deletes that key.
Chosen(r, x) ==
  /\ pc' = [pc EXCEPT ![r] = "delete"] /\ rq' = [rq EXCEPT ![r].key = x]
  /\ UNCHANGED <<page, ans>>

Head(r) ==
  /\ pc[r] = "head"
  /\ Look(r, Final(rq[r].o), Chosen(r, Final(rq[r].o)),
          IF Fallback(rq[r].o) THEN Goto(r, "headFlat") ELSE Return(r, "ErrNotFound", Nil))

HeadFlat(r) ==
  /\ pc[r] = "headFlat"
  /\ Look(r, Flat(rq[r].o), Chosen(r, Flat(rq[r].o)), Return(r, "ErrNotFound", Nil))

\* A key that is no longer there is deleted with success.
DeleteObject(r) ==
  /\ pc[r] = "delete"
  /\ \/ Set(rq[r].p, rq[r].key, Nil) /\ UNCHANGED late
        /\ (Return(r, "ok", Nil) \/ ReturnError(r))
     \/ Same /\ UNCHANGED late /\ ReturnError(r)
     \/ Delayed(rq[r].p, rq[r].key, Nil) /\ ReturnError(r)
  /\ UNCHANGED <<kind, repo, refused, mistaken, broken>>

\* WebDAV and rclone: the server says whether the file was there, and WebDAV's
\* library may make a success of it that it was not.
Removal(r, x, missing) ==
  /\ \/ /\ obj[rq[r].p][x] # Nil /\ Set(rq[r].p, x, Nil) /\ UNCHANGED <<late, mistaken>>
        /\ Return(r, "ok", Nil) \/ ReturnError(r)
     \/ NotFound(r, x) /\ Same /\ UNCHANGED late /\ missing
     \/ /\ kind = "webdav" /\ obj[rq[r].p][x] = Nil /\ Same /\ UNCHANGED <<late, mistaken>>
        /\ Return(r, "ok", Nil)
     \/ Same /\ UNCHANGED <<late, mistaken>> /\ ReturnError(r)
     \/ Delayed(rq[r].p, x, Nil) /\ UNCHANGED mistaken /\ ReturnError(r)
  /\ UNCHANGED <<kind, repo, refused, broken>>

Remove(r) ==
  /\ pc[r] = "remove"
  /\ Removal(r, Final(rq[r].o),
             IF Fallback(rq[r].o) THEN Goto(r, "removeFlat") ELSE Return(r, "ErrNotFound", Nil))

RemoveFlat(r) ==
  pc[r] = "removeFlat" /\ Removal(r, Flat(rq[r].o), Return(r, "ErrNotFound", Nil))

-----------------------------------------------------------------------------
\* The keys that a request for the next page returns: those present that follow
\* the last one, up to wherever the server ends the page.
PageUpTo(r, n, S) ==
  {e \in S \X Paths : /\ Rank[e[2]] > page[r].after /\ Rank[e[2]] <= n
                      /\ obj[e[1]][e[2]] # Nil}

\* Mutant of PrefixPath: the trailing slash is missing.
PrefixPathBare(p) == Starts[p]

\* prefixPath ends in a slash, so that a listing meets no repository whose name
\* only starts like this one's.
PrefixPath(p) == Under[p]

\* S3: DeleteRepo, one page.
NextPage(r) ==
  /\ pc[r] = "page" /\ Same /\ Still
  /\ \/ /\ page[r].after = Last /\ Return(r, "ok", Nil)
     \/ /\ \E n \in (page[r].after + 1) .. Last :
             LET keys == PageUpTo(r, n, PrefixPath(rq[r].p))
             IN /\ page' = [page EXCEPT ![r] = [after |-> n, keys |-> keys, found |-> {}]]
                /\ pc' = [pc EXCEPT ![r] = IF keys = {} THEN "page" ELSE "deletePage"]
        /\ UNCHANGED <<rq, ans>>
     \/ ReturnError(r)

Without(S) == [p \in Prefix |-> [x \in Paths |-> IF <<p, x>> \in S THEN Nil ELSE obj[p][x]]]

\* Mutant of DeletePage: the last key of a page is left out.
DeletePageShort(r) ==
  /\ pc[r] = "deletePage"
  /\ Becomes(Without({e \in page[r].keys : Rank[e[2]] < page[r].after}))
  /\ Goto(r, "page") /\ Still

\* DeleteObjects answers with the keys it could not delete, which nobody reads.
DeletePage(r) ==
  /\ pc[r] = "deletePage"
  /\ \/ \E S \in SUBSET page[r].keys :
          /\ Becomes(Without(page[r].keys \ S))
          /\ refused' = [refused EXCEPT ![r] = @ \cup S]
          /\ Goto(r, "page") /\ UNCHANGED late
     \/ (Same \/ Becomes(Without(page[r].keys))) /\ UNCHANGED <<late, refused>> /\ ReturnError(r)
     \/ DelayedAll(page[r].keys) /\ UNCHANGED refused /\ ReturnError(r)
  /\ UNCHANGED <<kind, repo, mistaken, broken>>

\* WebDAV and rclone: one request.  WebDAV refuses the top directory before it is
\* made (left to the error below); rclone says when there is nothing.
RemoveAll(r) ==
  LET all == Under[rq[r].p] \X Paths
      there == {e \in all : obj[e[1]][e[2]] # Nil}
  IN /\ pc[r] = "removeAll"
     /\ \/ /\ Becomes(Without(all)) /\ repo' = repo \ Under[rq[r].p]
           /\ IF kind = "rclone" /\ there = {} /\ rq[r].p \notin repo
              THEN Return(r, "ErrRepoNotFound", Nil)
              ELSE Return(r, "ok", Nil)
           /\ UNCHANGED late
        \/ \E S \in SUBSET there : Becomes(Without(S)) /\ UNCHANGED <<repo, late>> /\ ReturnError(r)
        \/ DelayedAll(all) /\ repo' \in {repo, repo \ Under[rq[r].p]} /\ ReturnError(r)
     /\ UNCHANGED <<kind, refused, mistaken, broken>>

-----------------------------------------------------------------------------
Entries(r, S) == {x \in S \cap Paths : obj[rq[r].p][x] # Nil}
Collects(r, n, new, next) ==
  /\ page' = [page EXCEPT ![r] = [after |-> n, keys |-> {}, found |-> page[r].found \cup new]]
  /\ pc' = [pc EXCEPT ![r] = next]
  /\ ans' = [ans EXCEPT ![r] = IF next = "done" THEN [err |-> "ok", value |-> Nil] ELSE NoAnswer]
  /\ UNCHANGED rq

\* WebDAV: the directory that path x lies in is read.  An error that isNotFound
\* accepts passes for an empty directory.
ReadDir(r, x, next) ==
  /\ Same /\ UNCHANGED <<kind, repo, late, refused, broken>>
  /\ \/ Collects(r, 0, Entries(r, {x}), next) /\ UNCHANGED mistaken
     \/ /\ rq[r].o \in Misread /\ mistaken' = mistaken \cup {r}
        /\ Collects(r, 0, {}, next)
     \/ ReturnError(r) /\ UNCHANGED mistaken

\* ListBlobs, seen at the blob rq.o.  WebDAV: the type's directory, then the shards.
ListDir(r) ==
  /\ pc[r] = "listDir"
  /\ IF rq[r].o \in Sharded THEN ReadDir(r, Flat(rq[r].o), "listShard")
     ELSE ReadDir(r, Final(rq[r].o), "done")

ListShard(r) == pc[r] = "listShard" /\ ReadDir(r, Final(rq[r].o), "done")

\* S3: page after page.
ListPage(r) ==
  /\ pc[r] = "listPage" /\ Same /\ Still
  /\ \/ \E n \in (page[r].after + 1) .. Last :
          LET new == {x \in Entries(r, {Final(rq[r].o), Flat(rq[r].o)}) :
                        Rank[x] > page[r].after /\ Rank[x] <= n}
          IN Collects(r, n, new, IF n = Last THEN "done" ELSE "listPage")
     \/ ReturnError(r)

\* rclone: one request.
List(r) ==
  /\ pc[r] = "list" /\ Same /\ Still
  /\ Collects(r, 0, Entries(r, {Final(rq[r].o)}), "done") \/ ReturnError(r)

-----------------------------------------------------------------------------
Kinds == {"CreateRepo", "DeleteRepo", "SaveConfig", "SaveBlob", "DeleteBlob", "Read", "ListBlobs"}
Targets(what) ==
  CASE what \in {"CreateRepo", "DeleteRepo"} -> {Nil}
    [] what = "SaveConfig" -> {Config}
    [] what = "Read" -> Object
    [] what \in {"SaveBlob", "DeleteBlob", "ListBlobs"} -> Blob
Payloads(what, o) == IF what \in {"SaveConfig", "SaveBlob"} THEN Bodies[o] ELSE {Nil}

Next ==
  \/ \E r \in Op :
       \/ \E what \in Kinds, p \in Active : \E o \in Targets(what) :
            \E body \in Payloads(what, o) : Begin(r, what, p, o, body)
       \/ Create(r) \/ ReadBody(r) \/ PutObject(r)
       \/ Mkdir(r) \/ UploadStarts(r) \/ UploadEnds(r) \/ UploadBreaks(r)
       \/ Read(r) \/ ReadFlat(r)
       \/ Head(r) \/ HeadFlat(r) \/ DeleteObject(r) \/ Remove(r) \/ RemoveFlat(r)
       \/ NextPage(r) \/ DeletePage(r) \/ RemoveAll(r)
       \/ ListDir(r) \/ ListShard(r) \/ ListPage(r) \/ List(r)
       \/ Finish(r)
  \/ LateArrives

Spec == Init /\ [][Next]_vars

-----------------------------------------------------------------------------
Steps == {"idle", "create", "body", "put", "mkdir", "upload", "uploading", "read", "readFlat",
          "head", "headFlat", "delete", "remove", "removeFlat", "page", "deletePage", "removeAll",
          "list", "listPage", "listDir", "listShard", "done"}

Errors == {"none", "ok", "error", "ErrNotFound", "ErrRepoExists", "ErrRepoNotFound"}
Held == Content \cup {Nil, Torn}
Keys == Prefix \X Paths

\* Every variable has its type.
TypeOK ==
  /\ kind \in Backend /\ repo \subseteq Prefix
  /\ obj \in [Prefix -> [Paths -> Held]]
  /\ late \subseteq Prefix \X Paths \X Held
  /\ pc \in [Op -> Steps]
  /\ rq \in [Op -> [kind : Kinds \cup {"none"}, p : Prefix \cup {Nil}, o : Object \cup {Nil},
                    body : Content \cup {Nil}, key : Paths \cup {Nil}]]
  /\ page \in [Op -> [after : 0 .. Last, keys : SUBSET Keys, found : SUBSET Paths]]
  /\ ans \in [Op -> [err : Errors, value : Held]]
  /\ seen \in [Op -> SUBSET (Paths \X Held)]
  /\ want \in [Op -> SUBSET Keys] /\ refused \in [Op -> SUBSET Keys]
  /\ mistaken \subseteq Op /\ broken \subseteq Prefix \X Object

\* S3 never holds a part of a body.  On the others a part is found only while an
\* upload of that object is going on, or after one broke off, which its client
\* was told; no success was answered for it since.
TornBlamed ==
  \A p \in Prefix, x \in Paths :
    obj[p][x] = Torn =>
      /\ kind # "s3" /\ x[2] = "final"
      /\ \/ <<p, x[1]>> \in broken
         \/ \E r \in Op : pc[r] = "uploading" /\ rq[r].p = p /\ rq[r].o = x[1]

Gone(r, x) == <<x, Nil>> \in seen[r]
There(r, x) == \E v \in Held \ {Nil} : <<x, v>> \in seen[r]
AnswerTrue(r) ==
  LET all == PathsOf(rq[r].o)
      first == Final(rq[r].o)
  IN /\ ans[r].err = "ErrNotFound" => (\A x \in all : Gone(r, x)) \/ r \in mistaken
     /\ rq[r].kind = "Read" /\ ans[r].err = "ok" =>
          ans[r].value # Nil /\ \E x \in all : <<x, ans[r].value>> \in seen[r]
     /\ rq[r].kind = "DeleteBlob" /\ ans[r].err = "ok" =>
          \/ \E x \in all : Gone(r, x) /\ There(r, x)
          \/ kind = "webdav" /\ (Gone(r, first) \/ r \in mistaken)
     /\ rq[r].kind = "ListBlobs" /\ ans[r].err = "ok" =>
          \A x \in all : IF x \in page[r].found THEN There(r, x) ELSE Gone(r, x) \/ r \in mistaken

\* What an operation answers is true of moments while it was carried out, although
\* its requests interleave with those of others and with late ones.  "Not found":
\* nothing was at each of the paths in turn.  A value that was read, an entry that
\* was listed, had been there, and what was not listed had been away; a blob that was
\* deleted had been there and then not.  The exceptions: any error about a path in
\* which isNotFound finds its words passes for "not found", on WebDAV also for an
\* empty directory; and WebDAV's deletion succeeds also when nothing is at the first
\* of the two paths, although something may be at the second.
AnswersTrue == \A r \in Op : pc[r] = "done" => AnswerTrue(r)

\* When DeleteRepo has answered with success, everything that was there when it
\* began has been gone at some time since, on whatever pages it was listed, except
\* the keys that S3 would not delete.
RepoGone ==
  \A r \in Op :
    pc[r] = "done" /\ rq[r].kind = "DeleteRepo" /\ ans[r].err = "ok" => want[r] \subseteq refused[r]

\* An object changes only by an operation on its own repository, or on one that
\* its repository lies in, or by a request of such an operation that came late.
Touches(p) ==
  \/ \E r \in Op : pc[r] \notin {"idle", "done"} /\ p \in Under[rq[r].p]
  \/ \E e \in late : e[1] = p
Isolated == [][\A p \in Prefix : obj'[p] # obj[p] => Touches(p)]_vars

\* S3 is an atomic object store, whatever becomes of its requests.
Values == [p \in Prefix |-> [o \in Object |-> IF kind = "s3" THEN Value(p, o) ELSE Nil]]
Store == INSTANCE ObjectStore WITH stored <- Values
ImplementsStore == Store!Spec
=============================================================================
