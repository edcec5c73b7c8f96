------------------------- MODULE RemoteBackendProofs -------------------------
(***************************************************************************)
(* Proofs about the S3, WebDAV and rclone backends, for every set of       *)
(* repositories, blobs and bodies, any number of operations in flight and  *)
(* of requests that are still on their way.                                *)
(***************************************************************************)
EXTENDS RemoteBackend, TLAPS

\* Which operations make which request.
KindsAt(step) ==
  CASE step = "create" -> {"CreateRepo"}
    [] step \in {"page", "deletePage", "removeAll"} -> {"DeleteRepo"}
    [] step \in {"body", "put", "mkdir", "upload", "uploading"} -> {"SaveConfig", "SaveBlob"}
    [] step \in {"head", "headFlat", "delete", "remove", "removeFlat"} -> {"DeleteBlob"}
    [] step \in {"read", "readFlat"} -> {"Read"}
    [] step \in {"list", "listPage", "listDir", "listShard"} -> {"ListBlobs"}
    [] OTHER -> Kinds

\* Which backends make which request.
BackendsAt(step) ==
  CASE step \in {"body", "put", "head", "headFlat", "delete", "page", "deletePage", "listPage"} -> {"s3"}
    [] step \in {"mkdir", "listDir", "listShard"} -> {"webdav"}
    [] step = "list" -> {"rclone"}
    [] step \in {"upload", "uploading", "remove", "removeFlat", "removeAll"} -> {"webdav", "rclone"}
    [] OTHER -> {"s3", "webdav", "rclone"}

\* The operation in slot r makes its own requests, on what it was called with.
PlacedAt(r) ==
  /\ rq[r].kind \in KindsAt(pc[r]) /\ kind \in BackendsAt(pc[r])
  /\ rq[r].p \in Active /\ rq[r].o \in Targets(rq[r].kind)
  /\ rq[r].body \in Payloads(rq[r].kind, rq[r].o)
  /\ pc[r] \in {"readFlat", "headFlat", "removeFlat", "listShard"} => Fallback(rq[r].o)
  /\ pc[r] = "delete" => rq[r].key \in PathsOf(rq[r].o)
  /\ pc[r] = "deletePage" => page[r].keys \subseteq Under[rq[r].p] \X Paths
Placed == \A r \in Op : IF pc[r] = "idle" THEN rq[r] = NoRequest /\ page[r] = NoPage ELSE PlacedAt(r)

\* Only whole bodies and deletions are on their way, and what is stored is a body
\* of its object or a part of one.
LateWhole == \A e \in late : e[3] \in Bodies[e[2][1]] \cup {Nil}
Own == \A p \in Prefix, x \in Paths : obj[p][x] \in Bodies[x[1]] \cup {Nil, Torn}

\* Any step of an operation but its begin and its end, and how it leaves the others.
Working(r) ==
  \/ Create(r) \/ ReadBody(r) \/ PutObject(r)
  \/ Mkdir(r) \/ UploadStarts(r) \/ UploadEnds(r) \/ UploadBreaks(r)
  \/ Read(r) \/ ReadFlat(r)
  \/ Head(r) \/ HeadFlat(r) \/ DeleteObject(r) \/ Remove(r) \/ RemoveFlat(r)
  \/ NextPage(r) \/ DeletePage(r) \/ RemoveAll(r)
  \/ ListDir(r) \/ ListShard(r) \/ ListPage(r) \/ List(r)

Apart(r) ==
  \A q \in Op \ {r} :
    /\ pc'[q] = pc[q] /\ rq'[q] = rq[q] /\ page'[q] = page[q] /\ ans'[q] = ans[q]
    /\ refused'[q] = refused[q] /\ (q \in mistaken' <=> q \in mistaken)

Flow == Same \/ \E new : Becomes(new)

\* The parts of TypeOK: what operations keep, and what the server and the histories do.
LocalTyped ==
  /\ kind \in Backend /\ repo \subseteq Prefix
  /\ pc \in [Op -> Steps]
  /\ rq \in [Op -> [kind : Kinds \cup {"none"}, p : Prefix \cup {Nil}, o : Object \cup {Nil},
                    body : Content \cup {Nil}, key : Paths \cup {Nil}]]
  /\ page \in [Op -> [after : 0 .. Last, keys : SUBSET Keys, found : SUBSET Paths]]
  /\ ans \in [Op -> [err : Errors, value : Held]]
  /\ refused \in [Op -> SUBSET Keys]
  /\ mistaken \subseteq Op /\ broken \subseteq Prefix \X Object
ServerTyped ==
  /\ obj \in [Prefix -> [Paths -> Held]]
  /\ late \subseteq Prefix \X Paths \X Held
Watching ==
  seen \in [Op -> SUBSET (Paths \X Held)] /\ want \in [Op -> SUBSET Keys]

-----------------------------------------------------------------------------
LEMMA RemoteFacts ==
  /\ \A o \in Object : Final(o) \in Paths /\ Final(o)[1] = o /\ Final(o)[2] = "final"
  /\ \A o \in Sharded : Flat(o) \in Paths /\ Flat(o)[1] = o /\ o \in Blob
  /\ \A o, q : Final(o) # Flat(q) /\ (Final(o) = Final(q) => o = q) /\ (Flat(o) = Flat(q) => o = q)
  /\ \A x \in Paths : x[1] \in Object
  /\ \A o \in Blob : o \in Object /\ o # Config
  /\ Config \in Object
BY RemoteObjectAssumption DEF Paths, Final, Flat, Object

LEMMA RemoteBodies ==
  ASSUME NEW o \in Object
  PROVE  Bodies[o] \subseteq Content /\ Nil \notin Bodies[o] /\ Torn \notin Bodies[o]
BY RemoteNilAssumption DEF Content

LEMMA RemoteParts == TypeOK <=> LocalTyped /\ ServerTyped /\ Watching
BY DEF TypeOK, LocalTyped, ServerTyped, Watching

\* What a proper request is about.
LEMMA RequestFacts ==
  ASSUME NEW r \in Op, PlacedAt(r)
  PROVE  /\ rq[r].p \in Prefix /\ rq[r].p \in Under[rq[r].p] /\ Under[rq[r].p] \subseteq Prefix
         /\ rq[r].kind \notin {"CreateRepo", "DeleteRepo"} => rq[r].o \in Object
         /\ rq[r].kind \in {"SaveConfig", "SaveBlob"} =>
              rq[r].body \in Bodies[rq[r].o] /\ rq[r].body \in Content
         /\ rq[r].kind \in {"DeleteBlob", "ListBlobs"} => rq[r].o \in Blob
         /\ rq[r].kind \in Kinds
         /\ Fallback(rq[r].o) => Flat(rq[r].o) \in Paths
<1>1. rq[r].p \in Prefix /\ rq[r].p \in Under[rq[r].p] /\ Under[rq[r].p] \subseteq Prefix
  BY RemoteObjectAssumption, RemotePrefixAssumption DEF PlacedAt
<1>2. rq[r].kind \in Kinds
  BY DEF PlacedAt, KindsAt, Kinds
<1>3. /\ rq[r].kind \notin {"CreateRepo", "DeleteRepo"} => rq[r].o \in Object
      /\ rq[r].kind \in {"DeleteBlob", "ListBlobs"} => rq[r].o \in Blob
  BY <1>2, RemoteFacts DEF PlacedAt, Targets, Kinds
<1>4. rq[r].kind \in {"SaveConfig", "SaveBlob"} => rq[r].body \in Bodies[rq[r].o]
  BY DEF PlacedAt, Payloads
<1> QED BY <1>1, <1>2, <1>3, <1>4, RemoteFacts, RemoteBodies DEF Fallback

\* A step of one operation leaves what the others keep, and the histories follow the server.
LEMMA Alone ==
  ASSUME LocalTyped, NEW r \in Op, Working(r)
  PROVE  Apart(r) /\ Flow /\ kind' = kind
<1> USE DEF LocalTyped, Apart, Flow
<1>1. CASE Create(r)
  BY <1>1
  DEF Create, Same, Return, ReturnError
<1>2. CASE ReadBody(r)
  BY <1>2
  DEF ReadBody, Goto, Return, ReturnError, Same, Still
<1>3. CASE PutObject(r)
  BY <1>3
  DEF PutObject, Return, ReturnError, Delayed, Same, Set
<1>4. CASE Mkdir(r)
  BY <1>4
  DEF Mkdir, Goto, Return, ReturnError, Same, Still
<1>5. CASE UploadStarts(r)
  BY <1>5
  DEF UploadStarts, Goto, Still, Same, Set
<1>6. CASE UploadEnds(r)
  BY <1>6
  DEF UploadEnds, Return, ReturnError, Set
<1>7. CASE UploadBreaks(r)
  BY <1>7
  DEF UploadBreaks, Return, ReturnError, Same, Set
<1>8. CASE Read(r)
  BY <1>8
  DEF Read, Look, NotFound, Goto, Return, ReturnError, Same
<1>9. CASE ReadFlat(r)
  BY <1>9
  DEF ReadFlat, Look, NotFound, Goto, Return, ReturnError, Same
<1>10. CASE Head(r)
  BY <1>10
  DEF Head, Look, NotFound, Goto, Return, ReturnError, Same, Chosen
<1>11. CASE HeadFlat(r)
  BY <1>11
  DEF HeadFlat, Look, NotFound, Goto, Return, ReturnError, Same, Chosen
<1>12. CASE DeleteObject(r)
  BY <1>12
  DEF DeleteObject, Return, ReturnError, Delayed, Same, Set
<1>13. CASE Remove(r)
  BY <1>13
  DEF Remove, Removal, NotFound, Goto, Return, ReturnError, Delayed, Same, Set
<1>14. CASE RemoveFlat(r)
  BY <1>14
  DEF RemoveFlat, Removal, NotFound, Goto, Return, ReturnError, Delayed, Same, Set
<1>15. CASE NextPage(r)
  BY <1>15
  DEF NextPage, Return, ReturnError, Same, Still
<1>16. CASE DeletePage(r)
  BY <1>16
  DEF DeletePage, DelayedAll, Goto, Return, ReturnError, Same
<1>17. CASE RemoveAll(r)
  BY <1>17
  DEF RemoveAll, DelayedAll, Same, Return, ReturnError
<1>18. CASE ListDir(r)
  BY <1>18
  DEF ListDir, ReadDir, Collects, Return, ReturnError, Same, Still
<1>19. CASE ListShard(r)
  BY <1>19
  DEF ListShard, ReadDir, Collects, Return, ReturnError, Same, Still
<1>20. CASE ListPage(r)
  BY <1>20
  DEF ListPage, Collects, Return, ReturnError, Same, Still
<1>21. CASE List(r)
  BY <1>21
  DEF List, Collects, Return, ReturnError, Same, Still
<1> QED
  BY <1>1, <1>2, <1>3, <1>4, <1>5, <1>6, <1>7, <1>8, <1>9, <1>10, <1>11, <1>12, <1>13, <1>14,
      <1>15, <1>16, <1>17, <1>18, <1>19, <1>20, <1>21
  DEF Working

\* An operation is where its steps have brought it.
LEMMA WorkingPlaced ==
  ASSUME LocalTyped, Placed, NEW r \in Op, Working(r)
  PROVE  pc[r] \notin {"idle", "done"} /\ PlacedAt(r) /\ pc'[r] # "idle"
<1>1. CASE Create(r)
  BY <1>1 DEF LocalTyped, Placed, Create, Same, Return, ReturnError
<1>2. CASE ReadBody(r)
  BY <1>2 DEF LocalTyped, Placed, ReadBody, Goto, Return, ReturnError, Same, Still
<1>3. CASE PutObject(r)
  BY <1>3 DEF LocalTyped, Placed, PutObject, Return, ReturnError, Delayed, Same
<1>4. CASE Mkdir(r)
  BY <1>4 DEF LocalTyped, Placed, Mkdir, Goto, Return, ReturnError, Same, Still
<1>5. CASE UploadStarts(r)
  BY <1>5 DEF LocalTyped, Placed, UploadStarts, Goto, Still, Same
<1>6. CASE UploadEnds(r)
  BY <1>6 DEF LocalTyped, Placed, UploadEnds, Return, ReturnError
<1>7. CASE UploadBreaks(r)
  BY <1>7 DEF LocalTyped, Placed, UploadBreaks, Return, ReturnError, Same
<1>8. CASE Read(r)
  BY <1>8 DEF LocalTyped, Placed, Read, Look, NotFound, Goto, Return, ReturnError, Same
<1>9. CASE ReadFlat(r)
  BY <1>9 DEF LocalTyped, Placed, ReadFlat, Look, NotFound, Goto, Return, ReturnError, Same
<1>10. CASE Head(r)
  BY <1>10 DEF LocalTyped, Placed, Head, Look, NotFound, Goto, Return, ReturnError, Same, Chosen
<1>11. CASE HeadFlat(r)
  BY <1>11 DEF LocalTyped, Placed, HeadFlat, Look, NotFound, Goto, Return, ReturnError, Same, Chosen
<1>12. CASE DeleteObject(r)
  BY <1>12 DEF LocalTyped, Placed, DeleteObject, Return, ReturnError, Delayed, Same
<1>13. CASE Remove(r)
  BY <1>13
  DEF LocalTyped, Placed, Remove, Removal, NotFound, Goto, Return, ReturnError, Delayed, Same
<1>14. CASE RemoveFlat(r)
  BY <1>14
  DEF LocalTyped, Placed, RemoveFlat, Removal, NotFound, Goto, Return, ReturnError, Delayed,
      Same
<1>15. CASE NextPage(r)
  BY <1>15 DEF LocalTyped, Placed, NextPage, Return, ReturnError, Same, Still
<1>16. CASE DeletePage(r)
  BY <1>16 DEF LocalTyped, Placed, DeletePage, DelayedAll, Goto, Return, ReturnError, Same
<1>17. CASE RemoveAll(r)
  BY <1>17 DEF LocalTyped, Placed, RemoveAll, DelayedAll, Same, Return, ReturnError
<1>18. CASE ListDir(r)
  BY <1>18 DEF LocalTyped, Placed, ListDir, ReadDir, Collects, Return, ReturnError, Same, Still
<1>19. CASE ListShard(r)
  BY <1>19 DEF LocalTyped, Placed, ListShard, ReadDir, Collects, Return, ReturnError, Same, Still
<1>20. CASE ListPage(r)
  BY <1>20 DEF LocalTyped, Placed, ListPage, Collects, Return, ReturnError, Same, Still
<1>21. CASE List(r)
  BY <1>21 DEF LocalTyped, Placed, List, Collects, Return, ReturnError, Same, Still
<1> QED
  BY <1>1, <1>2, <1>3, <1>4, <1>5, <1>6, <1>7, <1>8, <1>9, <1>10, <1>11, <1>12, <1>13, <1>14,
      <1>15, <1>16, <1>17, <1>18, <1>19, <1>20, <1>21
  DEF Working

\* The next request is a proper one.
LEMMA WorkingPlacedAfter ==
  ASSUME LocalTyped, Placed, NEW r \in Op, Working(r)
  PROVE  PlacedAt(r)'
<1>0. PlacedAt(r) /\ kind' = kind
  BY WorkingPlaced, Alone
<1> USE <1>0 DEF LocalTyped, PlacedAt, KindsAt, BackendsAt, Fallback, PathsOf
<1>1. CASE Create(r)
  BY <1>1
  DEF Create, Same, Return, ReturnError
<1>2. CASE ReadBody(r)
  BY <1>2
  DEF ReadBody, Goto, Return, ReturnError, Same, Still
<1>3. CASE PutObject(r)
  BY <1>3
  DEF PutObject, Return, ReturnError, Delayed, Same
<1>4. CASE Mkdir(r)
  BY <1>4
  DEF Mkdir, Goto, Return, ReturnError, Same, Still
<1>5. CASE UploadStarts(r)
  BY <1>5
  DEF UploadStarts, Goto, Still, Same
<1>6. CASE UploadEnds(r)
  BY <1>6
  DEF UploadEnds, Return, ReturnError
<1>7. CASE UploadBreaks(r)
  BY <1>7
  DEF UploadBreaks, Return, ReturnError, Same
<1>8. CASE Read(r)
  BY <1>8
  DEF Read, Look, NotFound, Goto, Return, ReturnError, Same
<1>9. CASE ReadFlat(r)
  BY <1>9
  DEF ReadFlat, Look, NotFound, Goto, Return, ReturnError, Same
<1>10. CASE Head(r)
  <2>1. CASE Chosen(r, Final(rq[r].o))
    BY <1>10, <2>1 DEF Head, Chosen
  <2>2. CASE Goto(r, "headFlat") /\ Fallback(rq[r].o)
    BY <1>10, <2>2 DEF Head, Goto
  <2>3. CASE \E e, v : Return(r, e, v)
    BY <1>10, <2>3 DEF Head, Return
  <2> QED BY <1>10, <2>1, <2>2, <2>3 DEF Head, Look, ReturnError, Fallback
<1>11. CASE HeadFlat(r)
  BY <1>11
  DEF HeadFlat, Look, NotFound, Goto, Return, ReturnError, Same, Chosen
<1>12. CASE DeleteObject(r)
  BY <1>12
  DEF DeleteObject, Return, ReturnError, Delayed, Same
<1>13. CASE Remove(r)
  BY <1>13
  DEF Remove, Removal, NotFound, Goto, Return, ReturnError, Delayed, Same
<1>14. CASE RemoveFlat(r)
  BY <1>14
  DEF RemoveFlat, Removal, NotFound, Goto, Return, ReturnError, Delayed, Same
<1>15. CASE NextPage(r)
  BY <1>15
  DEF NextPage, Return, ReturnError, Same, Still, PageUpTo, PrefixPath
<1>16. CASE DeletePage(r)
  BY <1>16
  DEF DeletePage, DelayedAll, Goto, Return, ReturnError, Same
<1>17. CASE RemoveAll(r)
  BY <1>17
  DEF RemoveAll, DelayedAll, Same, Return, ReturnError
<1>18. CASE ListDir(r)
  BY <1>18
  DEF ListDir, ReadDir, Collects, Return, ReturnError, Same, Still
<1>19. CASE ListShard(r)
  BY <1>19
  DEF ListShard, ReadDir, Collects, Return, ReturnError, Same, Still
<1>20. CASE ListPage(r)
  BY <1>20
  DEF ListPage, Collects, Return, ReturnError, Same, Still
<1>21. CASE List(r)
  BY <1>21
  DEF List, Collects, Return, ReturnError, Same, Still
<1> QED
  BY <1>1, <1>2, <1>3, <1>4, <1>5, <1>6, <1>7, <1>8, <1>9, <1>10, <1>11, <1>12, <1>13, <1>14,
      <1>15, <1>16, <1>17, <1>18, <1>19, <1>20, <1>21
  DEF Working

\* How an operation begins and ends.
LEMMA Begins ==
  ASSUME LocalTyped, Placed, kind \in {"s3", "webdav", "rclone"}, NEW r \in Op, NEW what \in Kinds,
         NEW p \in Active, NEW o \in Targets(what), NEW body \in Payloads(what, o),
         Begin(r, what, p, o, body)
  PROVE  Apart(r) /\ kind' = kind /\ PlacedAt(r)' /\ pc[r] = "idle" /\ pc'[r] \notin {"idle", "done"}
<1>1. /\ pc[r] = "idle" /\ pc'[r] = FirstRequest(what) /\ kind' = kind /\ Apart(r)
      /\ rq'[r] = [kind |-> what, p |-> p, o |-> o, body |-> body, key |-> Nil]
  BY DEF Begin, LocalTyped, Apart
<1>2. what \in KindsAt(FirstRequest(what))
  BY DEF Kinds, KindsAt, FirstRequest
<1>3. kind \in BackendsAt(FirstRequest(what))
  BY DEF Kinds, BackendsAt, FirstRequest
<1>4. FirstRequest(what) \notin {"idle", "done", "readFlat", "headFlat", "removeFlat", "listShard",
                                 "delete", "deletePage"}
  BY DEF Kinds, FirstRequest
<1> QED BY <1>1, <1>2, <1>3, <1>4 DEF PlacedAt

LEMMA Finishes ==
  ASSUME LocalTyped, NEW r \in Op, Finish(r)
  PROVE  /\ Apart(r) /\ kind' = kind /\ pc[r] = "done" /\ pc'[r] = "idle"
         /\ rq'[r] = NoRequest /\ page'[r] = NoPage
BY DEF LocalTyped, Apart, Finish

LEMMA PlacedStep ==
  ASSUME LocalTyped, Placed, kind \in {"s3", "webdav", "rclone"}, Next
  PROVE  Placed'
<1>1. ASSUME NEW r \in Op, Apart(r), kind' = kind,
             IF pc'[r] = "idle" THEN rq'[r] = NoRequest /\ page'[r] = NoPage ELSE PlacedAt(r)'
      PROVE  Placed'
  <2> SUFFICES ASSUME NEW q \in Op
               PROVE  IF pc'[q] = "idle" THEN rq'[q] = NoRequest /\ page'[q] = NoPage ELSE PlacedAt(q)'
    BY DEF Placed
  <2>1. CASE q # r
    <3>1. /\ pc'[q] = pc[q] /\ rq'[q] = rq[q] /\ page'[q] = page[q]
          /\ IF pc[q] = "idle" THEN rq[q] = NoRequest /\ page[q] = NoPage ELSE PlacedAt(q)
      BY <1>1, <2>1 DEF Apart, Placed
    <3> QED BY <1>1, <3>1 DEF PlacedAt, Fallback, PathsOf
  <2> QED BY <1>1, <2>1
<1>2. ASSUME NEW r \in Op, NEW what \in Kinds, NEW p \in Active, NEW o \in Targets(what),
             NEW body \in Payloads(what, o), Begin(r, what, p, o, body)
      PROVE  Placed'
  BY <1>1, <1>2, Begins
<1>3. ASSUME NEW r \in Op, Working(r) PROVE Placed'
  BY <1>1, <1>3, WorkingPlaced, WorkingPlacedAfter, Alone
<1>4. ASSUME NEW r \in Op, Finish(r) PROVE Placed'
  BY <1>1, <1>4, Finishes
<1>5. CASE LateArrives
  BY <1>5 DEF LateArrives, local, Placed, PlacedAt, Fallback, PathsOf
<1> QED BY <1>2, <1>3, <1>4, <1>5 DEF Next, Working

\* The parts of LocalTyped, one after the other.
LEMMA PcTyped ==
  ASSUME LocalTyped, NEW r \in Op, Working(r)
  PROVE  pc' \in [Op -> Steps]
<1> USE DEF LocalTyped, Steps
<1>1. CASE Create(r) \/ ReadBody(r) \/ PutObject(r) \/ Mkdir(r) \/
           UploadStarts(r) \/ UploadEnds(r) \/ UploadBreaks(r)
  BY <1>1
  DEF Create, ReadBody, PutObject, Mkdir, UploadStarts, UploadEnds, UploadBreaks,
      Same, Return, ReturnError, Goto, Still, Delayed
<1>2. CASE Read(r) \/ ReadFlat(r) \/ Head(r) \/ HeadFlat(r) \/ DeleteObject(r)
           \/ Remove(r) \/ RemoveFlat(r)
  BY <1>2
  DEF Read, ReadFlat, Head, HeadFlat, DeleteObject, Remove, RemoveFlat, Look,
      NotFound, Goto, Return, ReturnError, Same, Chosen, Delayed, Removal
<1>3. CASE NextPage(r) \/ DeletePage(r) \/ RemoveAll(r) \/ ListDir(r) \/
           ListShard(r) \/ ListPage(r) \/ List(r)
  BY <1>3
  DEF NextPage, DeletePage, RemoveAll, DelayedAll, ListDir, ListShard, ReadDir, ListPage, List,
      Return, ReturnError, Same, Still, Goto, Collects
<1> QED
  BY <1>1, <1>2, <1>3 DEF Working

LEMMA ChosenTyped ==
  ASSUME LocalTyped, NEW r \in Op, NEW x \in Paths, Chosen(r, x)
  PROVE  rq' \in [Op -> [kind : Kinds \cup {"none"}, p : Prefix \cup {Nil}, o : Object \cup {Nil},
                         body : Content \cup {Nil}, key : Paths \cup {Nil}]]
<1> DEFINE R == [kind : Kinds \cup {"none"}, p : Prefix \cup {Nil}, o : Object \cup {Nil},
                 body : Content \cup {Nil}, key : Paths \cup {Nil}]
<1>1. rq \in [Op -> R]
  BY DEF LocalTyped
<1>2. [rq[r] EXCEPT !.key = x] \in R
  BY <1>1
<1>3. rq' = [rq EXCEPT ![r] = [rq[r] EXCEPT !.key = x]]
  BY DEF Chosen
<1> HIDE DEF R
<1>4. rq' \in [Op -> R]
  BY <1>1, <1>2, <1>3
<1> QED BY <1>4 DEF R

LEMMA CollectsTyped ==
  ASSUME LocalTyped, NEW r \in Op, NEW n \in 0 .. Last, NEW new \in SUBSET Paths, NEW next,
         Collects(r, n, new, next)
  PROVE  page' \in [Op -> [after : 0 .. Last, keys : SUBSET Keys, found : SUBSET Paths]]
<1>1. page[r].found \cup new \in SUBSET Paths
  BY DEF LocalTyped
<1> QED BY <1>1 DEF LocalTyped, Collects

LEMMA ReturnTyped ==
  ASSUME LocalTyped, NEW r \in Op, NEW e \in Errors, NEW v \in Held, Return(r, e, v)
  PROVE  ans' \in [Op -> [err : Errors, value : Held]]
BY DEF LocalTyped, Return

\* Only S3's DeleteBlob adds to its request, and it adds a path.
LEMMA RqTyped ==
  ASSUME LocalTyped, Placed, NEW r \in Op, Working(r)
  PROVE  rq' \in [Op -> [kind : Kinds \cup {"none"}, p : Prefix \cup {Nil}, o : Object \cup {Nil},
                         body : Content \cup {Nil}, key : Paths \cup {Nil}]]
<1>0. /\ Head(r) => Final(rq[r].o) \in Paths
      /\ HeadFlat(r) => Flat(rq[r].o) \in Paths
  BY WorkingPlaced, RequestFacts, RemoteFacts DEF PlacedAt, KindsAt, Head, HeadFlat
<1> USE DEF LocalTyped
<1>1. CASE Head(r)
  BY <1>1, <1>0, ChosenTyped
  DEF Head, Look, NotFound, Goto, Return, ReturnError, Same
<1>2. CASE HeadFlat(r)
  BY <1>2, <1>0, ChosenTyped
  DEF HeadFlat, Look, NotFound, Goto, Return, ReturnError, Same
<1>3. CASE Create(r) \/ ReadBody(r) \/ PutObject(r) \/ Mkdir(r) \/
           UploadStarts(r) \/ UploadEnds(r) \/ UploadBreaks(r) \/ Read(r) \/
           ReadFlat(r) \/ DeleteObject(r) \/ Remove(r) \/ RemoveFlat(r) \/
           NextPage(r) \/ DeletePage(r) \/ RemoveAll(r) \/ ListDir(r) \/
           ListShard(r) \/ ListPage(r) \/ List(r)
  BY <1>3
  DEF Create, ReadBody, PutObject, Mkdir, UploadStarts, UploadEnds, UploadBreaks,
      Read, ReadFlat, DeleteObject, Remove, RemoveFlat, NextPage, DeletePage,
      RemoveAll, DelayedAll, ListDir, ListShard, ReadDir, ListPage, List,
      Same, Return, ReturnError, Goto,
      Still, Delayed, Look, NotFound, Removal, Collects
<1> QED
  BY <1>1, <1>2, <1>3 DEF Working

\* Pages come from listings.
LEMMA PageTyped ==
  ASSUME LocalTyped, Placed, NEW r \in Op, Working(r)
  PROVE  page' \in [Op -> [after : 0 .. Last, keys : SUBSET Keys, found : SUBSET Paths]]
<1>0. Under[rq[r].p] \subseteq Prefix
  BY WorkingPlaced, RequestFacts
<1>a. Last \in Nat
  BY RankAssumption
<1>b. page[r] \in [after : 0 .. Last, keys : SUBSET Keys, found : SUBSET Paths]
  BY DEF LocalTyped
<1>c. 0 \in 0 .. Last /\ \A S : Entries(r, S) \subseteq Paths
  BY <1>a DEF Entries
<1> USE <1>0, <1>a, <1>b DEF LocalTyped
<1>1. CASE NextPage(r)
  BY <1>1
  DEF NextPage, Return, ReturnError, Same, Still, PageUpTo, PrefixPath, Keys
<1>2. CASE ListDir(r) \/ ListShard(r) \/ List(r)
  BY <1>2, <1>c, CollectsTyped
  DEF ListDir, ListShard, ReadDir, List, Return, ReturnError, Same, Still
<1>3. CASE ListPage(r)
  <2>1. CASE ReturnError(r)
    BY <2>1 DEF ReturnError, Return
  <2>2. CASE ~ReturnError(r)
    <3>1. PICK n \in (page[r].after + 1) .. Last :
            Collects(r, n, {x \in Entries(r, {Final(rq[r].o), Flat(rq[r].o)}) :
                              Rank[x] > page[r].after /\ Rank[x] <= n},
                     IF n = Last THEN "done" ELSE "listPage")
      BY <1>3, <2>2 DEF ListPage
    <3> DEFINE new == {x \in Entries(r, {Final(rq[r].o), Flat(rq[r].o)}) :
                         Rank[x] > page[r].after /\ Rank[x] <= n}
    <3>2. n \in 0 .. Last /\ new \in SUBSET Paths
      BY <1>b, <1>c
    <3> HIDE DEF new
    <3>3. Collects(r, n, new, IF n = Last THEN "done" ELSE "listPage")
      BY <3>1 DEF new
    <3> QED BY <3>2, <3>3, CollectsTyped
  <2> QED BY <2>1, <2>2
<1>4. CASE Create(r) \/ ReadBody(r) \/ PutObject(r) \/ Mkdir(r) \/
           UploadStarts(r) \/ UploadEnds(r) \/ UploadBreaks(r) \/ Read(r) \/
           ReadFlat(r) \/ Head(r) \/ HeadFlat(r) \/ DeleteObject(r) \/
           Remove(r) \/ RemoveFlat(r) \/ DeletePage(r) \/ RemoveAll(r)
  BY <1>4
  DEF Create, ReadBody, PutObject, Mkdir, UploadStarts, UploadEnds, UploadBreaks,
      Read, ReadFlat, Head, HeadFlat, DeleteObject, Remove, RemoveFlat, DeletePage,
      RemoveAll, DelayedAll, Same, Return, ReturnError, Goto, Still, Delayed, Look, NotFound,
      Chosen, Removal
<1> QED
  BY <1>1, <1>2, <1>3, <1>4 DEF Working

\* Results are results.
LEMMA AnsTyped ==
  ASSUME LocalTyped, ServerTyped, Placed, NEW r \in Op, Working(r)
  PROVE  ans' \in [Op -> [err : Errors, value : Held]]
<1>0. /\ Read(r) => obj[rq[r].p][Final(rq[r].o)] \in Held
      /\ ReadFlat(r) => obj[rq[r].p][Flat(rq[r].o)] \in Held
  BY WorkingPlaced, RequestFacts, RemoteFacts DEF PlacedAt, KindsAt, Read, ReadFlat, ServerTyped
<1>a. Nil \in Held
  BY DEF Held
<1> USE <1>0, <1>a, ReturnTyped DEF LocalTyped, Errors
<1>1. CASE Read(r)
  BY <1>1
  DEF Read, Look, NotFound, Goto, ReturnError, Same
<1>2. CASE ReadFlat(r)
  BY <1>2
  DEF ReadFlat, Look, NotFound, Goto, ReturnError, Same
<1>3. CASE Create(r) \/ ReadBody(r) \/ PutObject(r) \/ Mkdir(r) \/
           UploadStarts(r) \/ UploadEnds(r) \/ UploadBreaks(r)
  BY <1>3
  DEF Create, ReadBody, PutObject, Mkdir, UploadStarts, UploadEnds, UploadBreaks,
      Same, ReturnError, Goto, Still, Delayed
<1>4. CASE Head(r) \/ HeadFlat(r)
  BY <1>4
  DEF Head, HeadFlat, Look, NotFound, Goto, ReturnError, Same, Chosen
<1>5. CASE DeleteObject(r) \/ Remove(r) \/ RemoveFlat(r)
  BY <1>5
  DEF DeleteObject, Remove, RemoveFlat, ReturnError, Delayed, Same, Removal, NotFound,
      Goto
<1>6. CASE NextPage(r)
  BY <1>6
  DEF NextPage, ReturnError, Same, Still
<1>7. CASE DeletePage(r) \/ RemoveAll(r)
  BY <1>7
  DEF DeletePage, RemoveAll, DelayedAll, Goto, ReturnError, Same
<1>8. CASE ListDir(r) \/ ListShard(r) \/ ListPage(r) \/ List(r)
  <2>1. ASSUME NEW n, NEW new, NEW next, Collects(r, n, new, next)
        PROVE  ans' \in [Op -> [err : Errors, value : Held]]
    BY <2>1 DEF Collects, NoAnswer
  <2>2. CASE ListDir(r) \/ ListShard(r)
    BY <2>1, <2>2 DEF ListDir, ListShard, ReadDir, ReturnError
  <2>3. CASE ListPage(r) \/ List(r)
    BY <2>1, <2>3 DEF ListPage, List, ReturnError
  <2> QED BY <1>8, <2>2, <2>3
<1> QED
  BY <1>1, <1>2, <1>3, <1>4, <1>5, <1>6, <1>7, <1>8 DEF Working

\* The rest.
LEMMA OthersTyped ==
  ASSUME LocalTyped, Placed, NEW r \in Op, Working(r)
  PROVE  /\ kind \in Backend /\ repo' \subseteq Prefix /\ refused' \in [Op -> SUBSET Keys]
         /\ mistaken' \subseteq Op /\ broken' \subseteq Prefix \X Object
<1>0. /\ PlacedAt(r) /\ rq[r].p \in Prefix /\ Under[rq[r].p] \subseteq Prefix
      /\ pc[r] = "uploading" => rq[r].o \in Object
  BY WorkingPlaced, RequestFacts DEF PlacedAt, KindsAt
<1>a. page[r].keys \subseteq Keys
  BY DEF LocalTyped
<1> USE <1>0, <1>a DEF LocalTyped
<1>1. CASE Create(r) \/ UploadEnds(r) \/ UploadBreaks(r)
  BY <1>1
  DEF Create, UploadEnds, UploadBreaks, Same, Return, ReturnError
<1>2. CASE DeletePage(r)
  BY <1>2
  DEF DeletePage, DelayedAll, Goto, Return, ReturnError, Same
<1>3. CASE RemoveAll(r)
  BY <1>3
  DEF RemoveAll, DelayedAll, Same, Return, ReturnError
<1>4. CASE ReadBody(r) \/ PutObject(r) \/ Mkdir(r) \/ UploadStarts(r) \/
           Read(r) \/ ReadFlat(r) \/ Head(r) \/ HeadFlat(r) \/ DeleteObject(r)
           \/ Remove(r) \/ RemoveFlat(r) \/ NextPage(r) \/ ListDir(r) \/
           ListShard(r) \/ ListPage(r) \/ List(r)
  BY <1>4
  DEF ReadBody, PutObject, Mkdir, UploadStarts, Read, ReadFlat, Head, HeadFlat,
      DeleteObject, Remove, RemoveFlat, NextPage, ListDir, ListShard, ReadDir, ListPage, List,
      Goto, Return, ReturnError, Same, Still, Delayed, Look, NotFound, Chosen,
      Removal, Collects
<1> QED
  BY <1>1, <1>2, <1>3, <1>4 DEF Working

LEMMA LocalStep ==
  ASSUME LocalTyped, ServerTyped, Placed, Next
  PROVE  LocalTyped'
<1>1. ASSUME NEW r \in Op, Working(r) PROVE LocalTyped'
  BY <1>1, Alone, PcTyped, RqTyped, PageTyped, AnsTyped, OthersTyped DEF LocalTyped
<1>2. ASSUME NEW r \in Op, NEW what \in Kinds, NEW p \in Active, NEW o \in Targets(what),
             NEW body \in Payloads(what, o), Begin(r, what, p, o, body)
      PROVE  LocalTyped'
  <2>1. FirstRequest(what) \in Steps \/ kind \notin {"s3", "webdav", "rclone"}
    BY DEF FirstRequest, Kinds, Steps
  <2>2. p \in Prefix /\ o \in Object \cup {Nil} /\ body \in Content \cup {Nil}
    BY RemoteObjectAssumption, RemoteFacts, RemoteBodies DEF Targets, Payloads, Kinds
  <2> QED BY <1>2, <2>1, <2>2, BackendAssumption DEF LocalTyped, Begin
<1>3. ASSUME NEW r \in Op, Finish(r) PROVE LocalTyped'
  <2>1. NoRequest \in [kind : Kinds \cup {"none"}, p : Prefix \cup {Nil}, o : Object \cup {Nil},
                       body : Content \cup {Nil}, key : Paths \cup {Nil}]
    BY DEF NoRequest
  <2>2. NoPage \in [after : 0 .. Last, keys : SUBSET Keys, found : SUBSET Paths]
    BY RankAssumption DEF NoPage
  <2>3. NoAnswer \in [err : Errors, value : Held] /\ "idle" \in Steps
    BY DEF NoAnswer, Errors, Held, Steps
  <2> QED BY <1>3, <2>1, <2>2, <2>3 DEF LocalTyped, Finish
<1>4. CASE LateArrives
  BY <1>4 DEF LocalTyped, LateArrives, local
<1> QED BY <1>1, <1>2, <1>3, <1>4 DEF Next, Working

-----------------------------------------------------------------------------
\* What one request, or the deletion of some keys, makes of the server.
LEMMA SetEffect ==
  ASSUME ServerTyped, NEW p \in Prefix, NEW x \in Paths, NEW v, Set(p, x, v)
  PROVE  /\ \A q \in Prefix, y \in Paths : obj'[q][y] = IF q = p /\ y = x THEN v ELSE obj[q][y]
         /\ v \in Held => obj' \in [Prefix -> [Paths -> Held]]
         /\ \A q \in Prefix \ {p} : obj'[q] = obj[q]
BY DEF ServerTyped, Set, Becomes

LEMMA WithoutEffect ==
  ASSUME ServerTyped, NEW S, Becomes(Without(S))
  PROVE  /\ \A q \in Prefix, y \in Paths : obj'[q][y] = IF <<q, y>> \in S THEN Nil ELSE obj[q][y]
         /\ obj' \in [Prefix -> [Paths -> Held]]
         /\ \A q \in Prefix : (\A y \in Paths : <<q, y>> \notin S) => obj'[q] = obj[q]
<1>1. /\ \A q \in Prefix, y \in Paths : obj'[q][y] = IF <<q, y>> \in S THEN Nil ELSE obj[q][y]
      /\ obj' = [q \in Prefix |-> [y \in Paths |-> IF <<q, y>> \in S THEN Nil ELSE obj[q][y]]]
  BY DEF Becomes, Without
<1>2. obj' \in [Prefix -> [Paths -> Held]]
  BY <1>1 DEF ServerTyped, Held
<1>3. ASSUME NEW q \in Prefix, \A y \in Paths : <<q, y>> \notin S PROVE obj'[q] = obj[q]
  <2>1. obj[q] \in [Paths -> Held] /\ obj'[q] \in [Paths -> Held] /\ \A y \in Paths : obj'[q][y] = obj[q][y]
    BY <1>1, <1>2, <1>3 DEF ServerTyped
  <2> QED BY <2>1
<1> QED BY <1>1, <1>2, <1>3

\* Every change is one of three: a path of the request's object is written while an
\* upload is under way, or is given a whole body, or keys of the repository go.
Writes(r) ==
  \/ Same
  \/ /\ pc[r] \in {"upload", "uploading"}
     /\ \E v \in {Nil, Torn, rq[r].body} : Set(rq[r].p, Final(rq[r].o), v)
  \/ pc[r] = "put" /\ Set(rq[r].p, Final(rq[r].o), rq[r].body)
  \/ /\ pc[r] \in {"delete", "remove", "removeFlat"}
     /\ \E x \in PathsOf(rq[r].o) : Set(rq[r].p, x, Nil)
  \/ /\ pc[r] \in {"deletePage", "removeAll"}
     /\ \E S \in SUBSET (Under[rq[r].p] \X Paths) : Becomes(Without(S))

Sends(r) ==
  \/ late' = late
  \/ pc[r] = "put" /\ late' = late \cup {<<rq[r].p, Final(rq[r].o), rq[r].body>>}
  \/ /\ pc[r] \in {"delete", "remove", "removeFlat"}
     /\ \E x \in PathsOf(rq[r].o) : late' = late \cup {<<rq[r].p, x, Nil>>}
  \/ /\ pc[r] \in {"deletePage", "removeAll"}
     /\ \E S \in SUBSET (Under[rq[r].p] \X Paths) :
          late' = late \cup {<<e[1], e[2], Nil>> : e \in S}

\* What the requests of an operation change.
LEMMA WorkingWrites ==
  ASSUME Placed, LocalTyped, NEW r \in Op, Working(r)
  PROVE  Writes(r) /\ Sends(r)
<1>0. PlacedAt(r)
  BY WorkingPlaced
<1> USE <1>0 DEF Writes, Sends, PlacedAt
<1>1. CASE Create(r)
  BY <1>1
  DEF Create, Same, Return, ReturnError
<1>2. CASE ReadBody(r)
  BY <1>2
  DEF ReadBody, Goto, Return, ReturnError, Same, Still
<1>3. CASE PutObject(r)
  BY <1>3
  DEF PutObject, Return, ReturnError, Delayed, Same
<1>4. CASE Mkdir(r)
  BY <1>4
  DEF Mkdir, Goto, Return, ReturnError, Same, Still
<1>5. CASE UploadStarts(r)
  BY <1>5
  DEF UploadStarts, Goto, Still, Same
<1>6. CASE UploadEnds(r)
  BY <1>6
  DEF UploadEnds, Return, ReturnError
<1>7. CASE UploadBreaks(r)
  BY <1>7
  DEF UploadBreaks, Return, ReturnError, Same
<1>8. CASE Read(r)
  BY <1>8
  DEF Read, Look, NotFound, Goto, Return, ReturnError, Same
<1>9. CASE ReadFlat(r)
  BY <1>9
  DEF ReadFlat, Look, NotFound, Goto, Return, ReturnError, Same
<1>10. CASE Head(r)
  BY <1>10
  DEF Head, Look, NotFound, Goto, Return, ReturnError, Same, Chosen
<1>11. CASE HeadFlat(r)
  BY <1>11
  DEF HeadFlat, Look, NotFound, Goto, Return, ReturnError, Same, Chosen
<1>12. CASE DeleteObject(r)
  BY <1>12
  DEF DeleteObject, Return, ReturnError, Delayed, Same
<1>13. CASE Remove(r)
  BY <1>13
  DEF Remove, Removal, NotFound, Goto, Return, ReturnError, Delayed, Same, PathsOf
<1>14. CASE RemoveFlat(r)
  BY <1>14
  DEF RemoveFlat, Removal, NotFound, Goto, Return, ReturnError, Delayed, Same, PathsOf
<1>15. CASE NextPage(r)
  BY <1>15
  DEF NextPage, Return, ReturnError, Same, Still
<1>16. CASE DeletePage(r)
  BY <1>16
  DEF DeletePage, DelayedAll, Goto, Return, ReturnError, Same
<1>17. CASE RemoveAll(r)
  BY <1>17
  DEF RemoveAll, DelayedAll, Same, Return, ReturnError
<1>18. CASE ListDir(r)
  BY <1>18
  DEF ListDir, ReadDir, Collects, Return, ReturnError, Same, Still
<1>19. CASE ListShard(r)
  BY <1>19
  DEF ListShard, ReadDir, Collects, Return, ReturnError, Same, Still
<1>20. CASE ListPage(r)
  BY <1>20
  DEF ListPage, Collects, Return, ReturnError, Same, Still
<1>21. CASE List(r)
  BY <1>21
  DEF List, Collects, Return, ReturnError, Same, Still
<1> QED
  BY <1>1, <1>2, <1>3, <1>4, <1>5, <1>6, <1>7, <1>8, <1>9, <1>10, <1>11, <1>12, <1>13, <1>14,
      <1>15, <1>16, <1>17, <1>18, <1>19, <1>20, <1>21
  DEF Working

\* The paths of the object of a request.
LEMMA PathsFacts ==
  ASSUME NEW o \in Object
  PROVE  \A x \in PathsOf(o) : x \in Paths /\ x[1] = o
BY RemoteFacts DEF PathsOf, Fallback

\* What is about objects is only asked and changed for objects.
LEMMA WritingObject ==
  ASSUME NEW r \in Op, PlacedAt(r),
         pc[r] \in {"upload", "uploading", "put", "delete", "remove", "removeFlat"}
  PROVE  /\ rq[r].o \in Object /\ rq[r].p \in Prefix /\ Final(rq[r].o) \in Paths
         /\ pc[r] \in {"upload", "uploading", "put"} => rq[r].body \in Bodies[rq[r].o] /\ rq[r].body \in Content
         /\ pc[r] \in {"upload", "uploading"} => kind # "s3"
BY RequestFacts, RemoteFacts DEF PlacedAt, KindsAt, BackendsAt

\* Every object of the server after a step: as before, gone, whole, or torn by an upload.
LEMMA ServerAfter ==
  ASSUME LocalTyped, ServerTyped, Placed, NEW r \in Op, Working(r)
  PROVE  /\ obj' \in [Prefix -> [Paths -> Held]]
         /\ \A p \in Prefix, x \in Paths :
              \/ obj'[p][x] = obj[p][x] \/ obj'[p][x] = Nil \/ obj'[p][x] \in Bodies[x[1]]
              \/ /\ obj'[p][x] = Torn /\ pc[r] \in {"upload", "uploading"}
                 /\ p = rq[r].p /\ x = Final(rq[r].o)
<1>1. PlacedAt(r) /\ Writes(r)
  BY WorkingPlaced, WorkingWrites
<1>2. CASE Same
  BY <1>2 DEF Same, ServerTyped
<1>3. ASSUME pc[r] \in {"upload", "uploading"}, NEW v \in {Nil, Torn, rq[r].body},
             Set(rq[r].p, Final(rq[r].o), v)
      PROVE  /\ obj' \in [Prefix -> [Paths -> Held]]
             /\ \A p \in Prefix, x \in Paths :
                  \/ obj'[p][x] = obj[p][x] \/ obj'[p][x] = Nil \/ obj'[p][x] \in Bodies[x[1]]
                  \/ obj'[p][x] = Torn /\ p = rq[r].p /\ x = Final(rq[r].o)
  <2>1. v \in Held /\ (v \in {Nil, Torn} \/ v \in Bodies[rq[r].o])
    BY <1>1, <1>3, WritingObject DEF Held
  <2> QED BY <1>1, <1>3, <2>1, WritingObject, SetEffect, RemoteFacts
<1>4. CASE pc[r] = "put" /\ Set(rq[r].p, Final(rq[r].o), rq[r].body)
  <2>1. rq[r].body \in Held /\ rq[r].body \in Bodies[rq[r].o]
    BY <1>1, <1>4, WritingObject DEF Held
  <2> QED BY <1>1, <1>4, <2>1, WritingObject, SetEffect, RemoteFacts
<1>5. ASSUME pc[r] \in {"delete", "remove", "removeFlat"}, NEW x \in PathsOf(rq[r].o), Set(rq[r].p, x, Nil)
      PROVE  /\ obj' \in [Prefix -> [Paths -> Held]]
             /\ \A p \in Prefix, y \in Paths : obj'[p][y] = obj[p][y] \/ obj'[p][y] = Nil
  <2>1. Nil \in Held /\ x \in Paths
    BY <1>1, <1>5, WritingObject, PathsFacts DEF Held
  <2> QED BY <1>1, <1>5, <2>1, WritingObject, SetEffect
<1>6. ASSUME NEW S, Becomes(Without(S))
      PROVE  /\ obj' \in [Prefix -> [Paths -> Held]]
             /\ \A p \in Prefix, y \in Paths : obj'[p][y] = obj[p][y] \/ obj'[p][y] = Nil
  BY <1>6, WithoutEffect
<1> QED BY <1>1, <1>2, <1>3, <1>4, <1>5, <1>6 DEF Writes

LEMMA LateAfter ==
  ASSUME LocalTyped, ServerTyped, LateWhole, Placed, NEW r \in Op, Working(r)
  PROVE  (late \subseteq Prefix \X Paths \X Held)' /\ LateWhole'
<1>1. PlacedAt(r) /\ Sends(r)
  BY WorkingPlaced, WorkingWrites
<1>2. CASE late' = late
  BY <1>2 DEF ServerTyped, LateWhole
<1>3. ASSUME NEW p \in Prefix, NEW x \in Paths, NEW v \in Bodies[x[1]] \cup {Nil},
             late' = late \cup {<<p, x, v>>}
      PROVE  (late \subseteq Prefix \X Paths \X Held)' /\ LateWhole'
  <2>1. v \in Held
    BY RemoteFacts, RemoteBodies DEF Held
  <2> QED BY <1>3, <2>1 DEF ServerTyped, LateWhole
<1>4. CASE pc[r] = "put" /\ late' = late \cup {<<rq[r].p, Final(rq[r].o), rq[r].body>>}
  BY <1>1, <1>3, <1>4, WritingObject, RemoteFacts
<1>5. ASSUME pc[r] \in {"delete", "remove", "removeFlat"}, NEW x \in PathsOf(rq[r].o),
             late' = late \cup {<<rq[r].p, x, Nil>>}
      PROVE  (late \subseteq Prefix \X Paths \X Held)' /\ LateWhole'
  BY <1>1, <1>3, <1>5, WritingObject, PathsFacts
<1>6. ASSUME pc[r] \in {"deletePage", "removeAll"}, NEW S \in SUBSET (Under[rq[r].p] \X Paths),
             late' = late \cup {<<e[1], e[2], Nil>> : e \in S}
      PROVE  (late \subseteq Prefix \X Paths \X Held)' /\ LateWhole'
  <2>1. rq[r].p \in Prefix /\ Under[rq[r].p] \subseteq Prefix
    BY <1>1, <1>6, RequestFacts, RemotePrefixAssumption DEF PlacedAt, KindsAt
  <2>2. \A d \in {<<e[1], e[2], Nil>> : e \in S} :
          d \in Prefix \X Paths \X Held /\ d[3] = Nil
    BY <2>1 DEF Held
  <2> QED BY <1>6, <2>2 DEF ServerTyped, LateWhole
<1> QED BY <1>1, <1>2, <1>4, <1>5, <1>6 DEF Sends

\* A late request is carried out like any other.
LEMMA LateEffect ==
  ASSUME ServerTyped, LateWhole, LateArrives
  PROVE  \E p \in Prefix, x \in Paths : \E v \in Bodies[x[1]] \cup {Nil} :
           /\ <<p, x, v>> \in late /\ late' \subseteq late
           /\ Set(p, x, v) /\ v \in Held /\ v # Torn
           /\ UNCHANGED <<kind, repo, local, refused, mistaken, broken>>
<1>1. PICK e \in late : late' = late \ {e} /\ Set(e[1], e[2], e[3])
                        /\ UNCHANGED <<kind, repo, local, refused, mistaken, broken>>
  BY DEF LateArrives
<1>2. PICK p \in Prefix, x \in Paths, v \in Held : e = <<p, x, v>>
  BY <1>1 DEF ServerTyped
<1>3. v \in Bodies[x[1]] \cup {Nil} /\ v # Torn
  BY <1>1, <1>2, RemoteFacts, RemoteBodies, RemoteNilAssumption DEF LateWhole
<1> QED BY <1>1, <1>2, <1>3

LEMMA ServerStep ==
  ASSUME LocalTyped, ServerTyped, LateWhole, Own, Placed, Next
  PROVE  ServerTyped' /\ LateWhole' /\ Own'
<1>1. ASSUME NEW r \in Op, Working(r) PROVE ServerTyped' /\ LateWhole' /\ Own'
  <2>1. obj' \in [Prefix -> [Paths -> Held]] /\ Own'
    BY <1>1, ServerAfter DEF Own
  <2> QED BY <1>1, <2>1, LateAfter DEF ServerTyped
<1>2. ASSUME NEW r \in Op, NEW what \in Kinds, NEW p \in Active, NEW o \in Targets(what),
             NEW body \in Payloads(what, o), Begin(r, what, p, o, body)
      PROVE  ServerTyped' /\ LateWhole' /\ Own'
  BY <1>2 DEF ServerTyped, LateWhole, Own, Begin
<1>3. ASSUME NEW r \in Op, Finish(r) PROVE ServerTyped' /\ LateWhole' /\ Own'
  BY <1>3 DEF ServerTyped, LateWhole, Own, Finish
<1>4. CASE LateArrives
  <2>1. PICK p \in Prefix, x \in Paths, v \in Held :
           /\ v \in Bodies[x[1]] \cup {Nil} /\ late' \subseteq late /\ Set(p, x, v)
    BY <1>4, LateEffect
  <2>2. Own' /\ obj' \in [Prefix -> [Paths -> Held]]
    BY <2>1, SetEffect DEF Own
  <2> QED BY <2>1, <2>2 DEF ServerTyped, LateWhole
<1> QED BY <1>1, <1>2, <1>3, <1>4 DEF Next, Working

-----------------------------------------------------------------------------
\* How uploads begin and end.
LEMMA UploadSteps ==
  ASSUME LocalTyped, NEW r \in Op, Working(r)
  PROVE  /\ pc[r] = "upload" => pc'[r] = "uploading" /\ rq'[r] = rq[r] /\ broken' = broken
         /\ pc[r] = "uploading" => UploadEnds(r) \/ UploadBreaks(r)
         /\ pc[r] # "uploading" => broken' = broken
<1>1. CASE Create(r)
  BY <1>1 DEF LocalTyped, Create, Same, Return, ReturnError
<1>2. CASE ReadBody(r)
  BY <1>2 DEF LocalTyped, ReadBody, Goto, Return, ReturnError, Same, Still
<1>3. CASE PutObject(r)
  BY <1>3 DEF LocalTyped, PutObject, Return, ReturnError, Delayed, Same
<1>4. CASE Mkdir(r)
  BY <1>4 DEF LocalTyped, Mkdir, Goto, Return, ReturnError, Same, Still
<1>5. CASE UploadStarts(r)
  BY <1>5 DEF LocalTyped, UploadStarts, Goto, Still, Same
<1>6. CASE UploadEnds(r)
  BY <1>6 DEF LocalTyped, UploadEnds, Return, ReturnError
<1>7. CASE UploadBreaks(r)
  BY <1>7 DEF LocalTyped, UploadBreaks, Return, ReturnError, Same
<1>8. CASE Read(r)
  BY <1>8 DEF LocalTyped, Read, Look, NotFound, Goto, Return, ReturnError, Same
<1>9. CASE ReadFlat(r)
  BY <1>9 DEF LocalTyped, ReadFlat, Look, NotFound, Goto, Return, ReturnError, Same
<1>10. CASE Head(r)
  BY <1>10 DEF LocalTyped, Head, Look, NotFound, Goto, Return, ReturnError, Same, Chosen
<1>11. CASE HeadFlat(r)
  BY <1>11 DEF LocalTyped, HeadFlat, Look, NotFound, Goto, Return, ReturnError, Same, Chosen
<1>12. CASE DeleteObject(r)
  BY <1>12 DEF LocalTyped, DeleteObject, Return, ReturnError, Delayed, Same
<1>13. CASE Remove(r)
  BY <1>13 DEF LocalTyped, Remove, Removal, NotFound, Goto, Return, ReturnError, Delayed, Same
<1>14. CASE RemoveFlat(r)
  BY <1>14 DEF LocalTyped, RemoveFlat, Removal, NotFound, Goto, Return, ReturnError, Delayed, Same
<1>15. CASE NextPage(r)
  BY <1>15 DEF LocalTyped, NextPage, Return, ReturnError, Same, Still
<1>16. CASE DeletePage(r)
  BY <1>16 DEF LocalTyped, DeletePage, DelayedAll, Goto, Return, ReturnError, Same
<1>17. CASE RemoveAll(r)
  BY <1>17 DEF LocalTyped, RemoveAll, DelayedAll, Same, Return, ReturnError
<1>18. CASE ListDir(r)
  BY <1>18 DEF LocalTyped, ListDir, ReadDir, Collects, Return, ReturnError, Same, Still
<1>19. CASE ListShard(r)
  BY <1>19 DEF LocalTyped, ListShard, ReadDir, Collects, Return, ReturnError, Same, Still
<1>20. CASE ListPage(r)
  BY <1>20 DEF LocalTyped, ListPage, Collects, Return, ReturnError, Same, Still
<1>21. CASE List(r)
  BY <1>21 DEF LocalTyped, List, Collects, Return, ReturnError, Same, Still
<1> QED
  BY <1>1, <1>2, <1>3, <1>4, <1>5, <1>6, <1>7, <1>8, <1>9, <1>10, <1>11, <1>12, <1>13, <1>14,
      <1>15, <1>16, <1>17, <1>18, <1>19, <1>20, <1>21
  DEF Working

LEMMA TornStep ==
  ASSUME LocalTyped, ServerTyped, LateWhole, Placed, TornBlamed, kind \in {"s3", "webdav", "rclone"}, Next
  PROVE  TornBlamed'
<1> USE DEF TornBlamed
<1>1. ASSUME NEW r \in Op, Apart(r), kind' = kind, pc[r] # "uploading", broken' = broken,
             NEW p \in Prefix, NEW x \in Paths, obj[p][x] = Torn
      PROVE  /\ kind' # "s3" /\ x[2] = "final"
             /\ \/ <<p, x[1]>> \in broken'
                \/ \E s \in Op : pc'[s] = "uploading" /\ rq'[s].p = p /\ rq'[s].o = x[1]
  <2>1. CASE <<p, x[1]>> \in broken
    BY <1>1, <2>1
  <2>2. CASE <<p, x[1]>> \notin broken
    <3>1. PICK s \in Op : pc[s] = "uploading" /\ rq[s].p = p /\ rq[s].o = x[1]
      BY <1>1, <2>2
    <3>2. pc'[s] = "uploading" /\ rq'[s] = rq[s]
      BY <1>1, <3>1 DEF Apart
    <3> QED BY <1>1, <3>1, <3>2
  <2> QED BY <2>1, <2>2
<1>2. ASSUME NEW r \in Op, Working(r), NEW p \in Prefix, NEW x \in Paths, obj'[p][x] = Torn
      PROVE  /\ kind' # "s3" /\ x[2] = "final"
             /\ \/ <<p, x[1]>> \in broken'
                \/ \E s \in Op : pc'[s] = "uploading" /\ rq'[s].p = p /\ rq'[s].o = x[1]
  <2>1. PlacedAt(r) /\ Apart(r) /\ kind' = kind
    BY <1>2, WorkingPlaced, Alone
  <2>2. \/ obj[p][x] = Torn
        \/ pc[r] \in {"upload", "uploading"} /\ p = rq[r].p /\ x = Final(rq[r].o)
    BY <1>2, ServerAfter, RemoteFacts, RemoteBodies, RemoteNilAssumption
  <2>3. CASE pc[r] # "uploading" /\ obj[p][x] = Torn
    BY <1>1, <1>2, <2>1, <2>3, UploadSteps
  <2>4. CASE pc[r] = "upload" /\ p = rq[r].p /\ x = Final(rq[r].o)
    BY <1>2, <2>1, <2>4, UploadSteps, WritingObject, RemoteFacts
  <2>5. CASE pc[r] = "uploading" /\ ~(p = rq[r].p /\ x = Final(rq[r].o))
    <3>1. obj[p][x] = Torn /\ kind # "s3" /\ x[2] = "final"
      BY <2>2, <2>5
    <3>2. x = Final(x[1])
      BY <3>1 DEF Paths, Final, Flat
    <3>3. ~(p = rq[r].p /\ x[1] = rq[r].o)
      BY <2>5, <3>2
    <3>4. <<p, x[1]>> \in broken => <<p, x[1]>> \in broken'
      <4>1. CASE UploadEnds(r)
        BY <4>1, <3>3 DEF UploadEnds
      <4>2. CASE UploadBreaks(r)
        BY <4>2 DEF UploadBreaks
      <4> QED BY <1>2, <2>5, <4>1, <4>2, UploadSteps
    <3>5. <<p, x[1]>> \notin broken =>
            \E s \in Op : pc'[s] = "uploading" /\ rq'[s].p = p /\ rq'[s].o = x[1]
      <4> SUFFICES ASSUME <<p, x[1]>> \notin broken
                   PROVE  \E s \in Op : pc'[s] = "uploading" /\ rq'[s].p = p /\ rq'[s].o = x[1]
        OBVIOUS
      <4>1. PICK s \in Op : pc[s] = "uploading" /\ rq[s].p = p /\ rq[s].o = x[1]
        BY <3>1
      <4>2. s # r
        BY <3>3, <4>1
      <4>3. pc'[s] = pc[s] /\ rq'[s] = rq[s]
        BY <2>1, <4>2 DEF Apart
      <4> QED BY <4>1, <4>3
    <3> QED BY <2>1, <3>1, <3>4, <3>5
  <2>6. CASE pc[r] = "uploading" /\ p = rq[r].p /\ x = Final(rq[r].o)
    <3>1. kind # "s3" /\ x[2] = "final" /\ x[1] = rq[r].o /\ rq[r].o \in Object /\ rq[r].body # Torn
          /\ p \in Prefix /\ x \in Paths
      BY <2>1, <2>6, WritingObject, RemoteFacts, RemoteBodies
    <3>2. CASE UploadBreaks(r)
      <4>1. <<p, x[1]>> \in broken'
        BY <2>6, <3>1, <3>2 DEF UploadBreaks
      <4> QED BY <2>1, <3>1, <4>1
    <3>3. CASE UploadEnds(r)
      <4>1. PICK v \in {rq[r].body} \cup (IF Others(r) = {} THEN {} ELSE {Torn}) :
              Set(rq[r].p, Final(rq[r].o), v)
        BY <3>3 DEF UploadEnds
      <4>2. obj'[p][x] = v
        BY <2>6, <3>1, <4>1, SetEffect
      <4>3. PICK s \in Others(r) : TRUE
        BY <1>2, <3>1, <4>1, <4>2
      <4>4. s \in Op /\ s # r /\ pc'[s] = "uploading" /\ rq'[s].p = p /\ rq'[s].o = x[1]
        BY <2>1, <2>6, <3>1, <4>3 DEF Others, Apart
      <4> QED BY <2>1, <3>1, <4>4
    <3> QED BY <1>2, <2>6, <3>2, <3>3, UploadSteps
  <2> QED BY <2>2, <2>3, <2>4, <2>5, <2>6
<1>3. ASSUME NEW r \in Op, NEW what \in Kinds, NEW p \in Active, NEW o \in Targets(what),
             NEW body \in Payloads(what, o), Begin(r, what, p, o, body)
      PROVE  TornBlamed'
  <2>1. Apart(r) /\ kind' = kind /\ pc[r] # "uploading" /\ broken' = broken /\ obj' = obj
    BY <1>3, Begins DEF Begin
  <2> QED BY <1>1, <2>1
<1>4. ASSUME NEW r \in Op, Finish(r) PROVE TornBlamed'
  <2>1. Apart(r) /\ kind' = kind /\ pc[r] # "uploading" /\ broken' = broken /\ obj' = obj
    BY <1>4, Finishes DEF Finish
  <2> QED BY <1>1, <2>1
<1>5. CASE LateArrives
  <2>1. PICK p \in Prefix, x \in Paths, v \in Held :
           /\ v \in Bodies[x[1]] \cup {Nil} /\ Set(p, x, v) /\ v # Torn
           /\ UNCHANGED <<kind, repo, local, refused, mistaken, broken>>
    BY <1>5, LateEffect
  <2>2. \A q \in Prefix, y \in Paths : obj'[q][y] = Torn => obj[q][y] = Torn
    BY <2>1, SetEffect
  <2> QED BY <2>1, <2>2 DEF local
<1> QED BY <1>2, <1>3, <1>4, <1>5 DEF Next, Working

-----------------------------------------------------------------------------
\* What an operation has lived through includes how things are now.
SeenNow ==
  \A q \in Op : rq[q].kind \in Asking =>
    \A x \in PathsOf(rq[q].o) : <<x, obj[rq[q].p][x]>> \in seen[q]

\* What a DeleteRepo still wants is there and its own.
WantHere ==
  \A q \in Op : \A e \in want[q] : e \in Under[rq[q].p] \X Paths /\ obj[e[1]][e[2]] # Nil

\* An operation keeps its request.
LEMMA RequestKept ==
  ASSUME LocalTyped, NEW r \in Op, Working(r)
  PROVE  rq'[r].kind = rq[r].kind /\ rq'[r].p = rq[r].p /\ rq'[r].o = rq[r].o
<1> USE DEF LocalTyped
<1>1. CASE Head(r)
  BY <1>1
  DEF Head, Look, NotFound, Goto, Return, ReturnError, Same, Chosen
<1>2. CASE HeadFlat(r)
  BY <1>2
  DEF HeadFlat, Look, NotFound, Goto, Return, ReturnError, Same, Chosen
<1>3. CASE Create(r) \/ ReadBody(r) \/ PutObject(r) \/ Mkdir(r) \/
           UploadStarts(r) \/ UploadEnds(r) \/ UploadBreaks(r) \/ Read(r) \/
           ReadFlat(r) \/ DeleteObject(r) \/ Remove(r) \/ RemoveFlat(r) \/
           NextPage(r) \/ DeletePage(r) \/ RemoveAll(r) \/ ListDir(r) \/
           ListShard(r) \/ ListPage(r) \/ List(r)
  BY <1>3
  DEF Create, ReadBody, PutObject, Mkdir, UploadStarts, UploadEnds, UploadBreaks,
      Read, ReadFlat, DeleteObject, Remove, RemoveFlat, NextPage, DeletePage,
      RemoveAll, DelayedAll, ListDir, ListShard, ReadDir, ListPage, List,
      Same, Return, ReturnError, Goto,
      Still, Delayed, Look, NotFound, Removal, Collects
<1> QED
  BY <1>1, <1>2, <1>3 DEF Working

\* The histories follow whatever changes on the server.
LEMMA FlowSeen ==
  ASSUME Placed, Watching, SeenNow, WantHere, Flow, obj' \in [Prefix -> [Paths -> Held]]
  PROVE  /\ Watching'
         /\ \A q \in Op : /\ rq[q].kind \in Asking =>
                               /\ seen[q] \subseteq seen'[q]
                               /\ \A x \in PathsOf(rq[q].o) : <<x, obj'[rq[q].p][x]>> \in seen'[q]
                          /\ want'[q] \subseteq want[q]
                          /\ \A e \in want'[q] : obj'[e[1]][e[2]] # Nil
<1>1. CASE Same
  BY <1>1 DEF Same, Watching, SeenNow, WantHere
<1>2. ASSUME NEW new, Becomes(new)
      PROVE  /\ Watching'
             /\ \A q \in Op : /\ rq[q].kind \in Asking =>
                                   /\ seen[q] \subseteq seen'[q]
                                   /\ \A x \in PathsOf(rq[q].o) : <<x, obj'[rq[q].p][x]>> \in seen'[q]
                              /\ want'[q] \subseteq want[q]
                              /\ \A e \in want'[q] : obj'[e[1]][e[2]] # Nil
  <2>1. /\ obj' = new
        /\ seen' = [r \in Op |-> IF rq[r].kind \notin Asking THEN {}
                                 ELSE seen[r] \cup At(obj', rq[r].p, rq[r].o)]
        /\ want' = [r \in Op |-> {e \in want[r] : obj'[e[1]][e[2]] # Nil}]
    BY <1>2 DEF Becomes
  <2>2. ASSUME NEW q \in Op, rq[q].kind \in Asking PROVE At(obj', rq[q].p, rq[q].o) \subseteq Paths \X Held
    <3>1. PlacedAt(q)
      BY <2>2 DEF Placed, NoRequest, Asking
    <3>2. rq[q].p \in Prefix /\ rq[q].o \in Object
      BY <2>2, <3>1, RequestFacts DEF Asking
    <3> QED BY <3>2, PathsFacts DEF At
  <2>3. Watching'
    <3>1. \A q \in Op : seen'[q] \in SUBSET (Paths \X Held)
      BY <2>1, <2>2 DEF Watching
    <3>2. seen' \in [Op -> SUBSET (Paths \X Held)]
      BY <2>1, <3>1
    <3>3. want' \in [Op -> SUBSET Keys]
      BY <2>1 DEF Watching
    <3> QED BY <3>2, <3>3 DEF Watching
  <2>4. ASSUME NEW q \in Op, rq[q].kind \in Asking
        PROVE  /\ seen[q] \subseteq seen'[q]
               /\ \A x \in PathsOf(rq[q].o) : <<x, obj'[rq[q].p][x]>> \in seen'[q]
    BY <2>1, <2>4 DEF At
  <2> QED BY <2>1, <2>3, <2>4
<1> QED BY <1>1, <1>2 DEF Flow

\* What follows a step of an operation or of a late request, for every slot.
Followed ==
  /\ Watching'
  /\ \A q \in Op : /\ rq[q].kind \in Asking => seen[q] \subseteq seen'[q]
                   /\ want'[q] \subseteq want[q]

LEMMA WatchWorking ==
  ASSUME LocalTyped, ServerTyped, Placed, Watching, SeenNow, WantHere, NEW r \in Op, Working(r)
  PROVE  Followed /\ SeenNow' /\ WantHere'
<1>1. Flow /\ kind' = kind /\ Apart(r) /\ obj' \in [Prefix -> [Paths -> Held]]
  BY Alone, ServerAfter
<1>2. \A q \in Op : rq'[q].kind = rq[q].kind /\ rq'[q].p = rq[q].p /\ rq'[q].o = rq[q].o
  BY <1>1, RequestKept DEF Apart
<1>3. SeenNow'
  BY <1>1, <1>2, FlowSeen DEF SeenNow, PathsOf, Fallback
<1>4. WantHere'
  BY <1>1, <1>2, FlowSeen DEF WantHere
<1> QED BY <1>1, <1>3, <1>4, FlowSeen DEF Followed

LEMMA WatchLate ==
  ASSUME ServerTyped, LateWhole, Placed, Watching, SeenNow, WantHere, LateArrives
  PROVE  Followed /\ SeenNow' /\ WantHere'
<1>1. PICK p \in Prefix, x \in Paths, v \in Held :
        Set(p, x, v) /\ UNCHANGED <<kind, repo, local, refused, mistaken, broken>>
  BY LateEffect
<1>2. Flow /\ obj' \in [Prefix -> [Paths -> Held]]
  BY <1>1, SetEffect DEF Set, Flow
<1>3. SeenNow'
  BY <1>1, <1>2, FlowSeen DEF SeenNow, PathsOf, Fallback, local
<1>4. WantHere'
  BY <1>1, <1>2, FlowSeen DEF WantHere, local
<1> QED BY <1>2, <1>3, <1>4, FlowSeen DEF Followed

LEMMA WatchBegin ==
  ASSUME LocalTyped, ServerTyped, Placed, Watching, SeenNow, WantHere, NEW r \in Op, NEW what \in Kinds,
         NEW p \in Active, NEW o \in Targets(what), NEW body \in Payloads(what, o),
         Begin(r, what, p, o, body)
  PROVE  Watching' /\ SeenNow' /\ WantHere'
<1>1. p \in Prefix /\ Under[p] \subseteq Prefix /\ (what \in Asking => o \in Object)
  BY RemoteObjectAssumption, RemotePrefixAssumption, RemoteFacts DEF Targets, Asking
<1>2. /\ rq' = [rq EXCEPT ![r] = [kind |-> what, p |-> p, o |-> o, body |-> body, key |-> Nil]]
      /\ seen' = [seen EXCEPT ![r] = IF what \in Asking THEN At(obj, p, o) ELSE {}]
      /\ want' = [want EXCEPT ![r] = IF what # "DeleteRepo" THEN {}
                                     ELSE {e \in Under[p] \X Paths : obj[e[1]][e[2]] # Nil}]
      /\ obj' = obj /\ kind' = kind
  BY DEF Begin
<1>3. what \in Asking => At(obj, p, o) \subseteq Paths \X Held
  BY <1>1, PathsFacts DEF At, ServerTyped
<1>4. Watching'
  BY <1>1, <1>2, <1>3 DEF Watching, Keys
<1>5. SeenNow'
  BY <1>2 DEF LocalTyped, SeenNow, At, Watching, PathsOf, Fallback
<1>6. WantHere'
  BY <1>2 DEF LocalTyped, WantHere, Watching
<1> QED BY <1>4, <1>5, <1>6

LEMMA WatchFinish ==
  ASSUME LocalTyped, Watching, SeenNow, WantHere, NEW r \in Op, Finish(r)
  PROVE  Watching' /\ SeenNow' /\ WantHere'
<1>1. Watching'
  BY DEF Watching, Finish
<1>2. SeenNow'
  BY DEF LocalTyped, SeenNow, Watching, Finish, NoRequest, Asking, PathsOf, Fallback
<1>3. WantHere'
  BY DEF LocalTyped, WantHere, Watching, Finish
<1> QED BY <1>1, <1>2, <1>3

-----------------------------------------------------------------------------
\* What an operation knows at each of its requests, and that its answer is true.
Noted(q, x) == IF x \in page[q].found THEN There(q, x) ELSE Gone(q, x) \/ q \in mistaken
KnowsAt(q) ==
  /\ rq[q].kind \notin Asking => ans[q].err # "ErrNotFound"
  /\ rq[q].kind \in Asking =>
       /\ pc[q] \in {"readFlat", "headFlat", "removeFlat"} => Gone(q, Final(rq[q].o)) \/ q \in mistaken
       /\ pc[q] = "delete" => There(q, rq[q].key)
       /\ pc[q] \in {"listDir", "list"} => page[q].found = {}
       /\ pc[q] = "listShard" => Final(rq[q].o) \notin page[q].found /\ Noted(q, Flat(rq[q].o))
       /\ pc[q] = "listPage" =>
            \A x \in PathsOf(rq[q].o) :
              IF Rank[x] <= page[q].after THEN Noted(q, x) ELSE x \notin page[q].found
       /\ pc[q] = "done" => AnswerTrue(q)
Knows == \A q \in Op : KnowsAt(q)

\* What was so stays known.
LEMMA KnowsKept ==
  ASSUME NEW q \in Op, KnowsAt(q), kind' = kind, rq[q].kind \in Asking => seen[q] \subseteq seen'[q],
         pc'[q] = pc[q], rq'[q] = rq[q], page'[q] = page[q], ans'[q] = ans[q], q \in mistaken' <=> q \in mistaken
  PROVE  KnowsAt(q)'
<1>1. CASE rq[q].kind \notin Asking
  BY <1>1 DEF KnowsAt
<1>2. CASE rq[q].kind \in Asking
  <2>1. \A x : (Gone(q, x) => Gone(q, x)') /\ (There(q, x) => There(q, x)') /\ (Noted(q, x) => Noted(q, x)')
    BY <1>2 DEF Gone, There, Noted
  <2>2. AnswerTrue(q) => AnswerTrue(q)'
    BY <1>2, <2>1 DEF AnswerTrue, PathsOf, Fallback
  <2> QED BY <1>2, <2>1, <2>2 DEF KnowsAt, PathsOf, Fallback
<1> QED BY <1>1, <1>2

\* Where an operation is, what its object's paths are, and what it has just seen.
LEMMA Witnessed ==
  ASSUME LocalTyped, ServerTyped, Placed, Watching, SeenNow, WantHere, Knows, NEW r \in Op, Working(r)
  PROVE  /\ PlacedAt(r) /\ KnowsAt(r) /\ kind' = kind /\ rq[r].kind \in KindsAt(pc[r])
         /\ rq'[r].kind = rq[r].kind /\ rq'[r].o = rq[r].o
         /\ rq[r].kind \in Asking =>
              /\ rq[r].o \in Object /\ rq[r].p \in Prefix /\ Final(rq[r].o) \in PathsOf(rq[r].o)
              /\ Fallback(rq[r].o) => PathsOf(rq[r].o) = {Final(rq[r].o), Flat(rq[r].o)}
              /\ ~Fallback(rq[r].o) => PathsOf(rq[r].o) = {Final(rq[r].o)}
              /\ seen[r] \subseteq seen'[r]
              /\ \A x \in PathsOf(rq[r].o) :
                   /\ x \in Paths /\ obj[rq[r].p][x] \in Held
                   /\ <<x, obj[rq[r].p][x]>> \in seen[r] /\ <<x, obj'[rq[r].p][x]>> \in seen'[r]
<1>1. /\ PlacedAt(r) /\ KnowsAt(r) /\ kind' = kind /\ rq[r].kind \in KindsAt(pc[r])
      /\ rq'[r].kind = rq[r].kind /\ rq'[r].o = rq[r].o /\ rq'[r].p = rq[r].p
  BY WorkingPlaced, Alone, RequestKept DEF Knows, PlacedAt
<1>2. SUFFICES ASSUME rq[r].kind \in Asking
               PROVE  /\ rq[r].o \in Object /\ rq[r].p \in Prefix /\ Final(rq[r].o) \in PathsOf(rq[r].o)
                      /\ Fallback(rq[r].o) => PathsOf(rq[r].o) = {Final(rq[r].o), Flat(rq[r].o)}
                      /\ ~Fallback(rq[r].o) => PathsOf(rq[r].o) = {Final(rq[r].o)}
                      /\ seen[r] \subseteq seen'[r]
                      /\ \A x \in PathsOf(rq[r].o) :
                           /\ x \in Paths /\ obj[rq[r].p][x] \in Held
                           /\ <<x, obj[rq[r].p][x]>> \in seen[r] /\ <<x, obj'[rq[r].p][x]>> \in seen'[r]
  BY <1>1
<1>3. rq[r].o \in Object /\ rq[r].p \in Prefix
  BY <1>1, <1>2, RequestFacts DEF Asking
<1>4. seen[r] \subseteq seen'[r] /\ SeenNow'
  BY <1>2, WatchWorking DEF Followed
<1>5. \A x \in PathsOf(rq[r].o) : <<x, obj'[rq[r].p][x]>> \in seen'[r]
  BY <1>1, <1>2, <1>4 DEF SeenNow, PathsOf, Fallback
<1> QED BY <1>2, <1>3, <1>4, <1>5, PathsFacts DEF PathsOf, SeenNow, ServerTyped

LEMMA KnowsWorking ==
  ASSUME LocalTyped, ServerTyped, Placed, Watching, SeenNow, WantHere, Knows, NEW r \in Op, Working(r)
  PROVE  KnowsAt(r)'
<1>t. PICK o, p : o = rq[r].o /\ p = rq[r].p
  OBVIOUS
<1> USE <1>t
<1>0. /\ PlacedAt(r) /\ KnowsAt(r) /\ kind' = kind /\ rq[r].kind \in KindsAt(pc[r])
      /\ rq'[r].kind = rq[r].kind /\ rq'[r].o = o /\ PathsOf(o)' = PathsOf(o)
  BY Witnessed DEF PathsOf, Fallback
<1>a. rq[r].kind \in Asking =>
        /\ Final(o) \in PathsOf(o)
        /\ Fallback(o) => PathsOf(o) = {Final(o), Flat(o)}
        /\ ~Fallback(o) => PathsOf(o) = {Final(o)}
        /\ seen[r] \subseteq seen'[r]
        /\ \A x \in PathsOf(o) : /\ x \in Paths /\ obj[p][x] \in Held
                                 /\ <<x, obj[p][x]>> \in seen[r] /\ <<x, obj'[p][x]>> \in seen'[r]
  BY Witnessed
<1>b. rq[r].kind \in Asking =>
        \A x : (Gone(r, x) => Gone(r, x)') /\ (There(r, x) => There(r, x)')
  BY <1>a DEF Gone, There
\* An operation that fails has told nothing.
<1>c. ASSUME NEW e, NEW v, Return(r, e, v), e \in {"error", "ErrRepoExists", "ErrRepoNotFound"} PROVE KnowsAt(r)'
  BY <1>0, <1>c DEF KnowsAt, AnswerTrue, Return, LocalTyped
\* Nor has one that asked nothing.
<1>d. ASSUME NEW e, NEW v, Return(r, e, v), rq[r].kind \notin Asking, e # "ErrNotFound" PROVE KnowsAt(r)'
  BY <1>0, <1>d DEF KnowsAt, Return, LocalTyped
<1>e. ASSUME NEW step, Goto(r, step), rq[r].kind \notin Asking PROVE KnowsAt(r)'
  BY <1>0, <1>e DEF KnowsAt, Goto, LocalTyped
\* The answer that there is nothing.
<1>f. ASSUME Return(r, "ErrNotFound", Nil), rq[r].kind \in Asking,
             (\A x \in PathsOf(o) : Gone(r, x)') \/ r \in mistaken'
      PROVE  KnowsAt(r)'
  BY <1>0, <1>f DEF KnowsAt, AnswerTrue, Return, LocalTyped
\* A value that was read at a path of the object.
<1>g. ASSUME NEW x \in PathsOf(o), obj[p][x] # Nil, Return(r, "ok", obj[p][x]), rq[r].kind = "Read" PROVE KnowsAt(r)'
  <2>1. rq'[r].kind = "Read" /\ ans'[r] = [err |-> "ok", value |-> obj[p][x]] /\ pc'[r] = "done"
    BY <1>0, <1>g DEF Return, LocalTyped
  <2>2. <<x, obj[p][x]>> \in seen'[r]
    BY <1>a, <1>g DEF Asking
  <2>3. AnswerTrue(r)'
    BY <1>0, <1>g, <2>1, <2>2 DEF AnswerTrue
  <2> QED BY <2>1, <2>3 DEF KnowsAt, Asking
\* Going on to the flat path.
<1>h. ASSUME NEW step \in {"readFlat", "headFlat", "removeFlat"}, Goto(r, step), rq[r].kind \in Asking,
             Gone(r, Final(o))' \/ r \in mistaken'
      PROVE  KnowsAt(r)'
  BY <1>0, <1>h DEF KnowsAt, Goto, LocalTyped
\* A deletion that succeeded.
<1>i. ASSUME Return(r, "ok", Nil), rq[r].kind = "DeleteBlob",
             \/ \E x \in PathsOf(o) : Gone(r, x)' /\ There(r, x)'
             \/ kind = "webdav" /\ (Gone(r, Final(o))' \/ r \in mistaken')
      PROVE  KnowsAt(r)'
  <2>1. rq'[r].kind = "DeleteBlob" /\ ans'[r].err = "ok" /\ pc'[r] = "done"
    BY <1>0, <1>i DEF Return, LocalTyped
  <2>2. AnswerTrue(r)'
    BY <1>0, <1>i, <2>1 DEF AnswerTrue
  <2> QED BY <2>1, <2>2 DEF KnowsAt, Asking
<1>j. ASSUME NEW x \in PathsOf(o), rq[r].kind \in Asking, NotFound(r, x) PROVE Gone(r, x)' \/ r \in mistaken'
  BY <1>a, <1>j DEF NotFound, Gone
<1>k. ASSUME NEW x \in PathsOf(o), rq[r].kind \in Asking, obj[p][x] # Nil PROVE There(r, x)'
  <2>1. <<x, obj[p][x]>> \in seen'[r] /\ obj[p][x] \in Held \ {Nil}
    BY <1>a, <1>k
  <2> QED BY <2>1 DEF There
<1>l. ASSUME NEW x \in PathsOf(o), rq[r].kind = "DeleteBlob", Set(p, x, Nil) PROVE Gone(r, x)'
  <2>1. obj'[p][x] = Nil
    <3>1. p \in Prefix
      BY <1>0, RequestFacts
    <3>2. x \in Paths
      BY <1>a, <1>l DEF Asking
    <3> QED BY <1>l, <3>1, <3>2, SetEffect
  <2> QED BY <1>a, <1>l, <2>1 DEF Gone, Asking
<1>m. Fallback(o) => Flat(o) \in PathsOf(o)
  BY DEF PathsOf
<1> USE DEF Asking
<1>1. CASE Create(r)
  <2>1. rq[r].kind \notin Asking
    BY <1>0, <1>1 DEF Create, KindsAt
  <2> QED BY <1>1, <2>1, <1>d DEF Create, ReturnError
<1>2. CASE ReadBody(r) \/ Mkdir(r)
  <2>1. rq[r].kind \notin Asking
    BY <1>0, <1>2 DEF ReadBody, Mkdir, KindsAt
  <2> QED BY <1>2, <2>1, <1>d, <1>e DEF ReadBody, Mkdir, ReturnError
<1>3. CASE PutObject(r) \/ UploadStarts(r) \/ UploadEnds(r) \/ UploadBreaks(r)
  <2>1. rq[r].kind \notin Asking
    BY <1>0, <1>3 DEF PutObject, UploadStarts, UploadEnds, UploadBreaks, KindsAt
  <2> QED BY <1>3, <2>1, <1>d, <1>e DEF PutObject, UploadStarts, UploadEnds, UploadBreaks,
                                        ReturnError
<1>4. CASE Read(r)
  <2>1. rq[r].kind = "Read" /\ Final(o) \in PathsOf(o)
    BY <1>0, <1>4, <1>a DEF Read, KindsAt
  <2>2. CASE obj[p][Final(o)] # Nil /\ Return(r, "ok", obj[p][Final(o)])
    BY <1>g, <2>1, <2>2
  <2>3. CASE NotFound(r, Final(o)) /\ Fallback(o) /\ Goto(r, "readFlat")
    BY <1>h, <1>j, <2>1, <2>3
  <2>4. CASE NotFound(r, Final(o)) /\ ~Fallback(o) /\ Return(r, "ErrNotFound", Nil)
    BY <1>a, <1>f, <1>j, <2>1, <2>4
  <2> QED BY <1>4, <1>c, <2>2, <2>3, <2>4 DEF Read, Look, ReturnError
<1>5. CASE ReadFlat(r)
  <2>1. rq[r].kind = "Read" /\ Fallback(o) /\ Flat(o) \in PathsOf(o)
        /\ (Gone(r, Final(o)) \/ r \in mistaken) /\ (r \in mistaken => r \in mistaken')
    BY <1>0, <1>5, <1>m DEF ReadFlat, KindsAt, PlacedAt, KnowsAt, Look, NotFound
  <2>2. CASE obj[p][Flat(o)] # Nil /\ Return(r, "ok", obj[p][Flat(o)])
    BY <1>g, <2>1, <2>2
  <2>3. CASE NotFound(r, Flat(o)) /\ Return(r, "ErrNotFound", Nil)
    BY <1>a, <1>b, <1>f, <1>j, <2>1, <2>3
  <2> QED BY <1>5, <1>c, <2>2, <2>3 DEF ReadFlat, Look, ReturnError
\* The key that a deletion will take has been there.
<1>n. ASSUME NEW x \in PathsOf(o), Chosen(r, x), rq[r].kind = "DeleteBlob", obj[p][x] # Nil PROVE KnowsAt(r)'
  <2>1. pc'[r] = "delete" /\ rq'[r].key = x /\ rq'[r].kind = "DeleteBlob"
    BY <1>0, <1>n DEF Chosen, LocalTyped
  <2> QED BY <1>n, <1>k, <2>1 DEF KnowsAt
<1>6. CASE Head(r)
  <2>1. rq[r].kind = "DeleteBlob" /\ Final(o) \in PathsOf(o)
    BY <1>0, <1>6, <1>a DEF Head, KindsAt
  <2>2. CASE obj[p][Final(o)] # Nil /\ Chosen(r, Final(o))
    BY <1>n, <2>1, <2>2
  <2>3. CASE NotFound(r, Final(o)) /\ Fallback(o) /\ Goto(r, "headFlat")
    BY <1>h, <1>j, <2>1, <2>3
  <2>4. CASE NotFound(r, Final(o)) /\ ~Fallback(o) /\ Return(r, "ErrNotFound", Nil)
    BY <1>a, <1>f, <1>j, <2>1, <2>4
  <2> QED BY <1>6, <1>c, <2>2, <2>3, <2>4 DEF Head, Look, ReturnError
<1>7. CASE HeadFlat(r)
  <2>1. rq[r].kind = "DeleteBlob" /\ Fallback(o) /\ Flat(o) \in PathsOf(o)
        /\ (Gone(r, Final(o)) \/ r \in mistaken) /\ (r \in mistaken => r \in mistaken')
    BY <1>0, <1>7, <1>m DEF HeadFlat, KindsAt, PlacedAt, KnowsAt, Look, NotFound
  <2>2. CASE obj[p][Flat(o)] # Nil /\ Chosen(r, Flat(o))
    BY <1>n, <2>1, <2>2
  <2>3. CASE NotFound(r, Flat(o)) /\ Return(r, "ErrNotFound", Nil)
    BY <1>a, <1>b, <1>f, <1>j, <2>1, <2>3
  <2> QED BY <1>7, <1>c, <2>2, <2>3 DEF HeadFlat, Look, ReturnError
<1>8. CASE DeleteObject(r)
  <2>1. rq[r].kind = "DeleteBlob" /\ rq[r].key \in PathsOf(o) /\ There(r, rq[r].key)
    BY <1>0, <1>8 DEF DeleteObject, KindsAt, PlacedAt, KnowsAt
  <2>2. CASE Set(p, rq[r].key, Nil) /\ Return(r, "ok", Nil)
    BY <1>b, <1>i, <1>l, <2>1, <2>2
  <2> QED BY <1>8, <1>c, <2>2 DEF DeleteObject, ReturnError
\* The three ways in which a removal succeeds or finds nothing.
<1>o. ASSUME NEW x \in PathsOf(o), rq[r].kind = "DeleteBlob", obj[p][x] # Nil, Set(p, x, Nil), Return(r, "ok", Nil)
      PROVE  KnowsAt(r)'
  BY <1>i, <1>k, <1>l, <1>o
<1>9. CASE Remove(r)
  <2>1. rq[r].kind = "DeleteBlob" /\ Final(o) \in PathsOf(o)
    BY <1>0, <1>9, <1>a DEF Remove, KindsAt
  <2>2. CASE obj[p][Final(o)] # Nil /\ Set(p, Final(o), Nil) /\ Return(r, "ok", Nil)
    BY <1>o, <2>1, <2>2
  <2>3. CASE NotFound(r, Final(o)) /\ Fallback(o) /\ Goto(r, "removeFlat")
    BY <1>h, <1>j, <2>1, <2>3
  <2>4. CASE NotFound(r, Final(o)) /\ ~Fallback(o) /\ Return(r, "ErrNotFound", Nil)
    BY <1>a, <1>f, <1>j, <2>1, <2>4
  <2>5. CASE kind = "webdav" /\ obj[p][Final(o)] = Nil /\ Return(r, "ok", Nil)
    <3>1. Gone(r, Final(o))'
      BY <1>a, <2>1, <2>5 DEF Gone
    <3> QED BY <1>i, <2>1, <2>5, <3>1
  <2> QED BY <1>9, <1>c, <2>2, <2>3, <2>4, <2>5 DEF Remove, Removal, ReturnError
<1>10. CASE RemoveFlat(r)
  <2>1. rq[r].kind = "DeleteBlob" /\ Fallback(o) /\ Flat(o) \in PathsOf(o)
        /\ (Gone(r, Final(o)) \/ r \in mistaken) /\ (r \in mistaken => r \in mistaken')
    BY <1>0, <1>10, <1>m DEF RemoveFlat, KindsAt, PlacedAt, KnowsAt, Removal, NotFound
  <2>2. CASE obj[p][Flat(o)] # Nil /\ Set(p, Flat(o), Nil) /\ Return(r, "ok", Nil)
    BY <1>o, <2>1, <2>2
  <2>3. CASE NotFound(r, Flat(o)) /\ Return(r, "ErrNotFound", Nil)
    BY <1>a, <1>b, <1>f, <1>j, <2>1, <2>3
  <2>4. CASE kind = "webdav" /\ Return(r, "ok", Nil)
    BY <1>b, <1>i, <2>1, <2>4
  <2> QED BY <1>10, <1>c, <2>2, <2>3, <2>4 DEF RemoveFlat, Removal, ReturnError
<1>11. CASE NextPage(r) \/ DeletePage(r) \/ RemoveAll(r)
  <2>1. rq[r].kind \notin Asking
    BY <1>0, <1>11 DEF NextPage, DeletePage, RemoveAll, KindsAt
  <2>2. CASE pc'[r] \in {"page", "deletePage"} /\ ans'[r] = ans[r]
    BY <1>0, <2>1, <2>2 DEF KnowsAt
  <2>3. CASE NextPage(r) /\ ~(pc'[r] \in {"page", "deletePage"} /\ ans'[r] = ans[r])
    <3>1. Return(r, "ok", Nil) \/ Return(r, "error", Nil)
      BY <2>3 DEF NextPage, ReturnError, LocalTyped
    <3> QED BY <1>d, <2>1, <3>1
  <2>4. CASE DeletePage(r)
    BY <1>d, <1>e, <2>1, <2>4 DEF DeletePage, ReturnError
  <2>5. CASE RemoveAll(r)
    BY <1>d, <2>1, <2>5 DEF RemoveAll, ReturnError
  <2> QED BY <1>11, <2>2, <2>3, <2>4, <2>5
\* A listing looks at paths of the object and notes which are there.
<1>p. ASSUME NEW x \in PathsOf(o), NEW n, NEW new, NEW next, Collects(r, n, new, next), rq[r].kind = "ListBlobs",
             x \notin page[r].found, x \in new <=> obj[p][x] # Nil
      PROVE  Noted(r, x)'
  <2>1. page'[r].found = page[r].found \cup new
    BY <1>p DEF Collects, LocalTyped
  <2>2. CASE x \in new
    BY <1>k, <1>p, <2>1, <2>2 DEF Noted
  <2>3. CASE x \notin new
    <3>1. Gone(r, x)'
      BY <1>a, <1>p, <2>3 DEF Gone
    <3> QED BY <1>p, <2>1, <2>3, <3>1 DEF Noted
  <2> QED BY <2>2, <2>3
<1>q. ASSUME NEW x \in PathsOf(o), NEW n, NEW new, NEW next, Collects(r, n, new, next), rq[r].kind = "ListBlobs",
             Noted(r, x), x \notin new, r \in mistaken => r \in mistaken'
      PROVE  Noted(r, x)'
  <2>1. page'[r].found = page[r].found \cup new
    BY <1>q DEF Collects, LocalTyped
  <2> QED BY <1>b, <1>q, <2>1 DEF Noted
<1>r. ASSUME NEW n, NEW new, Collects(r, n, new, "done"), rq[r].kind = "ListBlobs",
             \A x \in PathsOf(o) : Noted(r, x)'
      PROVE  KnowsAt(r)'
  <2>1. pc'[r] = "done" /\ rq'[r].kind = "ListBlobs" /\ ans'[r].err = "ok"
    BY <1>0, <1>r DEF Collects, LocalTyped
  <2>2. AnswerTrue(r)'
    BY <1>0, <1>r, <2>1 DEF AnswerTrue, Noted
  <2> QED BY <2>1, <2>2 DEF KnowsAt
<1>s. \A x \in Paths : x \in Entries(r, {x}) <=> obj[p][x] # Nil
  BY DEF Entries
<1>12. CASE ListDir(r)
  <2>1. rq[r].kind = "ListBlobs" /\ page[r].found = {} /\ kind = "webdav"
    BY <1>0, <1>12 DEF ListDir, KindsAt, KnowsAt, PlacedAt, BackendsAt
  <2>2. CASE o \in Sharded /\ Collects(r, 0, Entries(r, {Flat(o)}), "listShard")
    <3>1. Fallback(o) /\ Flat(o) \in PathsOf(o) /\ Final(o) # Flat(o)
      BY <1>m, <2>1, <2>2, RemoteFacts DEF Fallback
    <3>2. Noted(r, Flat(o))'
      BY <1>a, <1>p, <1>s, <2>1, <2>2, <3>1
    <3>3. pc'[r] = "listShard" /\ page'[r].found = Entries(r, {Flat(o)}) /\ ans'[r].err # "ErrNotFound"
      BY <2>1, <2>2 DEF Collects, LocalTyped, NoAnswer
    <3>4. Final(o) \notin page'[r].found
      BY <3>1, <3>3 DEF Entries
    <3> QED BY <1>0, <2>1, <3>2, <3>3, <3>4 DEF KnowsAt
  <2>3. CASE o \notin Sharded /\ Collects(r, 0, Entries(r, {Final(o)}), "done")
    <3>1. PathsOf(o) = {Final(o)}
      BY <1>a, <2>1, <2>3 DEF Fallback
    <3>2. Noted(r, Final(o))'
      BY <1>a, <1>p, <1>s, <2>1, <2>3, <3>1
    <3> QED BY <1>r, <2>1, <2>3, <3>1, <3>2
  <2>4. CASE r \in mistaken' /\ o \in Sharded /\ Collects(r, 0, {}, "listShard")
    <3>1. Fallback(o) /\ Flat(o) \in PathsOf(o)
      BY <1>m, <2>1, <2>4 DEF Fallback
    <3>2. /\ pc'[r] = "listShard" /\ page'[r].found = {} /\ ans'[r].err # "ErrNotFound"
          /\ rq'[r] = rq[r]
      BY <2>1, <2>4 DEF Collects, LocalTyped, NoAnswer
    <3> QED BY <1>0, <2>1, <2>4, <3>2 DEF KnowsAt, Noted
  <2>5. CASE r \in mistaken' /\ o \notin Sharded /\ Collects(r, 0, {}, "done")
    <3>1. page'[r].found = {}
      BY <2>1, <2>5 DEF Collects, LocalTyped
    <3>2. \A x \in PathsOf(o) : Noted(r, x)'
      BY <2>5, <3>1 DEF Noted
    <3> QED BY <1>r, <2>1, <2>5, <3>2
  <2> QED BY <1>12, <1>c, <2>2, <2>3, <2>4, <2>5 DEF ListDir, ReadDir, ReturnError
<1>13. CASE ListShard(r)
  <2>1. /\ rq[r].kind = "ListBlobs" /\ Fallback(o) /\ PathsOf(o) = {Final(o), Flat(o)}
        /\ Final(o) \notin page[r].found /\ Noted(r, Flat(o)) /\ Final(o) # Flat(o)
    BY <1>0, <1>13, <1>a, RemoteFacts DEF ListShard, KindsAt, KnowsAt, PlacedAt
  <2>5. r \in mistaken => r \in mistaken'
    BY <1>13 DEF ListShard, ReadDir
  <2>2. CASE Collects(r, 0, Entries(r, {Final(o)}), "done")
    <3>1. Noted(r, Final(o))'
      BY <1>a, <1>p, <1>s, <2>1, <2>2
    <3>2. Flat(o) \notin Entries(r, {Final(o)})
      BY <2>1 DEF Entries
    <3>3. Noted(r, Flat(o))'
      BY <1>q, <2>1, <2>2, <2>5, <3>2
    <3> QED BY <1>r, <2>1, <2>2, <3>1, <3>3
  <2>3. CASE r \in mistaken' /\ Collects(r, 0, {}, "done")
    <3>1. page'[r].found = page[r].found
      BY <2>1, <2>3 DEF Collects, LocalTyped
    <3>2. Noted(r, Final(o))'
      BY <2>1, <2>3, <3>1 DEF Noted
    <3>3. Noted(r, Flat(o))'
      BY <1>q, <2>1, <2>3, <2>5
    <3> QED BY <1>r, <2>1, <2>3, <3>2, <3>3
  <2> QED BY <1>13, <1>c, <2>2, <2>3 DEF ListShard, ReadDir, ReturnError
<1>14. CASE List(r)
  <2>1. rq[r].kind = "ListBlobs" /\ page[r].found = {} /\ PathsOf(o) = {Final(o)}
    BY <1>0, <1>14, <1>a DEF List, KindsAt, KnowsAt, PlacedAt, BackendsAt, Fallback
  <2>2. CASE Collects(r, 0, Entries(r, {Final(o)}), "done")
    <3>1. Noted(r, Final(o))'
      BY <1>a, <1>p, <1>s, <2>1, <2>2
    <3> QED BY <1>r, <2>1, <2>2, <3>1
  <2> QED BY <1>14, <1>c, <2>2 DEF List, ReturnError
<1>15. CASE ListPage(r)
  <2>1. /\ rq[r].kind = "ListBlobs" /\ page[r].after \in 0 .. Last /\ Last \in Nat
        /\ \A x \in PathsOf(o) : IF Rank[x] <= page[r].after THEN Noted(r, x) ELSE x \notin page[r].found
    BY <1>0, <1>15, RankAssumption DEF ListPage, KindsAt, KnowsAt, LocalTyped
  <2>5. mistaken' = mistaken
    BY <1>15 DEF ListPage, Still
  <2>2. ASSUME NEW n \in (page[r].after + 1) .. Last, NEW new, NEW next \in {"done", "listPage"},
               new = {x \in Entries(r, {Final(o), Flat(o)}) : Rank[x] > page[r].after /\ Rank[x] <= n},
               Collects(r, n, new, next), next = "done" <=> n = Last
        PROVE  KnowsAt(r)'
    <3>1. ASSUME NEW x \in PathsOf(o)
          PROVE  /\ Rank[x] \in 1 .. Last
                 /\ IF Rank[x] <= n THEN Noted(r, x)' ELSE x \notin page'[r].found
      <4>1. Rank[x] \in 1 .. Last /\ x \in Paths
        BY <1>a, <2>1, RankAssumption
      <4>2. x \in new <=> obj[p][x] # Nil /\ Rank[x] > page[r].after /\ Rank[x] <= n
        BY <1>a, <2>1, <2>2, <4>1 DEF Entries
      <4>3. CASE Rank[x] <= page[r].after
        <5>1. Noted(r, x) /\ x \notin new /\ Rank[x] <= n
          BY <2>1, <2>2, <4>1, <4>2, <4>3
        <5> QED BY <1>q, <2>1, <2>2, <2>5, <4>1, <5>1
      <4>4. CASE Rank[x] > page[r].after /\ Rank[x] <= n
        <5>1. x \notin page[r].found /\ (x \in new <=> obj[p][x] # Nil)
          BY <2>1, <4>1, <4>2, <4>4
        <5> QED BY <1>p, <2>1, <2>2, <4>1, <4>4, <5>1
      <4>5. CASE Rank[x] > n
        <5>1. x \notin page[r].found /\ x \notin new
          BY <2>1, <2>2, <4>1, <4>2, <4>5
        <5>2. page'[r].found = page[r].found \cup new
          BY <2>2 DEF Collects, LocalTyped
        <5> QED BY <2>1, <2>2, <4>1, <4>5, <5>1, <5>2
      <4> QED BY <2>1, <2>2, <4>1, <4>3, <4>4, <4>5
    <3>2. CASE next = "done"
      <4>1. \A x \in PathsOf(o) : Noted(r, x)'
        BY <2>1, <2>2, <3>1, <3>2
      <4> QED BY <1>r, <2>1, <2>2, <3>2, <4>1
    <3>3. CASE next = "listPage"
      <4>1. pc'[r] = "listPage" /\ page'[r].after = n /\ ans'[r].err # "ErrNotFound"
        BY <2>2, <3>3 DEF Collects, LocalTyped, NoAnswer
      <4> QED BY <1>0, <2>1, <3>1, <4>1 DEF KnowsAt
    <3> QED BY <3>2, <3>3
  <2>3. CASE ReturnError(r)
    BY <1>c, <2>3 DEF ReturnError
  <2>4. CASE ~ReturnError(r)
    <3>1. PICK n \in (page[r].after + 1) .. Last :
            Collects(r, n, {x \in Entries(r, {Final(o), Flat(o)}) : Rank[x] > page[r].after /\ Rank[x] <= n},
                     IF n = Last THEN "done" ELSE "listPage")
      BY <1>15, <2>4 DEF ListPage
    <3> QED BY <2>2, <3>1
  <2> QED BY <2>3, <2>4
<1> QED
  BY <1>1, <1>2, <1>3, <1>4, <1>5, <1>6, <1>7, <1>8, <1>9, <1>10, <1>11, <1>12, <1>13, <1>14, <1>15
  DEF Working

LEMMA KnowsStep ==
  ASSUME LocalTyped, ServerTyped, LateWhole, Placed, Watching, SeenNow, WantHere, Knows,
         kind \in {"s3", "webdav", "rclone"}, Next
  PROVE  Knows'
<1>1. ASSUME NEW r \in Op, Working(r) PROVE Knows'
  <2>1. Apart(r) /\ Followed /\ kind' = kind
    BY <1>1, Alone, WatchWorking
  <2>2. \A q \in Op \ {r} : KnowsAt(q)'
    BY <2>1, KnowsKept DEF Knows, Apart, Followed
  <2> QED BY <1>1, <2>2, KnowsWorking DEF Knows
<1>2. ASSUME NEW r \in Op, NEW what \in Kinds, NEW p \in Active, NEW o \in Targets(what),
             NEW body \in Payloads(what, o), Begin(r, what, p, o, body)
      PROVE  Knows'
  <2>1. Apart(r) /\ kind' = kind /\ pc[r] = "idle" /\ pc'[r] = FirstRequest(what)
    BY <1>2, Begins DEF Begin, LocalTyped
  <2>2. \A q \in Op \ {r} : seen'[q] = seen[q]
    BY <1>2 DEF Begin, Watching
  <2>3. \A q \in Op \ {r} : KnowsAt(q)'
    BY <2>1, <2>2, KnowsKept DEF Knows, Apart
  <2>4. page'[r] = NoPage /\ ans'[r] = ans[r] /\ rq[r].kind \notin Asking
    BY <1>2, <2>1 DEF Begin, Placed, NoRequest, Asking
  <2>5. ans[r].err # "ErrNotFound"
    BY <2>4 DEF Knows, KnowsAt
  <2>6. FirstRequest(what) \notin {"readFlat", "headFlat", "removeFlat", "delete", "listShard", "done"}
    BY DEF FirstRequest, Kinds
  <2>7. PathsOf(rq[r].o)' \subseteq Paths \/ rq'[r].kind \notin Asking
    <3>1. rq'[r].kind = what /\ rq'[r].o = o
      BY <1>2 DEF Begin, LocalTyped
    <3>2. what \in Asking => o \in Object
      BY RemoteFacts DEF Targets, Asking
    <3> QED BY <2>1, <3>1, <3>2, PathsFacts DEF PathsOf, Fallback
  <2>8. KnowsAt(r)'
    BY <2>1, <2>4, <2>5, <2>6, <2>7, RankAssumption DEF KnowsAt, NoPage
  <2> QED BY <2>3, <2>8 DEF Knows
<1>3. ASSUME NEW r \in Op, Finish(r) PROVE Knows'
  <2>1. Apart(r) /\ kind' = kind /\ rq'[r] = NoRequest
    BY <1>3, Finishes
  <2>2. \A q \in Op \ {r} : seen'[q] = seen[q]
    BY <1>3 DEF Finish, Watching
  <2>3. \A q \in Op \ {r} : KnowsAt(q)'
    BY <2>1, <2>2, KnowsKept DEF Knows, Apart
  <2>4. KnowsAt(r)'
    BY <1>3, <2>1 DEF KnowsAt, Finish, LocalTyped, NoRequest, NoAnswer, Asking
  <2> QED BY <2>3, <2>4 DEF Knows
<1>4. CASE LateArrives
  <2>1. Followed /\ UNCHANGED <<kind, repo, local, refused, mistaken, broken>>
    BY <1>4, WatchLate, LateEffect
  <2> QED BY <2>1, KnowsKept DEF Knows, Followed, local
<1> QED BY <1>1, <1>2, <1>3, <1>4 DEF Next, Working

-----------------------------------------------------------------------------
\* What a DeleteRepo wants and has passed was refused, or is on the page in hand.
SweptAt(q) ==
  rq[q].kind = "DeleteRepo" =>
    /\ pc[q] = "page" => \A e \in want[q] : Rank[e[2]] <= page[q].after => e \in refused[q]
    /\ pc[q] = "deletePage" =>
         \A e \in want[q] : Rank[e[2]] <= page[q].after => e \in refused[q] \/ e \in page[q].keys
    /\ pc[q] = "done" /\ ans[q].err = "ok" => want[q] \subseteq refused[q]
Swept == \A q \in Op : SweptAt(q)

LEMMA SweptKept ==
  ASSUME NEW q \in Op, SweptAt(q), want'[q] \subseteq want[q], refused'[q] = refused[q],
         pc'[q] = pc[q], rq'[q] = rq[q], page'[q] = page[q], ans'[q] = ans[q]
  PROVE  SweptAt(q)'
BY DEF SweptAt

LEMMA SweptWorking ==
  ASSUME LocalTyped, ServerTyped, Placed, Watching, SeenNow, WantHere, Swept, NEW r \in Op, Working(r)
  PROVE  SweptAt(r)'
<1>0. /\ PlacedAt(r) /\ kind' = kind /\ rq[r].kind \in KindsAt(pc[r]) /\ SweptAt(r)
      /\ rq'[r].kind = rq[r].kind /\ rq'[r].p = rq[r].p
      /\ want'[r] \subseteq want[r]
  BY WorkingPlaced, Alone, RequestKept, WatchWorking DEF PlacedAt, Followed, Swept
<1>a. \A e \in want[r] : /\ e \in Under[rq[r].p] \X Paths /\ obj[e[1]][e[2]] # Nil
                         /\ e[1] \in Prefix /\ e[2] \in Paths /\ Rank[e[2]] \in 1 .. Last
                         /\ e = <<e[1], e[2]>>
  BY <1>0, RequestFacts, RankAssumption DEF WantHere
<1>b. \A e \in want'[r] : obj'[e[1]][e[2]] # Nil
  BY WatchWorking DEF WantHere
<1>c. page[r].after \in 0 .. Last /\ Last \in Nat
  BY RankAssumption DEF LocalTyped
<1>d. ASSUME ReturnError(r) PROVE SweptAt(r)'
  BY <1>d DEF SweptAt, ReturnError, Return, LocalTyped
<1>1. CASE rq[r].kind # "DeleteRepo"
  BY <1>0, <1>1 DEF SweptAt
<1>2. CASE NextPage(r)
  <2>1. CASE page[r].after = Last /\ Return(r, "ok", Nil)
    <3>1. refused' = refused /\ pc[r] = "page"
      BY <1>2 DEF NextPage, Still
    <3>2. rq[r].kind = "DeleteRepo" => \A e \in want[r] : e \in refused[r]
      BY <1>0, <1>a, <1>c, <2>1, <3>1 DEF SweptAt
    <3> QED BY <1>0, <2>1, <3>1, <3>2 DEF SweptAt, Return, LocalTyped
  <2>2. ASSUME NEW n \in (page[r].after + 1) .. Last, NEW keys,
               keys = PageUpTo(r, n, PrefixPath(rq[r].p)),
               page' = [page EXCEPT ![r] = [after |-> n, keys |-> keys, found |-> {}]],
               pc' = [pc EXCEPT ![r] = IF keys = {} THEN "page" ELSE "deletePage"]
        PROVE  SweptAt(r)'
    <3>1. refused' = refused /\ pc[r] = "page"
      BY <1>2 DEF NextPage, Still
    <3>2. page'[r].after = n /\ page'[r].keys = keys /\ pc'[r] = IF keys = {} THEN "page" ELSE "deletePage"
      BY <2>2 DEF LocalTyped
    <3>3. ASSUME NEW e \in want[r], rq[r].kind = "DeleteRepo", Rank[e[2]] <= n
          PROVE  e \in refused[r] \/ e \in keys
      <4>1. CASE Rank[e[2]] <= page[r].after
        BY <1>0, <3>1, <3>3, <4>1 DEF SweptAt
      <4>2. CASE Rank[e[2]] > page[r].after
        BY <1>a, <2>2, <3>3, <4>2 DEF PageUpTo, PrefixPath
      <4> QED BY <1>a, <1>c, <4>1, <4>2
    <3> QED BY <1>0, <3>1, <3>2, <3>3 DEF SweptAt
  <2>3. CASE ReturnError(r)
    BY <1>d, <2>3
  <2> QED BY <1>2, <2>1, <2>2, <2>3 DEF NextPage
<1>3. CASE DeletePage(r)
  <2>1. ASSUME NEW S \in SUBSET page[r].keys, Becomes(Without(page[r].keys \ S)),
               refused' = [refused EXCEPT ![r] = @ \cup S], Goto(r, "page")
        PROVE  SweptAt(r)'
    <3>1. refused'[r] = refused[r] \cup S /\ pc'[r] = "page" /\ page'[r] = page[r] /\ pc[r] = "deletePage"
      BY <1>3, <2>1 DEF LocalTyped, Goto, DeletePage
    <3>2. ASSUME NEW e \in want'[r] PROVE e \notin page[r].keys \ S
      <4>1. e \in want[r] /\ obj'[e[1]][e[2]] # Nil /\ e[1] \in Prefix /\ e[2] \in Paths /\ e = <<e[1], e[2]>>
        BY <1>0, <1>a, <1>b
      <4> QED BY <2>1, <4>1, WithoutEffect
    <3> QED BY <1>0, <3>1, <3>2 DEF SweptAt
  <2>2. CASE ReturnError(r)
    BY <1>d, <2>2
  <2> QED BY <1>3, <2>1, <2>2 DEF DeletePage
<1>4. CASE RemoveAll(r)
  <2>1. CASE Becomes(Without(Under[rq[r].p] \X Paths))
    <3>1. want'[r] = {}
      <4> SUFFICES ASSUME NEW e \in want'[r] PROVE FALSE
        OBVIOUS
      <4>1. e \in want[r] /\ obj'[e[1]][e[2]] # Nil
        BY <1>0, <1>b
      <4>2. e[1] \in Prefix /\ e[2] \in Paths /\ <<e[1], e[2]>> \in Under[rq[r].p] \X Paths
        BY <1>a, <4>1
      <4> QED BY <2>1, <4>1, <4>2, WithoutEffect
    <3> QED BY <3>1 DEF SweptAt
  <2>2. CASE ReturnError(r)
    BY <1>d, <2>2
  <2> QED BY <1>4, <2>1, <2>2 DEF RemoveAll
<1>5. CASE Create(r)
  BY <1>0, <1>1, <1>5 DEF Create, KindsAt
<1>6. CASE ReadBody(r) \/ PutObject(r) \/ Mkdir(r) \/ UploadStarts(r) \/ UploadEnds(r) \/ UploadBreaks(r)
  BY <1>0, <1>1, <1>6
  DEF ReadBody, PutObject, Mkdir, UploadStarts, UploadEnds, UploadBreaks, KindsAt
<1>7. CASE Read(r) \/ ReadFlat(r) \/ Head(r) \/ HeadFlat(r) \/ DeleteObject(r) \/ Remove(r) \/ RemoveFlat(r)
  BY <1>0, <1>1, <1>7 DEF Read, ReadFlat, Head, HeadFlat, DeleteObject, Remove, RemoveFlat, KindsAt
<1>8. CASE ListDir(r) \/ ListShard(r) \/ ListPage(r) \/ List(r)
  BY <1>0, <1>1, <1>8 DEF ListDir, ListShard, ReadDir, ListPage, List, KindsAt
<1> QED BY <1>2, <1>3, <1>4, <1>5, <1>6, <1>7, <1>8 DEF Working

LEMMA SweptStep ==
  ASSUME LocalTyped, ServerTyped, LateWhole, Placed, Watching, SeenNow, WantHere, Swept,
         kind \in {"s3", "webdav", "rclone"}, Next
  PROVE  Swept'
<1>1. ASSUME NEW r \in Op, Working(r) PROVE Swept'
  <2>1. Apart(r) /\ Followed
    BY <1>1, Alone, WatchWorking
  <2>2. \A q \in Op \ {r} : SweptAt(q)'
    BY <2>1, SweptKept DEF Swept, Apart, Followed
  <2> QED BY <1>1, <2>2, SweptWorking DEF Swept
<1>2. ASSUME NEW r \in Op, NEW what \in Kinds, NEW p \in Active, NEW o \in Targets(what),
             NEW body \in Payloads(what, o), Begin(r, what, p, o, body)
      PROVE  Swept'
  <2>1. Apart(r) /\ pc[r] = "idle" /\ pc'[r] = FirstRequest(what)
        /\ \A q \in Op \ {r} : want'[q] = want[q]
    BY <1>2, Begins DEF Begin, LocalTyped, Watching
  <2>2. \A q \in Op \ {r} : SweptAt(q)'
    BY <2>1, SweptKept DEF Swept, Apart
  <2>3. FirstRequest(what) \notin {"deletePage", "done"}
    BY DEF FirstRequest, Kinds
  <2>4. page'[r].after = 0
    BY <1>2, <2>1 DEF Begin, Placed, NoPage
  <2>5. ASSUME NEW e \in want'[r], what = "DeleteRepo" PROVE Rank[e[2]] \in 1 .. Last
    <3>1. e \in Under[p] \X Paths
      BY <1>2, <2>5 DEF Begin, Watching
    <3> QED BY <3>1, RankAssumption
  <2>6. SweptAt(r)'
    <3>1. rq'[r].kind = what
      BY <1>2 DEF Begin, LocalTyped
    <3> QED BY <2>1, <2>3, <2>4, <2>5, <3>1, RankAssumption DEF SweptAt
  <2> QED BY <2>2, <2>6 DEF Swept
<1>3. ASSUME NEW r \in Op, Finish(r) PROVE Swept'
  <2>1. Apart(r) /\ rq'[r] = NoRequest /\ \A q \in Op \ {r} : want'[q] = want[q]
    BY <1>3, Finishes DEF Finish, Watching
  <2>2. \A q \in Op \ {r} : SweptAt(q)'
    BY <2>1, SweptKept DEF Swept, Apart
  <2> QED BY <2>1, <2>2 DEF Swept, SweptAt, NoRequest
<1>4. CASE LateArrives
  <2>1. Followed /\ UNCHANGED <<kind, repo, local, refused, mistaken, broken>>
    BY <1>4, WatchLate, LateEffect
  <2> QED BY <2>1, SweptKept DEF Swept, Followed, local
<1> QED BY <1>1, <1>2, <1>3, <1>4 DEF Next, Working

-----------------------------------------------------------------------------
RemoteInv ==
  /\ TypeOK /\ Placed /\ LateWhole /\ Own /\ TornBlamed
  /\ SeenNow /\ WantHere /\ Knows /\ Swept

LEMMA RemoteInitInv == Init => RemoteInv
<1> SUFFICES ASSUME Init PROVE RemoteInv
  OBVIOUS
<1>1. PICK L \in [Prefix -> SUBSET Legacy] :
        obj = [p \in Prefix |-> [x \in Paths |->
                 IF x[2] = "flat" /\ x[1] \in L[p] THEN CHOOSE c \in Bodies[x[1]] : TRUE ELSE Nil]]
  BY DEF Init
<1>2. \A p \in Prefix, x \in Paths : obj[p][x] \in Bodies[x[1]] \cup {Nil}
  <2>1. \A o \in Legacy : (CHOOSE c \in Bodies[o] : TRUE) \in Bodies[o]
    BY RemoteObjectAssumption, RemoteContentAddressed
  <2> QED BY <1>1, <2>1
<1>3. ServerTyped
  <2>1. \A p \in Prefix, x \in Paths : obj[p][x] \in Held
    BY <1>2, RemoteFacts, RemoteBodies DEF Held
  <2>2. obj = [p \in Prefix |-> [x \in Paths |-> obj[p][x]]]
    BY <1>1
  <2>3. obj \in [Prefix -> [Paths -> Held]]
    BY <2>1, <2>2
  <2> QED BY <2>3 DEF ServerTyped, Init
<1>4. LocalTyped
  <2>1. NoRequest \in [kind : Kinds \cup {"none"}, p : Prefix \cup {Nil}, o : Object \cup {Nil},
                       body : Content \cup {Nil}, key : Paths \cup {Nil}]
    BY DEF NoRequest
  <2>2. NoPage \in [after : 0 .. Last, keys : SUBSET Keys, found : SUBSET Paths]
    BY RankAssumption DEF NoPage
  <2>3. NoAnswer \in [err : Errors, value : Held] /\ "idle" \in Steps
    BY DEF NoAnswer, Errors, Held, Steps
  <2> QED BY <2>1, <2>2, <2>3 DEF LocalTyped, Init, Each
<1>5. Watching
  BY DEF Watching, Init, Each
<1>6. Placed /\ LateWhole
  BY DEF Placed, LateWhole, Init, Each
<1>7. Own /\ TornBlamed
  BY <1>2, RemoteFacts, RemoteBodies, RemoteNilAssumption DEF Own, TornBlamed
<1>8. SeenNow /\ WantHere /\ Knows /\ Swept
  BY DEF SeenNow, WantHere, Knows, KnowsAt, Swept, SweptAt, Init, Each, NoRequest, NoAnswer, Asking
<1> QED BY <1>3, <1>4, <1>5, <1>6, <1>7, <1>8, RemoteParts DEF RemoteInv

\* The invariant is inductive.
LEMMA RemoteStep == RemoteInv /\ [Next]_vars => RemoteInv'
<1> SUFFICES ASSUME RemoteInv, [Next]_vars PROVE RemoteInv'
  OBVIOUS
<1>1. /\ LocalTyped /\ ServerTyped /\ Watching /\ Placed /\ LateWhole /\ Own /\ TornBlamed
      /\ SeenNow /\ WantHere /\ Knows /\ Swept
  BY RemoteParts DEF RemoteInv
<1>2. kind \in {"s3", "webdav", "rclone"}
  BY <1>1, BackendAssumption DEF LocalTyped
<1>3. CASE Next
  <2>1. LocalTyped' /\ Placed'
    BY <1>1, <1>2, <1>3, LocalStep, PlacedStep
  <2>2. ServerTyped' /\ LateWhole' /\ Own' /\ TornBlamed'
    BY <1>1, <1>2, <1>3, ServerStep, TornStep
  <2>3. Watching' /\ SeenNow' /\ WantHere'
    BY <1>1, <1>3, WatchWorking, WatchLate, WatchBegin, WatchFinish DEF Next, Working, Followed
  <2>4. Knows' /\ Swept'
    BY <1>1, <1>2, <1>3, KnowsStep, SweptStep
  <2>5. TypeOK'
    BY <2>1, <2>2, <2>3 DEF TypeOK, LocalTyped, ServerTyped, Watching
  <2> QED BY <2>1, <2>2, <2>3, <2>4, <2>5 DEF RemoteInv
<1>4. CASE UNCHANGED vars
  <2> USE <1>4 DEF vars, local
  <2>1. TypeOK' /\ LateWhole' /\ Own' /\ TornBlamed'
    BY DEF RemoteInv, TypeOK, LateWhole, Own, TornBlamed
  <2>2. Placed' /\ SeenNow' /\ WantHere'
    BY DEF RemoteInv, Placed, PlacedAt, SeenNow, WantHere, Fallback, PathsOf
  <2>3. Knows' /\ Swept'
    BY <1>1, KnowsKept, SweptKept DEF Knows, Swept
  <2> QED BY <2>1, <2>2, <2>3 DEF RemoteInv
<1> QED BY <1>3, <1>4

LEMMA RemoteInvariant == Spec => []RemoteInv
<1> QED BY RemoteInitInv, RemoteStep, PTL DEF Spec

\* Type correctness of the remote backends.
THEOREM RemoteTyped == Spec => []TypeOK
<1>1. RemoteInv => TypeOK
  BY DEF RemoteInv
<1> QED BY <1>1, RemoteInvariant, PTL

\* A part of a body is found only while an upload goes on or after one broke off, for
\* any number of uploads at a time; on S3 never.
THEOREM RemoteTorn == Spec => []TornBlamed
<1>1. RemoteInv => TornBlamed
  BY DEF RemoteInv
<1> QED BY <1>1, RemoteInvariant, PTL

\* Answers are true of what happened while the operation was carried out, whatever
\* other operations and late requests interleave.
THEOREM RemoteAnswers == Spec => []AnswersTrue
<1>1. RemoteInv => AnswersTrue
  <2> SUFFICES ASSUME RemoteInv, NEW r \in Op, pc[r] = "done" PROVE AnswerTrue(r)
    BY DEF AnswersTrue
  <2>1. KnowsAt(r)
    BY DEF RemoteInv, Knows
  <2>2. CASE rq[r].kind \in Asking
    BY <2>1, <2>2 DEF KnowsAt
  <2>3. CASE rq[r].kind \notin Asking
    BY <2>1, <2>3 DEF KnowsAt, AnswerTrue, Asking
  <2> QED BY <2>2, <2>3
<1> QED BY <1>1, RemoteInvariant, PTL

\* A DeleteRepo that has answered with success has made everything it found go that
\* the server did not refuse to delete, however the keys fall into pages.
THEOREM RemoteRepoGone == Spec => []RepoGone
<1>1. RemoteInv => RepoGone
  BY DEF RemoteInv, Swept, SweptAt, RepoGone
<1> QED BY <1>1, RemoteInvariant, PTL

LEMMA RemoteIsolatedStep ==
  ASSUME RemoteInv, [Next]_vars, NEW p \in Prefix, obj'[p] # obj[p]
  PROVE  Touches(p)
<1>1. LocalTyped /\ ServerTyped /\ Watching /\ Placed /\ LateWhole
  BY RemoteParts DEF RemoteInv
<1>2. ASSUME NEW r \in Op, Working(r) PROVE Touches(p)
  <2>1. PlacedAt(r) /\ Writes(r) /\ pc[r] \notin {"idle", "done"}
    BY <1>1, <1>2, WorkingPlaced, WorkingWrites
  <2>2. rq[r].p \in Prefix /\ rq[r].p \in Under[rq[r].p] /\ Under[rq[r].p] \subseteq Prefix
    BY <2>1, RequestFacts
  <2>3. ASSUME NEW x \in Paths, NEW v, Set(rq[r].p, x, v) PROVE p = rq[r].p
    BY <1>1, <2>2, <2>3, SetEffect
  <2>4. ASSUME NEW S \in SUBSET (Under[rq[r].p] \X Paths), Becomes(Without(S)) PROVE p \in Under[rq[r].p]
    <3>1. PICK y \in Paths : <<p, y>> \in S
      BY <1>1, <2>4, WithoutEffect
    <3> QED BY <3>1
  <2>5. p \in Under[rq[r].p]
    <3>1. CASE Same
      BY <3>1 DEF Same
    <3>2. CASE pc[r] \in {"upload", "uploading"} /\ \E v : Set(rq[r].p, Final(rq[r].o), v)
      BY <2>1, <2>2, <2>3, <3>2, WritingObject
    <3>3. CASE pc[r] = "put" /\ Set(rq[r].p, Final(rq[r].o), rq[r].body)
      BY <2>1, <2>2, <2>3, <3>3, WritingObject
    <3>4. CASE pc[r] \in {"delete", "remove", "removeFlat"} /\ \E x \in PathsOf(rq[r].o) : Set(rq[r].p, x, Nil)
      BY <2>1, <2>2, <2>3, <3>4, WritingObject, PathsFacts
    <3> QED BY <2>1, <2>4, <3>1, <3>2, <3>3, <3>4 DEF Writes
  <2> QED BY <2>1, <2>5 DEF Touches
<1>3. CASE LateArrives
  <2>1. PICK q \in Prefix, x \in Paths, v \in Held : <<q, x, v>> \in late /\ Set(q, x, v)
    BY <1>1, <1>3, LateEffect
  <2>2. p = q
    BY <1>1, <2>1, SetEffect
  <2> QED BY <2>1, <2>2 DEF Touches
<1>4. ASSUME NEW r \in Op, NEW what \in Kinds, NEW q \in Active, NEW o \in Targets(what),
             NEW body \in Payloads(what, o), Begin(r, what, q, o, body)
      PROVE  FALSE
  BY <1>4 DEF Begin
<1>5. ASSUME NEW r \in Op, Finish(r) PROVE FALSE
  BY <1>5 DEF Finish
<1>6. CASE UNCHANGED vars
  BY <1>6 DEF vars
<1> QED BY <1>2, <1>3, <1>4, <1>5, <1>6 DEF Next, Working

\* No operation touches a repository that is neither its own nor inside its own.
THEOREM RemoteIsolated == Spec => Isolated
<1>1. RemoteInv /\ [Next]_vars => [\A p \in Prefix : obj'[p] # obj[p] => Touches(p)]_vars
  BY RemoteIsolatedStep
<1>2. Spec => [][\A p \in Prefix : obj'[p] # obj[p] => Touches(p)]_vars
  BY <1>1, RemoteInvariant, PTL DEF Spec
<1> QED BY <1>2 DEF Isolated

-----------------------------------------------------------------------------
\* Store is the instance of ObjectStore.  What can be seen on S3 is whole.
LEMMA S3Whole ==
  ASSUME Own, TornBlamed, kind = "s3", NEW p \in Prefix
  PROVE  /\ \A x \in Paths : obj[p][x] \in Bodies[x[1]] \cup {Nil}
         /\ \A o \in Object : Value(p, o) \in Bodies[o] \cup {Nil}
<1>1. \A x \in Paths : obj[p][x] \in Bodies[x[1]] \cup {Nil}
  BY DEF Own, TornBlamed
<1> QED BY <1>1, RemoteFacts DEF Value, Fallback

LEMMA RemoteStoreInit == RemoteInv => Store!Init
<1> SUFFICES ASSUME RemoteInv PROVE Store!Init
  OBVIOUS
<1>1. kind = "s3" => \A p \in Prefix, o \in Object : Value(p, o) \in Bodies[o] \cup {Nil}
  BY S3Whole DEF RemoteInv
<1> QED BY <1>1 DEF Store!Init, Values

\* A body is put under one of the keys of its object.
LEMMA SetPuts ==
  ASSUME RemoteInv, kind = "s3", kind' = kind, NEW p \in Prefix, NEW x \in Paths, NEW v \in Bodies[x[1]],
         Set(p, x, v)
  PROVE  Store!Next
<1> DEFINE o == x[1]
<1>1. ServerTyped /\ o \in Object /\ (x = Final(o) \/ (x = Flat(o) /\ o \in Sharded)) /\ v # Nil
  <2>1. ServerTyped /\ o \in Object
    BY RemoteParts, RemoteFacts DEF RemoteInv
  <2>2. x = Final(o) \/ (x = Flat(o) /\ o \in Sharded)
    BY DEF Paths, Final, Flat
  <2> QED BY <2>1, <2>2, RemoteBodies
<1>2. \A q \in Prefix, y \in Paths : obj'[q][y] = IF q = p /\ y = x THEN v ELSE obj[q][y]
  BY <1>1, SetEffect
<1>3. \A q \in Prefix, b \in Object : ~(q = p /\ b = o) => Value(q, b)' = Value(q, b)
  <2> SUFFICES ASSUME NEW q \in Prefix, NEW b \in Object, ~(q = p /\ b = o) PROVE Value(q, b)' = Value(q, b)
    OBVIOUS
  <2>1. /\ Final(b) \in Paths /\ (b \in Sharded => Flat(b) \in Paths)
        /\ ~(q = p /\ Final(b) = x) /\ ~(q = p /\ Flat(b) = x)
    BY <1>1, RemoteFacts
  <2>2. obj'[q][Final(b)] = obj[q][Final(b)] /\ (b \in Sharded => obj'[q][Flat(b)] = obj[q][Flat(b)])
    BY <1>2, <2>1
  <2> QED BY <2>2 DEF Value, Fallback
<1>4. Value(p, o)' = v
  <2>1. CASE x = Final(o)
    <3>1. obj'[p][Final(o)] = v
      BY <1>2, <2>1
    <3> QED BY <1>1, <3>1 DEF Value
  <2>2. CASE x = Flat(o) /\ o \in Sharded
    <3>1. /\ obj'[p][Flat(o)] = v /\ obj'[p][Final(o)] = obj[p][Final(o)]
          /\ obj[p][Final(o)] \in Bodies[o] \cup {Nil} /\ o \in Blob
      BY <1>1, <1>2, <2>2, RemoteFacts, S3Whole DEF RemoteInv
    <3>2. obj[p][Final(o)] \in {v, Nil}
      BY <1>1, <3>1, RemoteContentAddressed
    <3> QED BY <1>1, <2>2, <3>1, <3>2 DEF Value, Fallback
  <2> QED BY <1>1, <2>1, <2>2
<1>5. Values' = [Values EXCEPT ![p][o] = v]
  BY <1>1, <1>3, <1>4 DEF Values
<1>6. Store!Put(p, o, v)
  BY <1>5 DEF Store!Put
<1> QED BY <1>1, <1>6 DEF Store!Next

\* Keys of one repository go: some of its objects with them, the others stay.
LEMMA GoneDrops ==
  ASSUME RemoteInv, kind = "s3", kind' = kind, NEW p \in Prefix,
         \A q \in Prefix, y \in Paths : obj'[q][y] = obj[q][y] \/ (q = p /\ obj'[q][y] = Nil)
  PROVE  Store!Next
<1>1. \A q \in Prefix \ {p}, b \in Object : Value(q, b)' = Value(q, b)
  BY RemoteFacts DEF Value, Fallback
<1>2. ASSUME NEW b \in Object PROVE Value(p, b)' \in {Nil, Value(p, b)}
  <2>1. Final(b) \in Paths /\ obj'[p][Final(b)] \in {obj[p][Final(b)], Nil} /\ obj[p][Final(b)] \in Bodies[b] \cup {Nil}
    BY RemoteFacts, S3Whole DEF RemoteInv
  <2>2. CASE b \notin Sharded
    BY <2>1, <2>2 DEF Value, Fallback
  <2>3. CASE b \in Sharded
    <3>1. obj'[p][Flat(b)] \in {obj[p][Flat(b)], Nil} /\ obj[p][Flat(b)] \in Bodies[b] \cup {Nil} /\ b \in Blob
      BY <2>3, RemoteFacts, S3Whole DEF RemoteInv
    <3>2. PICK c : Bodies[b] = {c}
      BY <3>1, RemoteContentAddressed
    <3> QED BY <2>1, <2>3, <3>1, <3>2 DEF Value, Fallback
  <2> QED BY <2>2, <2>3
<1> DEFINE S == {b \in Object : Value(p, b)' = Nil}
<1>3. Values' = [Values EXCEPT ![p] = [b \in Object |-> IF b \in S THEN Nil ELSE Values[p][b]]]
  <2>1. ASSUME NEW b \in Object PROVE Value(p, b)' = IF b \in S THEN Nil ELSE Value(p, b)
    BY <1>2
  <2>2. /\ Values = [q \in Prefix |-> [b \in Object |-> Value(q, b)]]
        /\ Values' = [q \in Prefix |-> [b \in Object |-> Value(q, b)']]
    BY DEF Values
  <2> HIDE DEF S
  <2>3. Values[p] = [b \in Object |-> Value(p, b)]
    BY <2>2
  <2>4. [b \in Object |-> Value(p, b)'] = [b \in Object |-> IF b \in S THEN Nil ELSE Values[p][b]]
    BY <2>1, <2>3
  <2>5. \A q \in Prefix \ {p} : [b \in Object |-> Value(q, b)'] = Values[q]
    BY <1>1, <2>2
  <2> QED BY <2>2, <2>4, <2>5
<1>4. Store!Drop(p, S)
  BY <1>3 DEF Store!Drop
<1>5. S \in SUBSET Object
  OBVIOUS
<1> HIDE DEF S
<1> QED BY <1>4, <1>5 DEF Store!Next

LEMMA RemoteStoreStep ==
  ASSUME RemoteInv, [Next]_vars, \A p \in Prefix : Under[p] = {p}
  PROVE  [Store!Next]_Values
<1>1. LocalTyped /\ ServerTyped /\ Watching /\ Placed /\ LateWhole
  BY RemoteParts DEF RemoteInv
<1>2. kind' = kind
  <2>1. ASSUME NEW r \in Op, Working(r) PROVE kind' = kind
    BY <1>1, <2>1, Alone
  <2>2. CASE LateArrives
    BY <2>2 DEF LateArrives
  <2>3. ASSUME NEW r \in Op, Finish(r) PROVE kind' = kind
    BY <2>3 DEF Finish
  <2>4. ASSUME NEW r \in Op, NEW what, NEW p, NEW o, NEW body, Begin(r, what, p, o, body) PROVE kind' = kind
    BY <2>4 DEF Begin
  <2>5. CASE UNCHANGED vars
    BY <2>5 DEF vars
  <2> QED BY <2>1, <2>2, <2>3, <2>4, <2>5 DEF Next, Working
<1>3. CASE kind # "s3"
  BY <1>2, <1>3 DEF Values
<1>4. CASE obj' = obj
  BY <1>2, <1>4 DEF Values, Value, Fallback
<1>5. ASSUME kind = "s3", NEW p \in Prefix, NEW x \in Paths, NEW v \in Bodies[x[1]] \cup {Nil}, Set(p, x, v)
      PROVE  Store!Next
  <2>1. CASE v \in Bodies[x[1]]
    BY <1>2, <1>5, <2>1, SetPuts
  <2>2. CASE v = Nil
    <3>1. \A q \in Prefix, y \in Paths : obj'[q][y] = obj[q][y] \/ (q = p /\ obj'[q][y] = Nil)
      <4>1. \A q \in Prefix, y \in Paths : obj'[q][y] = IF q = p /\ y = x THEN v ELSE obj[q][y]
        BY <1>1, <1>5, SetEffect
      <4> QED BY <2>2, <4>1
    <3> QED BY <1>2, <1>5, <3>1, GoneDrops
  <2> QED BY <1>5, <2>1, <2>2
<1>6. ASSUME kind = "s3", NEW r \in Op, Working(r) PROVE [Store!Next]_Values
  <2>1. PlacedAt(r) /\ Writes(r)
    BY <1>1, <1>6, WorkingPlaced, WorkingWrites
  <2>2. CASE Same
    BY <1>4, <2>2 DEF Same
  <2>3. CASE pc[r] \in {"upload", "uploading"}
    BY <1>6, <2>1, <2>3, WritingObject
  <2>4. CASE pc[r] = "put" /\ Set(rq[r].p, Final(rq[r].o), rq[r].body)
    BY <1>5, <1>6, <2>1, <2>4, WritingObject, RemoteFacts
  <2>5. ASSUME pc[r] \in {"delete", "remove", "removeFlat"}, NEW x \in PathsOf(rq[r].o), Set(rq[r].p, x, Nil)
        PROVE  [Store!Next]_Values
    BY <1>5, <1>6, <2>1, <2>5, WritingObject, PathsFacts
  <2>6. ASSUME NEW S \in SUBSET (Under[rq[r].p] \X Paths), Becomes(Without(S)) PROVE [Store!Next]_Values
    <3>1. PICK p \in Prefix : p = rq[r].p /\ Under[rq[r].p] = {p}
      BY <2>1, RequestFacts
    <3>2. \A q \in Prefix, y \in Paths : obj'[q][y] = obj[q][y] \/ (q = p /\ obj'[q][y] = Nil)
      <4>1. \A q \in Prefix, y \in Paths : obj'[q][y] = IF <<q, y>> \in S THEN Nil ELSE obj[q][y]
        BY <1>1, <2>6, WithoutEffect
      <4>2. \A q, y : <<q, y>> \in S => q = p
        BY <2>6, <3>1
      <4> QED BY <4>1, <4>2
    <3> QED BY <1>2, <1>6, <3>2, GoneDrops
  <2> QED BY <2>1, <2>2, <2>3, <2>4, <2>5, <2>6 DEF Writes
<1>7. ASSUME kind = "s3", LateArrives PROVE [Store!Next]_Values
  <2>1. PICK p \in Prefix, x \in Paths, v \in Held : v \in Bodies[x[1]] \cup {Nil} /\ Set(p, x, v)
    BY <1>1, <1>7, LateEffect
  <2> QED BY <1>5, <1>7, <2>1
<1>8. ASSUME NEW r \in Op, NEW what, NEW p, NEW o, NEW body, Begin(r, what, p, o, body) PROVE obj' = obj
  BY <1>8 DEF Begin
<1>9. ASSUME NEW r \in Op, Finish(r) PROVE obj' = obj
  BY <1>9 DEF Finish
<1>10. CASE UNCHANGED vars
  BY <1>4, <1>10 DEF vars
<1> QED BY <1>3, <1>4, <1>6, <1>7, <1>8, <1>9, <1>10 DEF Next, Working

\* S3 implements the atomic object store, although an operation is several requests
\* and some arrive late, as long as no repository lies inside another one: the
\* deletion of a page takes keys of both away in one step.
THEOREM RemoteImplements ==
  ASSUME \A p \in Prefix : Under[p] = {p}
  PROVE  Spec => ImplementsStore
<1>1. RemoteInv /\ [Next]_vars => [Store!Next]_Values
  BY RemoteStoreStep
<1>2. Spec => Store!Init /\ [][Store!Next]_Values
  BY <1>1, RemoteStoreInit, RemoteInitInv, RemoteInvariant, PTL DEF Spec
<1> QED BY <1>2 DEF ImplementsStore, Store!Spec
=============================================================================
