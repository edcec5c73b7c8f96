---------------------------- MODULE ShareBackend ----------------------------
(***************************************************************************)
(* The NFS and SMB storage backends (internal/storage/nfs, .../smb), which *)
(* are alike: every operation holds one mutex from the check of the        *)
(* connection to its end, so operations come one after another.  What      *)
(* makes them hard is the network.  A call may fail at the server, which   *)
(* changes nothing; or the connection breaks, before or after the server   *)
(* has carried the call out, and all further calls of the operation fail.  *)
(* A request that is carried out is so before the client connects again.   *)
(*                                                                         *)
(* Paths are as in the filesystem backend, but the temporary file of an    *)
(* object has one fixed name.  A base path is configured; the repository   *)
(* without a prefix, Top, is that directory itself.                        *)
(***************************************************************************)
EXTENDS Integers, FiniteSets

CONSTANTS
  Prefix,     \* repository prefixes
  Top,        \* the empty prefix: its directory holds those of the others
  Blob,       \* blobs of all types
  Sharded,    \* those of type data, with a name of two or more characters
  Config,     \* the config object
  Bodies,     \* Bodies[o]: the request bodies that clients send for object o
  Legacy,     \* the blobs that may be stored at their flat path initially
  Nil, Torn   \* nothing; bytes that are not one complete body

Object == Blob \cup {Config}
Content == UNION {Bodies[o] : o \in Object}

ASSUME ShareObjectAssumption ==
  Sharded \subseteq Blob /\ Legacy \subseteq Sharded /\ Config \notin Blob /\ Top \in Prefix
ASSUME ContentAddressed == \A o \in Blob : \E c \in Content : Bodies[o] = {c}
ASSUME ShareNilAssumption == Nil \notin Content \cup Object /\ Torn \notin Content /\ Nil # Torn

VARIABLES
  conn,    \* the backend's target: nil, up, or set but lost
  links,   \* the number of connections that are open
  dirs,    \* the directories that exist on the share
  file,    \* file[p][x]: what the file at path x of prefix p holds
  tmp,     \* tmp[p][o]: the temporary file of object o, or Nil
  pc, rq,  \* the next call of the operation that holds the mutex, its request
  found,   \* the entries that a listing returned for the object
  ans,     \* the result that the operation returned
  before,  \* history: the value of the object when the operation began
  blame,   \* history: the objects whose looks or clean-ups failed
  mistaken \* history: whether the operation took another error for "not found"

share == <<dirs, file, tmp>>
net == <<conn, links>>
vars == <<net, share, pc, rq, found, ans, before, blame, mistaken>>

Final(o) == <<o, "final">>
Flat(o) == <<o, "flat">>
Paths == {Final(o) : o \in Object} \cup {Flat(o) : o \in Sharded}

DirOf(o) == IF o = Config THEN "root" ELSE IF o \in Sharded THEN "shard" ELSE "type"
DirOfPath(x) == IF x[2] = "flat" THEN "data" ELSE DirOf(x[1])
Parents(p, d) ==
  CASE d = "root" -> IF p = Top THEN {} ELSE {<<Top, "root">>}
    [] d \in {"data", "type"} -> {<<p, "root">>, <<Top, "root">>}
    [] d = "shard" -> {<<p, "data">>, <<p, "root">>, <<Top, "root">>}
Chain(p, d) == {<<p, d>>} \cup Parents(p, d)
Within(p) == IF p = Top THEN Prefix ELSE {p}

Exists(p, x) == file[p][x] # Nil
NotFoundFlat(p, o) == o \notin Sharded \/ ~Exists(p, Flat(o))
Value(p, o) ==
  IF Exists(p, Final(o)) \/ NotFoundFlat(p, o) THEN file[p][Final(o)] ELSE file[p][Flat(o)]

NoRequest == [kind |-> "none", p |-> Nil, o |-> Nil, body |-> Nil]
NoAnswer == [err |-> "none", value |-> Nil]

\* New has connected, or the process does not start.
Init ==
  /\ conn = "up" /\ links = 1
  /\ \E L \in [Prefix -> SUBSET Legacy] :
       /\ file = [p \in Prefix |-> [x \in Paths |->
            IF x[2] = "flat" /\ x[1] \in L[p] THEN CHOOSE c \in Bodies[x[1]] : TRUE ELSE Nil]]
       /\ dirs = UNION {Chain(p, "data") : p \in {q \in Prefix : L[q] # {}}}
  /\ tmp = [p \in Prefix |-> [o \in Object |-> Nil]]
  /\ pc = "idle" /\ rq = NoRequest /\ found = {} /\ ans = NoAnswer
  /\ before = Nil /\ blame = {} /\ mistaken = FALSE

-----------------------------------------------------------------------------
\* What becomes of a call, as the library reports it.  Answered: the server has
\* carried it out or says that the file does not exist.  Failed: any other error,
\* nothing was changed.  ReplyLost: it was carried out, and the client sees an error.
Answered == conn = "up" /\ UNCHANGED net
Failed == conn' \in {conn, "lost"} /\ UNCHANGED links
ReplyLost == conn = "up" /\ conn' = "lost" /\ UNCHANGED links

Goto(step) == pc' = step /\ UNCHANGED <<rq, ans>>
Return(err, value) ==
  /\ pc' = "done"
  /\ ans' = [err |-> err, value |-> value]
  /\ UNCHANGED rq

\* isNotFound goes by the text of an error, which names the path and may speak of
\* a stale handle: it may take any error for "not found".
Missing(x) ==
  \/ Answered /\ ~Exists(rq.p, x) /\ UNCHANGED mistaken
  \/ Failed /\ mistaken' = TRUE

Kept == UNCHANGED <<found, before, blame>>
Quiet == Kept /\ UNCHANGED mistaken

\* A save reads the whole body before it takes the mutex.
Begin(kind, p, o, body) ==
  /\ pc = "idle"
  /\ pc' = IF body = Nil THEN "ensure" ELSE "body"
  /\ rq' = [kind |-> kind, p |-> p, o |-> o, body |-> body]
  /\ before' = IF o = Nil THEN Nil ELSE Value(p, o)
  /\ UNCHANGED <<net, share, found, ans, blame, mistaken>>

ReadBody ==
  /\ pc = "body"
  /\ Goto("ensure") \/ Return("error", Nil)
  /\ UNCHANGED <<net, share>> /\ Quiet

FirstCall ==
  CASE rq.kind = "CreateRepo" -> "mkdirRepo"
    [] rq.kind = "DeleteRepo" -> "statRepo"
    [] rq.kind = "SaveConfig" -> "mkdir"
    [] rq.kind = "SaveBlob" -> "look"
    [] rq.kind = "DeleteBlob" -> "remove"
    [] rq.kind = "Read" -> "read"
    [] rq.kind = "ListBlobs" -> "list"

-----------------------------------------------------------------------------
\* ensureConnected: the base directory answers.  Any error counts as a lost
\* connection, also that the directory does not exist yet.
Healthy ==
  /\ pc = "ensure" /\ Answered /\ <<Top, "root">> \in dirs
  /\ Goto(FirstCall)
  /\ UNCHANGED share /\ Quiet

\* Mutant of Disconnect: the old connection is forgotten, not closed.
DisconnectLeaking ==
  /\ pc = "ensure"
  /\ conn' = "nil" /\ UNCHANGED links /\ Goto("dial")
  /\ UNCHANGED share /\ Quiet

\* Otherwise what is left of the old connection is closed and the target forgotten.
Disconnect ==
  /\ pc = "ensure"
  /\ conn' = "nil" /\ links' = links - (IF conn = "nil" THEN 0 ELSE 1)
  /\ Goto("dial")
  /\ UNCHANGED share /\ Quiet

\* connect: a new connection, then the share is mounted over it; when that fails
\* the connection is closed again and the operation ends without one.
Dial ==
  /\ pc = "dial"
  /\ \/ links' = links + 1 /\ Goto("mount")
     \/ Return("error", Nil) /\ UNCHANGED links
  /\ UNCHANGED <<conn, share>> /\ Quiet

Mount ==
  /\ pc = "mount"
  /\ \/ conn' = "up" /\ UNCHANGED links /\ Goto(FirstCall)
     \/ links' = links - 1 /\ UNCHANGED conn /\ Return("error", Nil)
  /\ UNCHANGED share /\ Quiet

-----------------------------------------------------------------------------
\* mkdirAll, from the top: when it fails, some of the directories are there.
MkdirAll(S, step) ==
  \/ Answered /\ dirs' = dirs \cup S /\ step
  \/ /\ Failed
     /\ \E T \in SUBSET S :
          /\ \A e \in T : Parents(e[1], e[2]) \subseteq T \cup dirs
          /\ dirs' = dirs \cup (IF conn = "up" THEN T ELSE {})
     /\ Return("error", Nil)

MkdirRepo ==
  /\ pc = "mkdirRepo"
  /\ MkdirAll(Chain(rq.p, "type") \cup Chain(rq.p, "shard"), Return("ok", Nil))
  /\ UNCHANGED <<file, tmp>> /\ Quiet

Mkdir ==
  /\ pc = "mkdir"
  /\ MkdirAll(Chain(rq.p, DirOf(rq.o)), Goto("create"))
  /\ UNCHANGED <<file, tmp>> /\ Quiet

-----------------------------------------------------------------------------
\* SaveBlob looks at both paths.  Whatever error a look ends in, the blob counts
\* as absent.
Unseen ==
  /\ Failed
  /\ blame' = IF conn' = "up" THEN blame \cup {<<"look", rq.p, rq.o>>} ELSE blame

Look ==
  LET next == IF rq.o \in Sharded THEN "lookFlat" ELSE "mkdir"
  IN /\ pc = "look"
     /\ \/ Answered /\ Exists(rq.p, Final(rq.o)) /\ Return("ok", Nil) /\ UNCHANGED blame
        \/ Answered /\ ~Exists(rq.p, Final(rq.o)) /\ Goto(next) /\ UNCHANGED blame
        \/ Unseen /\ Goto(next)
     /\ UNCHANGED <<share, found, before, mistaken>>

LookFlat ==
  /\ pc = "lookFlat"
  /\ \/ Answered /\ Exists(rq.p, Flat(rq.o)) /\ Return("ok", Nil) /\ UNCHANGED blame
     \/ Answered /\ ~Exists(rq.p, Flat(rq.o)) /\ Goto("mkdir") /\ UNCHANGED blame
     \/ Unseen /\ Goto("mkdir")
  /\ UNCHANGED <<share, found, before, mistaken>>

-----------------------------------------------------------------------------
\* The temporary file: whose bytes are in it and the body it holds, if it is whole.
Empty == [of |-> {}, is |-> Torn]
SetTmp(t) == tmp' = [tmp EXCEPT ![rq.p][rq.o] = t]
Littered == blame' = blame \cup {<<"clean", rq.p, rq.o>>}

\* Whether Create empties a file that was left behind is up to the library.
Create(t) == IF t = Nil THEN {Empty} ELSE {Empty, t}

\* Mutant of CreateTemp: the final path is opened for writing.
CreateInPlace ==
  /\ pc = "create" /\ UNCHANGED <<dirs, found, before, mistaken>>
  /\ \/ /\ Answered /\ <<rq.p, DirOf(rq.o)>> \in dirs
        /\ file' = [file EXCEPT ![rq.p][Final(rq.o)] = Torn]
        /\ SetTmp(Empty) /\ Goto("write") /\ UNCHANGED blame
     \/ Failed /\ Return("error", Nil) /\ UNCHANGED <<file, tmp, blame>>

CreateTemp ==
  /\ pc = "create" /\ UNCHANGED <<dirs, file, found, before, mistaken>>
  /\ \/ /\ Answered /\ <<rq.p, DirOf(rq.o)>> \in dirs
        /\ \E t \in Create(tmp[rq.p][rq.o]) : SetTmp(t)
        /\ Goto("write") /\ UNCHANGED blame
     \/ /\ ReplyLost /\ <<rq.p, DirOf(rq.o)>> \in dirs
        /\ \E t \in Create(tmp[rq.p][rq.o]) : SetTmp(t)
        /\ Littered /\ Return("error", Nil)
     \/ Failed /\ Return("error", Nil) /\ UNCHANGED <<tmp, blame>>

\* The file after all of the body was written over it, or a part: bytes of a
\* longer body may stay at its end.
Written(t, b) ==
  {[of |-> {b}, is |-> b]} \cup
  (IF t.of \subseteq {b} THEN {} ELSE {[of |-> t.of \cup {b}, is |-> Torn]})
Partly(t, b) == {t, [of |-> t.of \cup {b}, is |-> Torn]}

\* Mutant of WriteTemp: an error of Write or Close is not noticed.
WriteTempBlind ==
  /\ pc = "write" /\ UNCHANGED <<dirs, file>> /\ Quiet
  /\ \/ Answered /\ \E t \in Written(tmp[rq.p][rq.o], rq.body) : SetTmp(t)
     \/ Failed /\ conn = "up" /\ \E t \in Partly(tmp[rq.p][rq.o], rq.body) : SetTmp(t)
     \/ Failed /\ conn = "lost" /\ UNCHANGED tmp
  /\ Goto("rename")

\* OpenFile (on NFS), Write and Close.
WriteTemp ==
  /\ pc = "write" /\ UNCHANGED <<dirs, file>> /\ Quiet
  /\ \/ /\ Answered
        /\ \E t \in Written(tmp[rq.p][rq.o], rq.body) : SetTmp(t)
        /\ Goto("rename")
     \/ /\ Failed
        /\ \/ UNCHANGED tmp
           \/ /\ conn = "up"
              /\ \E t \in Partly(tmp[rq.p][rq.o], rq.body)
                            \cup Written(tmp[rq.p][rq.o], rq.body) : SetTmp(t)
        /\ Goto("clean")

Publish == file' = [file EXCEPT ![rq.p][Final(rq.o)] = tmp[rq.p][rq.o].is] /\ SetTmp(Nil)

\* Mutant of RenameTemp: a rename that fails is not cleaned up after.
RenameTempLeaving ==
  /\ pc = "rename" /\ UNCHANGED dirs /\ Quiet
  /\ \/ Answered /\ Publish /\ Return("ok", Nil)
     \/ ReplyLost /\ Publish /\ Return("error", Nil)
     \/ Failed /\ UNCHANGED <<file, tmp>> /\ Return("error", Nil)

RenameTemp ==
  /\ pc = "rename" /\ UNCHANGED dirs /\ Quiet
  /\ \/ Answered /\ Publish /\ Return("ok", Nil)
     \/ ReplyLost /\ Publish /\ Goto("clean")
     \/ Failed /\ UNCHANGED <<file, tmp>> /\ Goto("clean")

\* The Remove of every failing path, whose own result is ignored.
Clean ==
  /\ pc = "clean" /\ UNCHANGED <<dirs, file, found, before, mistaken>>
  /\ \/ (Answered \/ ReplyLost) /\ SetTmp(Nil) /\ UNCHANGED blame
     \/ Failed /\ Littered /\ UNCHANGED tmp
  /\ Return("error", Nil)

-----------------------------------------------------------------------------
Unlink(p, x) == file' = [file EXCEPT ![p][x] = Nil]

\* Mutant of Remove: after an error the flat path is tried as if it were missing.
RemoveAnyway ==
  /\ pc = "remove" /\ UNCHANGED <<dirs, tmp>> /\ Quiet
  /\ \/ Answered /\ Exists(rq.p, Final(rq.o)) /\ Unlink(rq.p, Final(rq.o)) /\ Return("ok", Nil)
     \/ /\ (Answered /\ ~Exists(rq.p, Final(rq.o))) \/ Failed
        /\ IF rq.o \in Sharded THEN Goto("removeFlat") ELSE Return("ErrNotFound", Nil)
        /\ UNCHANGED file

\* A removal: it may have been carried out although the error says "not found".
Removal(x, missing) ==
  /\ UNCHANGED <<dirs, tmp>> /\ Kept
  /\ \/ Answered /\ Exists(rq.p, x) /\ Unlink(rq.p, x) /\ Return("ok", Nil) /\ UNCHANGED mistaken
     \/ Missing(x) /\ missing /\ UNCHANGED file
     \/ ReplyLost /\ Unlink(rq.p, x) /\ mistaken' = TRUE /\ missing
     \/ ReplyLost /\ Unlink(rq.p, x) /\ UNCHANGED mistaken /\ Return("error", Nil)
     \/ Failed /\ UNCHANGED <<file, mistaken>> /\ Return("error", Nil)

Remove ==
  /\ pc = "remove"
  /\ Removal(Final(rq.o),
             IF rq.o \in Sharded THEN Goto("removeFlat") ELSE Return("ErrNotFound", Nil))

RemoveFlat == pc = "removeFlat" /\ Removal(Flat(rq.o), Return("ErrNotFound", Nil))

\* StatConfig, GetConfig, StatBlob and GetBlob: all bytes are read before the
\* mutex is released.
ReadFile(x, missing) ==
  /\ UNCHANGED share /\ Kept
  /\ \/ Answered /\ Exists(rq.p, x) /\ Return("ok", file[rq.p][x]) /\ UNCHANGED mistaken
     \/ Missing(x) /\ missing
     \/ Failed /\ UNCHANGED mistaken /\ Return("error", Nil)

Read ==
  /\ pc = "read"
  /\ ReadFile(Final(rq.o),
              IF rq.o \in Sharded THEN Goto("readFlat") ELSE Return("ErrNotFound", Nil))

ReadFlat == pc = "readFlat" /\ ReadFile(Flat(rq.o), Return("ErrNotFound", Nil))

\* ListBlobs, seen at the blob rq.o: the entries of the directory of path x that are
\* the blob itself or its temporary file.
Entries(p, x) ==
  (IF Exists(p, x) THEN {x} ELSE {})
    \cup (IF x[2] = "final" /\ tmp[p][x[1]] # Nil THEN {<<x[1], "temp">>} ELSE {})

\* listDir: the entries are added to those of the directories before it.  One that
\* is not found adds none, any other error ends the listing.
ListDir(old, x, next) ==
  /\ UNCHANGED <<share, before, blame>>
  /\ \/ Answered /\ found' = old \cup Entries(rq.p, x) /\ UNCHANGED mistaken /\ next
     \/ Failed /\ mistaken' = TRUE /\ found' = old /\ next
     \/ Failed /\ UNCHANGED <<found, mistaken>> /\ Return("error", Nil)

\* For data blobs the flat directory comes before the shards.
List ==
  /\ pc = "list"
  /\ IF rq.o \in Sharded THEN ListDir({}, Flat(rq.o), Goto("listShard"))
     ELSE ListDir({}, Final(rq.o), Return("ok", Nil))

ListShard == pc = "listShard" /\ ListDir(found, Final(rq.o), Return("ok", Nil))

-----------------------------------------------------------------------------
StatRepo ==
  /\ pc = "statRepo" /\ UNCHANGED share /\ Kept
  /\ \/ /\ Answered /\ UNCHANGED mistaken
        /\ IF <<rq.p, "root">> \in dirs THEN Goto("removeAll") ELSE Return("ErrRepoNotFound", Nil)
     \/ Failed /\ mistaken' = TRUE /\ Return("ErrRepoNotFound", Nil)
     \/ Failed /\ UNCHANGED mistaken /\ Return("error", Nil)

\* RemoveAll of the library: one entry after another, a directory when it is empty.
IsEmpty(q, d) ==
  /\ \A x \in Paths : Exists(q, x) => DirOfPath(x) # d
  /\ \A o \in Object : tmp[q][o] # Nil => DirOf(o) # d
  /\ \A e \in dirs : <<q, d>> \notin Parents(e[1], e[2]) \ {e}

RemoveEntry ==
  /\ pc = "removeAll" /\ Quiet
  /\ \E q \in Within(rq.p) :
       \/ \E x \in Paths : Exists(q, x) /\ Unlink(q, x) /\ UNCHANGED <<dirs, tmp>>
       \/ \E o \in Object : /\ tmp[q][o] # Nil
                            /\ tmp' = [tmp EXCEPT ![q][o] = Nil]
                            /\ UNCHANGED <<dirs, file>>
       \/ \E d \in {"root", "data", "type", "shard"} :
            /\ <<q, d>> \in dirs /\ IsEmpty(q, d)
            /\ dirs' = dirs \ {<<q, d>>} /\ UNCHANGED <<file, tmp>>
  /\ \/ Answered /\ UNCHANGED <<pc, rq, ans>>
     \/ ReplyLost /\ Return("error", Nil)

RemoveEnds ==
  /\ pc = "removeAll" /\ UNCHANGED share /\ Quiet
  /\ \/ Answered /\ <<rq.p, "root">> \notin dirs /\ Return("ok", Nil)
     \/ Failed /\ Return("error", Nil)

Finish ==
  /\ pc = "done"
  /\ pc' = "idle" /\ rq' = NoRequest /\ ans' = NoAnswer /\ found' = {} /\ before' = Nil
  /\ mistaken' = FALSE
  /\ UNCHANGED <<net, share, blame>>

\* The connection breaks between operations.
Break ==
  /\ pc = "idle" /\ conn = "up" /\ conn' = "lost"
  /\ UNCHANGED <<links, share, pc, rq, found, ans, before, blame, mistaken>>

\* The process dies in the middle of an operation and is started again.
Crash ==
  /\ pc \notin {"idle", "done"}
  /\ conn' = "up" /\ links' = 1
  /\ IF pc \in {"write", "rename", "clean"} THEN Littered ELSE UNCHANGED blame
  /\ pc' = "idle" /\ rq' = NoRequest /\ ans' = NoAnswer /\ found' = {} /\ before' = Nil
  /\ mistaken' = FALSE
  /\ UNCHANGED share

-----------------------------------------------------------------------------
Kinds == {"CreateRepo", "DeleteRepo", "SaveConfig", "SaveBlob", "DeleteBlob", "Read", "ListBlobs"}
Targets(kind) ==
  CASE kind \in {"CreateRepo", "DeleteRepo"} -> {Nil}
    [] kind = "SaveConfig" -> {Config}
    [] kind = "Read" -> Object
    [] kind \in {"SaveBlob", "DeleteBlob", "ListBlobs"} -> Blob
Payloads(kind, o) == IF kind \in {"SaveConfig", "SaveBlob"} THEN Bodies[o] ELSE {Nil}

Next ==
  \/ \E kind \in Kinds, p \in Prefix : \E o \in Targets(kind) :
       \E body \in Payloads(kind, o) : Begin(kind, p, o, body)
  \/ ReadBody \/ Healthy \/ Disconnect \/ Dial \/ Mount
  \/ MkdirRepo \/ Mkdir
  \/ Look \/ LookFlat \/ CreateTemp \/ WriteTemp \/ RenameTemp \/ Clean
  \/ Remove \/ RemoveFlat \/ Read \/ ReadFlat \/ List \/ ListShard
  \/ StatRepo \/ RemoveEntry \/ RemoveEnds
  \/ Finish \/ Break \/ Crash

Spec == Init /\ [][Next]_vars

-----------------------------------------------------------------------------
Steps == {"idle", "body", "ensure", "dial", "mount", "mkdirRepo", "statRepo", "removeAll",
          "look", "lookFlat", "mkdir", "create", "write", "rename", "clean", "remove",
          "removeFlat", "read", "readFlat", "list", "listShard", "done"}
Routed == /\ rq.kind \in Kinds /\ rq.p \in Prefix
          /\ rq.o \in Targets(rq.kind) /\ rq.body \in Payloads(rq.kind, rq.o)
Temp == [of : SUBSET Content, is : Content \cup {Torn}]

\* Every variable has its type.
TypeOK ==
  /\ conn \in {"nil", "up", "lost"} /\ links \in Nat
  /\ dirs \subseteq Prefix \X {"root", "data", "type", "shard"}
  /\ file \in [Prefix -> [Paths -> Content \cup {Nil, Torn}]]
  /\ tmp \in [Prefix -> [Object -> Temp \cup {Nil}]]
  /\ pc \in Steps
  /\ rq = NoRequest \/ Routed
  /\ ans.err \in {"none", "ok", "error", "ErrNotFound", "ErrRepoNotFound"}
  /\ mistaken \in BOOLEAN

\* The backend holds one connection or none, however often it breaks and at whatever
\* stage connecting fails; no call is made without a target (withTarget would pass a
\* nil pointer on); and a connection that broke earlier was replaced before the first
\* call, as the automatic reconnection promises.
OneConnection ==
  /\ links = IF conn = "nil" /\ pc # "mount" THEN 0 ELSE 1
  /\ pc \in {"mkdirRepo", "statRepo", "look", "remove", "read", "list"} => conn = "up"
  /\ pc \notin {"idle", "body", "ensure", "dial", "mount", "done"} => conn # "nil"

\* A blob that can be read holds its complete body, wherever the connection broke
\* in earlier saves of it, and although these shared one temporary file.  For a
\* config, whose body clients choose, the same holds as long as no temporary file
\* has been left behind for it.
WholeObjects ==
  /\ \A p \in Prefix, x \in Paths : x[1] # Config => file[p][x] \in Bodies[x[1]] \cup {Nil}
  /\ \A p \in Prefix : file[p][Final(Config)] \in Bodies[Config] \cup {Nil}
                         \/ <<"clean", p, Config>> \in blame

\* What operations leave behind, an error excuses.  A temporary file stays only if its
\* own clean-up, or the answer to Create, was lost to an error or a crash.  A data
\* blob comes to lie at both of its paths only if a look of SaveBlob ended in an
\* error other than "not found" on a working connection: a broken one fails the
\* calls that would write the second copy as well.
LeftoversBlamed ==
  /\ \A p \in Prefix, o \in Object :
       tmp[p][o] # Nil => \/ <<"clean", p, o>> \in blame
                          \/ pc \in {"write", "rename", "clean"} /\ rq.p = p /\ rq.o = o
  /\ \A p \in Prefix, o \in Sharded :
       Exists(p, Final(o)) /\ Exists(p, Flat(o)) => <<"look", p, o>> \in blame

\* What a client is told is true: "not found" is the answer to a broken connection, and
\* a blob is missing from a listing, only when isNotFound was mistaken about an error,
\* and even then no wrong value is read and nothing listed that is not there; success
\* is never the answer to a change that did not happen; and whatever the answer, the
\* object is as it was or as the request wanted it.
AnswersTrue ==
  LET now == Value(rq.p, rq.o)
      ok == ans.err = "ok"
      listed == \E x \in found : x[2] # "temp"
      whole == <<"clean", rq.p, rq.o>> \notin blame
      single == <<"look", rq.p, rq.o>> \notin blame
  IN pc = "done" =>
       /\ ans.err = "ErrNotFound" => before = Nil \/ mistaken
       /\ ans.err = "ErrRepoNotFound" => <<rq.p, "root">> \notin dirs \/ mistaken
       /\ rq.kind = "Read" /\ ok => ans.value = before /\ before # Nil
       /\ rq.kind = "SaveBlob" \/ (rq.kind = "SaveConfig" /\ whole) =>
            now = rq.body \/ (~ok /\ now = before)
       /\ rq.kind = "DeleteBlob" => IF ok THEN before # Nil /\ (single => now = Nil)
                                   ELSE now \in {before, Nil}
       /\ rq.kind = "ListBlobs" /\ ok =>
            (listed => before # Nil) /\ (before # Nil => listed \/ mistaken)
       /\ rq.kind = "DeleteRepo" /\ ok => \A q \in Within(rq.p), x \in Paths : ~Exists(q, x)

\* For the blobs the share is an atomic object store, whatever the network does:
\* each call that the server carries out changes one blob from nothing to its body
\* or takes blobs away.
Blobs == [p \in Prefix |-> [o \in Blob |-> Value(p, o)]]
Store == INSTANCE ObjectStore WITH stored <- Blobs, Object <- Blob
ImplementsStore == Store!Spec
=============================================================================
