------------------------- MODULE FilesystemBackend -------------------------
(***************************************************************************)
(* The filesystem storage backend (internal/storage/filesystem).  It holds *)
(* no lock: every operation is a sequence of system calls, each one step   *)
(* here, that interleaves with those of the other requests, and a crash    *)
(* may come between any two of them.                                       *)
(*                                                                         *)
(* A repository is a directory with the config in its root, one directory  *)
(* for each type ("type") and a shard below "data" ("shard").  A data blob *)
(* written before sharding lies in "data" itself: its flat path.  Paths    *)
(* are inside the base directory and there are no symbolic links, so       *)
(* validatePath comes down to the existence of the parent directory.       *)
(***************************************************************************)
EXTENDS Integers, FiniteSets

CONSTANTS
  Prefix,      \* repository prefixes
  Under,       \* Under[p]: the prefixes whose directory is p's or below it
  Blob,        \* blobs of all types
  Sharded,     \* those of type data, with a name of two or more characters
  Config,      \* the config object
  Bodies,      \* Bodies[o]: the request bodies that clients send for object o
  Legacy,      \* the blobs that may be stored at their flat path initially
  Op,          \* slots for operations in flight
  PowerFails,  \* whether power failures are considered
  LooksFail,   \* whether Lstat may fail for a file that is there
  Nil, Torn    \* no file; a file that does not hold a complete body

Object == Blob \cup {Config}
Content == UNION {Bodies[o] : o \in Object}

ASSUME UnderAssumption ==
  /\ Under \in [Prefix -> SUBSET Prefix]
  /\ \A p \in Prefix : p \in Under[p] /\ \A q \in Under[p] : Under[q] \subseteq Under[p]
ASSUME ObjectAssumption == Sharded \subseteq Blob /\ Legacy \subseteq Sharded /\ Config \notin Blob
ASSUME LegacyAssumption == \A o \in Legacy : Bodies[o] # {}
ASSUME NilAssumption == Nil \notin Content \cup Object /\ Torn \notin Content /\ Nil # Torn
ASSUME PowerAssumption == PowerFails \in BOOLEAN
ASSUME LooksAssumption == LooksFail \in BOOLEAN

VARIABLES
  dirs,     \* the directories that exist
  file,     \* file[p][x]: what the file at path x of prefix p holds
  disk,     \* the directory entries that would survive a power failure
  soft,     \* the paths whose bytes are not yet on the disk
  debris,   \* directories in which a crash has left a temporary file
  tmp,      \* tmp[s]: the temporary file of the save in slot s
  synced,   \* synced[s]: whether it was synced
  pc, rq,   \* pc[s], rq[s]: the next system call of slot s and its request
  found,    \* found[s]: what a listing has met so far
  ans,      \* ans[s]: the result that the operation returned
  hist      \* hist[s]: history, the values the target had during the call

fs == <<dirs, file, disk, soft, debris>>
temps == <<tmp, synced>>
vars == <<fs, temps, pc, rq, found, ans, hist>>

Final(o) == <<o, "final">>
Flat(o) == <<o, "flat">>
Paths == {Final(o) : o \in Object} \cup {Flat(o) : o \in Sharded}

DirOf(o) == IF o = Config THEN "root" ELSE IF o \in Sharded THEN "shard" ELSE "type"
DirOfPath(x) == IF x[2] = "flat" THEN "data" ELSE DirOf(x[1])
Above(d) ==
  CASE d = "root" -> {} [] d \in {"data", "type"} -> {"root"} [] d = "shard" -> {"root", "data"}

\* The directories that MkdirAll makes: d of p and all its ancestors.
Chain(p, d) ==
  {<<p, e>> : e \in {d} \cup Above(d)} \cup {<<q, "root">> : q \in {q \in Prefix : p \in Under[q]}}

Exists(p, x) == file[p][x] # Nil
NotFoundFlat(p, o) == o \notin Sharded \/ ~Exists(p, Flat(o))

\* What is stored for an object: the sharded path first, then the flat one.
Value(p, o) ==
  IF Exists(p, Final(o)) \/ NotFoundFlat(p, o) THEN file[p][Final(o)] ELSE file[p][Flat(o)]

NoRequest == [kind |-> "none", p |-> Nil, o |-> Nil, body |-> Nil]
NoAnswer == [err |-> "none", value |-> Nil]

Init ==
  /\ \E L \in [Prefix -> SUBSET Legacy] :
       /\ file = [p \in Prefix |-> [x \in Paths |->
            IF x[2] = "flat" /\ x[1] \in L[p] THEN CHOOSE c \in Bodies[x[1]] : TRUE ELSE Nil]]
       /\ \E d \in {"data", "shard"} :
            dirs = UNION {Chain(p, d) : p \in {q \in Prefix : L[q] # {}}}
  /\ disk = file /\ soft = {} /\ debris = {}
  /\ tmp = [s \in Op |-> Nil] /\ synced = [s \in Op |-> FALSE]
  /\ pc = [s \in Op |-> "idle"] /\ rq = [s \in Op |-> NoRequest]
  /\ found = [s \in Op |-> {}] /\ ans = [s \in Op |-> NoAnswer] /\ hist = [s \in Op |-> {}]

-----------------------------------------------------------------------------
Goto(s, step) == pc' = [pc EXCEPT ![s] = step] /\ UNCHANGED <<rq, ans>>

Return(s, err, value) ==
  /\ pc' = [pc EXCEPT ![s] = "done"]
  /\ ans' = [ans EXCEPT ![s] = [err |-> err, value |-> value]]
  /\ UNCHANGED rq

\* Every call but CreateRepo starts with validatePath.
Begin(s, kind, p, o, body) ==
  /\ pc[s] = "idle"
  /\ pc' = [pc EXCEPT ![s] = IF kind = "CreateRepo" THEN "mkdirRepo" ELSE "validate"]
  /\ rq' = [rq EXCEPT ![s] = [kind |-> kind, p |-> p, o |-> o, body |-> body]]
  /\ UNCHANGED <<fs, temps, found, ans>>

\* The directory whose existence validatePath depends on.
ValidDirs(q) ==
  CASE q.kind = "DeleteRepo" -> Chain(q.p, "root") \ {<<q.p, "root">>}
    [] q.kind = "ListBlobs" -> {<<q.p, "root">>}
    [] OTHER -> {<<q.p, DirOf(q.o)>>}

Validate(s) ==
  /\ pc[s] = "validate"
  /\ \/ ~(ValidDirs(rq[s]) \subseteq dirs) /\ Return(s, "error", Nil)
     \/ /\ ValidDirs(rq[s]) \subseteq dirs
        /\ Goto(s, CASE rq[s].kind = "SaveBlob" -> "lstat"
                     [] rq[s].kind = "SaveConfig" -> "mkdir"
                     [] rq[s].kind = "DeleteBlob" -> "remove"
                     [] rq[s].kind = "Read" -> "open"
                     [] rq[s].kind = "ListBlobs" -> "walkNames"
                     [] rq[s].kind = "DeleteRepo" -> "statRepo")
  /\ UNCHANGED <<fs, temps, found>>

-----------------------------------------------------------------------------
\* Mutant of Lstat: the flat path is not looked at.
LstatSharded(s) ==
  /\ pc[s] = "lstat"
  /\ IF Exists(rq[s].p, Final(rq[s].o)) THEN Return(s, "ok", Nil) ELSE Goto(s, "mkdir")
  /\ UNCHANGED <<fs, temps, found>>

\* SaveBlob: a blob that exists, at either path, is not written again; the body
\* is drained and the call succeeds.  Whatever error Lstat ends in, the blob counts
\* as absent.
Seeing(s, x) == Exists(rq[s].p, x) /\ Return(s, "ok", Nil)
Unseen(s, x) == LooksFail \/ ~Exists(rq[s].p, x)

Lstat(s) ==
  /\ pc[s] = "lstat"
  /\ \/ Seeing(s, Final(rq[s].o))
     \/ /\ Unseen(s, Final(rq[s].o))
        /\ Goto(s, IF rq[s].o \in Sharded THEN "lstatFlat" ELSE "mkdir")
  /\ UNCHANGED <<fs, temps, found>>

LstatFlat(s) ==
  /\ pc[s] = "lstatFlat"
  /\ Seeing(s, Flat(rq[s].o)) \/ (Unseen(s, Flat(rq[s].o)) /\ Goto(s, "mkdir"))
  /\ UNCHANGED <<fs, temps, found>>

Mkdir(s) ==
  /\ pc[s] = "mkdir"
  /\ dirs' = dirs \cup Chain(rq[s].p, DirOf(rq[s].o))
  /\ Goto(s, "createTemp")
  /\ UNCHANGED <<file, disk, soft, debris, temps, found>>

\* atomicWrite: a temporary file beside the final path, filled, synced, renamed.
CreateTemp(s) ==
  /\ pc[s] = "createTemp"
  /\ \/ /\ <<rq[s].p, DirOf(rq[s].o)>> \in dirs
        /\ tmp' = [tmp EXCEPT ![s] = Torn]
        /\ Goto(s, "copy")
     \/ /\ <<rq[s].p, DirOf(rq[s].o)>> \notin dirs
        /\ Return(s, "error", Nil)
        /\ UNCHANGED tmp
  /\ UNCHANGED <<fs, synced, found>>

\* Mutant of Copy: an upload that breaks off is not noticed.
CopyShort(s) ==
  /\ pc[s] = "copy"
  /\ Goto(s, "sync")
  /\ UNCHANGED <<fs, temps, found>>

\* Copying goes on when DeleteRepo has unlinked the file meanwhile.
Copy(s) ==
  /\ pc[s] = "copy"
  /\ tmp' = [tmp EXCEPT ![s] = IF @ = Nil THEN Nil ELSE rq[s].body]
  /\ Goto(s, "sync")
  /\ UNCHANGED <<fs, synced, found>>

\* Mutant of Sync: the file is renamed without it.
SyncSkipped(s) ==
  /\ pc[s] = "sync"
  /\ Goto(s, "rename")
  /\ UNCHANGED <<fs, temps, found>>

Sync(s) ==
  /\ pc[s] = "sync"
  /\ synced' = [synced EXCEPT ![s] = TRUE]
  /\ Goto(s, "rename")
  /\ UNCHANGED <<fs, tmp, found>>

DropTemp(s) ==
  /\ tmp' = [tmp EXCEPT ![s] = Nil]
  /\ synced' = [synced EXCEPT ![s] = FALSE]

\* Mutant of WriteFails: the temporary file is left behind.
WriteFailsLeaving(s) ==
  /\ pc[s] \in {"copy", "sync", "rename"}
  /\ Return(s, "error", Nil)
  /\ UNCHANGED <<fs, temps, found>>

\* The upload breaks off, the disk is full, or a call fails: the temporary file
\* is removed and the error returned.
WriteFails(s) ==
  /\ pc[s] \in {"copy", "sync", "rename"}
  /\ DropTemp(s)
  /\ Return(s, "error", Nil)
  /\ UNCHANGED <<fs, found>>

\* Renaming fails when DeleteRepo has removed the temporary file.
Rename(s) ==
  LET p == rq[s].p
      x == Final(rq[s].o)
  IN /\ pc[s] = "rename"
     /\ \/ /\ tmp[s] # Nil
           /\ file' = [file EXCEPT ![p][x] = tmp[s]]
           /\ soft' = IF synced[s] THEN soft \ {<<p, x>>} ELSE soft \cup {<<p, x>>}
           /\ Return(s, "ok", Nil)
        \/ /\ tmp[s] = Nil
           /\ Return(s, "error", Nil)
           /\ UNCHANGED <<file, soft>>
     /\ DropTemp(s)
     /\ UNCHANGED <<dirs, disk, debris, found>>

-----------------------------------------------------------------------------
\* DeleteBlob: the sharded path, then the flat one.
Unlink(p, x) ==
  /\ file' = [file EXCEPT ![p][x] = Nil]
  /\ soft' = soft \ {<<p, x>>}
  /\ UNCHANGED <<dirs, disk, debris>>

Remove(s) ==
  LET p == rq[s].p
      x == Final(rq[s].o)
  IN /\ pc[s] = "remove"
     /\ \/ Exists(p, x) /\ Unlink(p, x) /\ Return(s, "ok", Nil)
        \/ /\ ~Exists(p, x)
           /\ IF rq[s].o \in Sharded THEN Goto(s, "removeFlat") ELSE Return(s, "ErrNotFound", Nil)
           /\ UNCHANGED fs
     /\ UNCHANGED <<temps, found>>

RemoveFlat(s) ==
  LET p == rq[s].p
      x == Flat(rq[s].o)
  IN /\ pc[s] = "removeFlat"
     /\ \/ Exists(p, x) /\ Unlink(p, x) /\ Return(s, "ok", Nil)
        \/ ~Exists(p, x) /\ Return(s, "ErrNotFound", Nil) /\ UNCHANGED fs
     /\ UNCHANGED <<temps, found>>

\* Mutant of Open: no fallback to the flat path.
OpenSharded(s) ==
  LET p == rq[s].p
      x == Final(rq[s].o)
  IN /\ pc[s] = "open"
     /\ IF Exists(p, x) THEN Return(s, "ok", file[p][x]) ELSE Return(s, "ErrNotFound", Nil)
     /\ UNCHANGED <<fs, temps, found>>

\* StatConfig, GetConfig, StatBlob and GetBlob: once opened the file keeps its
\* bytes, whatever happens to its name.
Open(s) ==
  LET p == rq[s].p
      x == Final(rq[s].o)
  IN /\ pc[s] = "open"
     /\ IF Exists(p, x) THEN Return(s, "ok", file[p][x])
        ELSE IF rq[s].o \in Sharded THEN Goto(s, "openFlat")
        ELSE Return(s, "ErrNotFound", Nil)
     /\ UNCHANGED <<fs, temps, found>>

OpenFlat(s) ==
  LET p == rq[s].p
      x == Flat(rq[s].o)
  IN /\ pc[s] = "openFlat"
     /\ IF Exists(p, x) THEN Return(s, "ok", file[p][x]) ELSE Return(s, "ErrNotFound", Nil)
     /\ UNCHANGED <<fs, temps, found>>

-----------------------------------------------------------------------------
\* ListBlobs of the type of rq[s].o, seen at that blob.  Walk reads the names in
\* a directory before it visits them, and skips what has vanished by then; the
\* shard of a flat file sorts before the file.
TempIn(p, d) ==
  \/ <<p, d>> \in debris
  \/ \E t \in Op : tmp[t] # Nil /\ rq[t].p = p /\ DirOf(rq[t].o) = d

WalkNames(s) ==
  /\ pc[s] = "walkNames"
  /\ found' = [found EXCEPT ![s] = IF NotFoundFlat(rq[s].p, rq[s].o) THEN {} ELSE {"name"}]
  /\ Goto(s, "walk")
  /\ UNCHANGED <<fs, temps>>

Walk(s) ==
  LET p == rq[s].p
      o == rq[s].o
  IN /\ pc[s] = "walk"
     /\ found' = [found EXCEPT ![s] = @ \cup (IF Exists(p, Final(o)) THEN {"blob"} ELSE {})
                                        \cup (IF TempIn(p, DirOf(o)) THEN {"temp"} ELSE {})]
     /\ Goto(s, "walkFlat")
     /\ UNCHANGED <<fs, temps>>

WalkFlat(s) ==
  /\ pc[s] = "walkFlat"
  /\ found' = [found EXCEPT ![s] =
       @ \cup (IF "name" \in @ /\ Exists(rq[s].p, Flat(rq[s].o)) THEN {"blob"} ELSE {})]
  /\ Return(s, "ok", Nil)
  /\ UNCHANGED <<fs, temps>>

-----------------------------------------------------------------------------
\* CreateRepo makes the directories one after another, parents included.
MkdirRepo(s) ==
  /\ \/ /\ pc[s] = "mkdirRepo"
        /\ dirs' = dirs \cup Chain(rq[s].p, "root")
        /\ Goto(s, "mkdirTypes")
     \/ /\ pc[s] = "mkdirTypes"
        /\ dirs' = dirs \cup Chain(rq[s].p, "type")
        /\ Goto(s, "mkdirShards")
     \/ /\ pc[s] = "mkdirShards"
        /\ dirs' = dirs \cup Chain(rq[s].p, "shard")
        /\ Return(s, "ok", Nil)
  /\ UNCHANGED <<file, disk, soft, debris, temps, found>>

\* DeleteRepo: RemoveAll takes the tree away entry by entry.
StatRepo(s) ==
  /\ pc[s] = "statRepo"
  /\ IF <<rq[s].p, "root">> \in dirs THEN Goto(s, "removeAll") ELSE Return(s, "ErrRepoNotFound", Nil)
  /\ UNCHANGED <<fs, temps, found>>

Empty(p, d) ==
  /\ \A x \in Paths : Exists(p, x) => DirOfPath(x) # d
  /\ ~TempIn(p, d)
  /\ \A e \in {"data", "type", "shard"} : <<p, e>> \in dirs => d \notin Above(e)
  /\ d = "root" => \A q \in Under[p] \ {p} : <<q, "root">> \notin dirs

RemoveFile(q, x) == Exists(q, x) /\ Unlink(q, x) /\ UNCHANGED temps

RemoveTemp(q, d) ==
  /\ TempIn(q, d)
  /\ debris' = debris \ {<<q, d>>}
  /\ tmp' = [t \in Op |-> IF rq[t].p = q /\ rq[t].o # Nil /\ DirOf(rq[t].o) = d THEN Nil ELSE tmp[t]]
  /\ UNCHANGED <<dirs, file, disk, soft, synced>>

RemoveDir(q, d) ==
  /\ <<q, d>> \in dirs /\ Empty(q, d)
  /\ dirs' = dirs \ {<<q, d>>}
  /\ UNCHANGED <<file, disk, soft, debris, temps>>

RemoveEntry(s) ==
  /\ pc[s] = "removeAll" /\ <<rq[s].p, "root">> \in dirs
  /\ \E q \in Under[rq[s].p] :
       \/ \E x \in Paths : RemoveFile(q, x)
       \/ \E d \in {"root", "data", "type", "shard"} : RemoveTemp(q, d) \/ RemoveDir(q, d)
  /\ UNCHANGED <<pc, rq, found, ans>>

\* It fails when an entry was added behind it, or on an error of the disk.
RemoveEnds(s) ==
  /\ pc[s] = "removeAll"
  /\ \/ <<rq[s].p, "root">> \notin dirs /\ Return(s, "ok", Nil)
     \/ <<rq[s].p, "root">> \in dirs /\ Return(s, "error", Nil)
  /\ UNCHANGED <<fs, temps, found>>

Finish(s) ==
  /\ pc[s] = "done"
  /\ pc' = [pc EXCEPT ![s] = "idle"]
  /\ rq' = [rq EXCEPT ![s] = NoRequest]
  /\ ans' = [ans EXCEPT ![s] = NoAnswer]
  /\ found' = [found EXCEPT ![s] = {}]
  /\ UNCHANGED <<fs, temps>>

-----------------------------------------------------------------------------
\* The process dies: its requests are gone and temporary files stay.
Restart ==
  /\ pc' = [s \in Op |-> "idle"] /\ rq' = [s \in Op |-> NoRequest]
  /\ tmp' = [s \in Op |-> Nil] /\ synced' = [s \in Op |-> FALSE]
  /\ found' = [s \in Op |-> {}] /\ ans' = [s \in Op |-> NoAnswer]
  /\ debris' = debris \cup {<<rq[s].p, DirOf(rq[s].o)>> : s \in {t \in Op : tmp[t] # Nil}}

Crash == Restart /\ (\E s \in Op : pc[s] # "idle") /\ UNCHANGED <<dirs, file, disk, soft>>

\* The machine dies: a directory entry may be found as it was last written back,
\* and a file whose bytes were not synced does not hold them.
PowerFailure ==
  /\ PowerFails
  /\ Restart
  /\ \E old \in SUBSET {e \in Prefix \X Paths : file[e[1]][e[2]] # disk[e[1]][e[2]]} :
       file' = [p \in Prefix |-> [x \in Paths |->
         IF <<p, x>> \in old THEN disk[p][x] ELSE IF <<p, x>> \in soft THEN Torn ELSE file[p][x]]]
  /\ disk' = file' /\ soft' = {}
  /\ dirs' = dirs \cup UNION {Chain(e[1], DirOfPath(e[2])) :
                              e \in {f \in Prefix \X Paths : file'[f[1]][f[2]] # Nil}}

WriteBack(p, x) ==
  /\ PowerFails
  /\ disk[p][x] # file[p][x] /\ <<p, x>> \notin soft
  /\ disk' = [disk EXCEPT ![p][x] = file[p][x]]
  /\ UNCHANGED <<dirs, file, soft, debris, temps, pc, rq, found, ans>>

-----------------------------------------------------------------------------
Kinds == {"CreateRepo", "DeleteRepo", "SaveConfig", "SaveBlob", "DeleteBlob", "Read", "ListBlobs"}

Targets(kind) ==
  CASE kind \in {"CreateRepo", "DeleteRepo"} -> {Nil}
    [] kind = "SaveConfig" -> {Config}
    [] kind = "Read" -> Object
    [] kind \in {"SaveBlob", "DeleteBlob", "ListBlobs"} -> Blob

Payloads(kind, o) == IF kind \in {"SaveConfig", "SaveBlob"} THEN Bodies[o] ELSE {Nil}

\* atomicWrite and the operations, call by call.
Call(s) ==
  \/ Validate(s) \/ Lstat(s) \/ LstatFlat(s) \/ Mkdir(s) \/ CreateTemp(s) \/ Copy(s) \/ Sync(s)
  \/ Rename(s) \/ WriteFails(s)
  \/ Remove(s) \/ RemoveFlat(s)
  \/ Open(s) \/ OpenFlat(s)
  \/ WalkNames(s) \/ Walk(s) \/ WalkFlat(s)
  \/ MkdirRepo(s) \/ StatRepo(s) \/ RemoveEntry(s) \/ RemoveEnds(s)
  \/ Finish(s)

Step ==
  \/ \E s \in Op, kind \in Kinds, p \in Prefix : \E o \in Targets(kind) :
       \E body \in Payloads(kind, o) : Begin(s, kind, p, o, body)
  \/ \E s \in Op : Call(s)
  \/ Crash
  \/ PowerFailure
  \/ \E p \in Prefix, x \in Paths : WriteBack(p, x)

\* History: the values that the target of each call has had since it began.  The target of
\* DeleteRepo is all that is stored in its directory, other repositories included.
Vacant(p) == \A q \in Under[p], x \in Paths : ~Exists(q, x)
Watched(q) ==
  IF q.o # Nil THEN {Value(q.p, q.o)}
  ELSE IF q.kind = "DeleteRepo" /\ Vacant(q.p) THEN {Nil} ELSE {}
Observe ==
  hist' = [s \in Op |->
    IF pc'[s] = "idle" THEN {}
    ELSE IF pc[s] = "done" THEN hist[s]
    ELSE (IF pc[s] = "idle" THEN {} ELSE hist[s]) \cup Watched(rq[s])' ]

Next == Step /\ Observe

Spec == Init /\ [][Next]_vars

-----------------------------------------------------------------------------
Steps == {"idle", "validate", "lstat", "lstatFlat", "mkdir", "createTemp", "copy", "sync",
          "rename", "remove", "removeFlat", "open", "openFlat", "walkNames", "walk",
          "walkFlat", "mkdirRepo", "mkdirTypes", "mkdirShards", "statRepo", "removeAll", "done"}
Held == Content \cup {Nil, Torn}

\* Every variable has its type.
TypeOK ==
  /\ dirs \subseteq Prefix \X {"root", "data", "type", "shard"}
  /\ file \in [Prefix -> [Paths -> Held]]
  /\ disk \in [Prefix -> [Paths -> Held]]
  /\ soft \subseteq Prefix \X Paths
  /\ debris \subseteq Prefix \X {"root", "data", "type", "shard"}
  /\ tmp \in [Op -> Held] /\ synced \in [Op -> BOOLEAN]
  /\ pc \in [Op -> Steps]
  /\ rq \in [Op -> [kind : Kinds \cup {"none"}, p : Prefix \cup {Nil}, o : Object \cup {Nil},
                    body : Content \cup {Nil}]]
  /\ found \in [Op -> SUBSET {"name", "blob", "temp"}]
  /\ ans \in [Op -> [err : {"none", "ok", "error", "ErrNotFound", "ErrRepoNotFound"},
                     value : Held]]
  /\ hist \in [Op -> SUBSET Held]

\* A path under which objects are read never holds anything but a complete body
\* that a client sent for that object: not while a save is under way or failing,
\* not after a crash, and not after a power failure either.
WholeFiles ==
  \A p \in Prefix, x \in Paths : file[p][x] \in Bodies[x[1]] \cup {Nil}

\* Only a save that is still writing has a temporary file: every way out of
\* atomicWrite but a crash removes it.
NoTempLeak == \A s \in Op : tmp[s] # Nil => pc[s] \in {"copy", "sync", "rename"}

\* What a call in flight has established: its request, and the state of its
\* temporary file, whole and synced by the time it is renamed.
Writing == {"lstat", "lstatFlat", "mkdir", "createTemp", "copy", "sync", "rename"}
Routed(q) ==
  /\ q.kind \in Kinds /\ q.p \in Prefix
  /\ q.o \in Targets(q.kind) /\ q.body \in Payloads(q.kind, q.o)
SlotOK(s) ==
  /\ pc[s] # "idle" => Routed(rq[s])
  /\ pc[s] = "validate" => rq[s].kind # "CreateRepo"
  /\ pc[s] \in Writing => rq[s].kind \in {"SaveConfig", "SaveBlob"}
  /\ tmp[s] # Nil => pc[s] \in {"copy", "sync", "rename"}
  /\ pc[s] \in {"sync", "rename"} => tmp[s] \in {Nil, rq[s].body}
  /\ pc[s] = "rename" => synced[s]

\* The inductive invariant behind WholeFiles and NoTempLeak: the entries on the
\* disk are whole as well, and no file's bytes are missing from it.
WholeDisk == \A p \in Prefix, x \in Paths : disk[p][x] \in Bodies[x[1]] \cup {Nil}
Shape ==
  /\ file \in [Prefix -> [Paths -> Held]] /\ disk \in [Prefix -> [Paths -> Held]]
  /\ DOMAIN tmp = Op /\ DOMAIN synced = Op /\ DOMAIN pc = Op /\ DOMAIN rq = Op
  /\ soft = {}
FsInv == Shape /\ WholeFiles /\ WholeDisk /\ \A s \in Op : SlotOK(s)

\* A data blob is never stored at both of its paths: deleting it would then
\* uncover the other copy.  (Where Lstat may fail for a file that is there, as
\* SaveBlob does not expect, this is lost, and with it the two properties below.)
OneCopy == \A p \in Prefix, o \in Sharded : ~(Exists(p, Final(o)) /\ Exists(p, Flat(o)))

\* What makes that inductive: a save that has looked at both paths finds nothing
\* at the flat one later, because nothing is ever written there; a power failure may
\* bring back what was there, but ends the save.
FlatGone(s) ==
  pc[s] \in {"mkdir", "createTemp", "copy", "sync", "rename"} /\ rq[s].o \in Sharded =>
    ~Exists(rq[s].p, Flat(rq[s].o))
CopyInv == (PowerFails \/ OneCopy) /\ \A s \in Op : FlatGone(s)

\* What a call that has ended says is true of some instant of it.
Justified(s) ==
  pc[s] = "done" =>
    LET q == rq[s]
        stored == hist[s] \ {Nil}
        absent == Nil \in hist[s]
    IN /\ ans[s].err = "ok" =>
            /\ q.kind = "Read" => ans[s].value \in stored
            /\ q.kind = "SaveConfig" => q.body \in hist[s]
            /\ q.kind = "SaveBlob" => stored # {}
            /\ q.kind = "DeleteBlob" => stored # {} /\ (absent \/ PowerFails)
            /\ q.kind = "DeleteRepo" => absent
            /\ q.kind = "ListBlobs" => IF "blob" \in found[s] THEN stored # {} ELSE absent
       /\ ans[s].err = "ErrNotFound" => absent

\* Every result is true of some instant of the call, although each operation
\* looks at two paths one after the other while saves and deletions go on: a read
\* returns a body that was stored during the call, "not found" means that the
\* object was absent at some point of it, a successful save or deletion has
\* happened (when a repository has been deleted, there was an instant with nothing in
\* its directory), and a listing misses no blob that was there all the time.  Only where
\* the power may fail can a deletion leave the blob readable: the failure may have
\* undone the removal of its flat path and kept the upload that came after it.
AnswersJustified == \A s \in Op : Justified(s)

\* The system calls together are an atomic object store: a save, a deletion and
\* each step of RemoveAll appear as one change of one object to a complete body or
\* to nothing.  (A power failure is not a step of that store.)
Stored == [p \in Prefix |-> [o \in Object |-> Value(p, o)]]
Store == INSTANCE ObjectStore WITH stored <- Stored
ImplementsStore == Store!Spec

\* A read of a blob that is stored at its flat path throughout finds it.
FallbackReads ==
  \A s \in Op : pc[s] = "done" /\ rq[s].kind = "Read" /\ Nil \notin hist[s] => ans[s].err = "ok"
=============================================================================
