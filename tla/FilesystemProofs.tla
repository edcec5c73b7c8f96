-------------------------- MODULE FilesystemProofs --------------------------
(***************************************************************************)
(* Proofs about the filesystem backend, for every set of repositories,     *)
(* nested or not, objects, bodies and concurrent operations, with crashes  *)
(* and power failures.                                                     *)
(***************************************************************************)
EXTENDS FilesystemBackend, TLAPS

LEMMA PathsFacts ==
  /\ \A o \in Object : Final(o) \in Paths /\ Final(o)[1] = o
  /\ \A o \in Sharded : Flat(o) \in Paths /\ Flat(o)[1] = o
  /\ \A x \in Paths : x[1] \in Object
BY ObjectAssumption DEF Paths, Final, Flat, Object

LEMMA BodiesFacts ==
  ASSUME NEW o \in Object
  PROVE  Bodies[o] \subseteq Content /\ Nil \notin Bodies[o] /\ Bodies[o] \cup {Nil} \subseteq Held
BY NilAssumption DEF Content, Held

\* A save's object and body.
LEMMA SaveRouted ==
  ASSUME NEW q, Routed(q), q.kind \in {"SaveConfig", "SaveBlob"}
  PROVE  q.p \in Prefix /\ q.o \in Object /\ q.body \in Bodies[q.o]
BY DEF Routed, Targets, Payloads, Object

\* Nothing of the invariant depends on what a step does to a slot that is neither
\* before nor after it in the course of a write, as long as the files stay.
LEMMA SlotMoves ==
  ASSUME FsInv, NEW s \in Op, UNCHANGED <<file, disk, soft, tmp, synced, rq>>,
         NEW step, pc' = [pc EXCEPT ![s] = step],
         pc[s] # "idle", pc[s] \notin {"copy", "sync", "rename"},
         step \notin {"validate", "copy", "sync", "rename"},
         step \in Writing => rq[s].kind \in {"SaveConfig", "SaveBlob"}
  PROVE  FsInv'
<1>1. Shape' /\ WholeFiles' /\ WholeDisk'
  BY DEF FsInv, Shape, WholeFiles, WholeDisk
<1>2. ASSUME NEW t \in Op PROVE SlotOK(t)'
  <2>1. pc'[t] = IF t = s THEN step ELSE pc[t]
    BY DEF FsInv, Shape
  <2>2. SlotOK(t)
    BY DEF FsInv
  <2> QED BY <2>1, <2>2 DEF SlotOK
<1> QED BY <1>1, <1>2 DEF FsInv

\* Removing or replacing one file by a whole body keeps all files whole.
LEMMA FileChanges ==
  ASSUME Shape, WholeFiles, NEW p, NEW o, NEW x \in {Final(o), Flat(o)},
         NEW c \in Bodies[o] \cup {Nil}, o \in Object \/ c = Nil,
         file' = [file EXCEPT ![p][x] = c]
  PROVE  WholeFiles' /\ file' \in [Prefix -> [Paths -> Held]]
<1>1. x[1] = o
  BY DEF Final, Flat
<1>2. \A q \in Prefix, y \in Paths :
        file'[q][y] = file[q][y] \/ (y = x /\ file'[q][y] = c)
  BY DEF Shape
<1>3. WholeFiles'
  BY <1>1, <1>2 DEF WholeFiles
<1>4. c \in Held
  BY BodiesFacts DEF Held
<1> QED BY <1>3, <1>4 DEF Shape

LEMMA FsInitInv == Init => FsInv
<1> SUFFICES ASSUME Init PROVE FsInv
  OBVIOUS
<1>1. PICK L \in [Prefix -> SUBSET Legacy] :
        file = [p \in Prefix |-> [x \in Paths |->
          IF x[2] = "flat" /\ x[1] \in L[p] THEN CHOOSE c \in Bodies[x[1]] : TRUE ELSE Nil]]
  BY DEF Init
<1>2. \A p \in Prefix, x \in Paths : file[p][x] \in Bodies[x[1]] \cup {Nil}
  BY <1>1, LegacyAssumption
<1>3. file \in [Prefix -> [Paths -> Held]]
  <2>1. ASSUME NEW p \in Prefix PROVE file[p] \in [Paths -> Held]
    <3>1. \A x \in Paths : file[p][x] \in Held
      BY <1>2, PathsFacts, BodiesFacts
    <3>2. file[p] = [x \in Paths |-> file[p][x]]
      BY <1>1
    <3> QED BY <3>1, <3>2
  <2> QED BY <1>1, <2>1
<1>4. disk = file
  BY DEF Init
<1> QED BY <1>2, <1>3, <1>4 DEF Init, FsInv, Shape, WholeFiles, WholeDisk, SlotOK, Writing

\* A request arrives.
LEMMA BeginInv ==
  ASSUME FsInv, NEW s \in Op, NEW kind \in Kinds, NEW p \in Prefix, NEW o \in Targets(kind),
         NEW body \in Payloads(kind, o), Begin(s, kind, p, o, body)
  PROVE  FsInv'
<1>1. Shape' /\ WholeFiles' /\ WholeDisk'
  BY DEF Begin, fs, temps, FsInv, Shape, WholeFiles, WholeDisk
<1>2. ASSUME NEW t \in Op PROVE SlotOK(t)'
  <2>1. SlotOK(t) /\ tmp' = tmp /\ synced' = synced
    BY DEF FsInv, Begin, temps
  <2>2. CASE t = s
    <3>1. /\ rq'[t] = [kind |-> kind, p |-> p, o |-> o, body |-> body]
          /\ pc'[t] = (IF kind = "CreateRepo" THEN "mkdirRepo" ELSE "validate")
          /\ pc[t] = "idle"
      BY <2>2 DEF FsInv, Shape, Begin
    <3>2. Routed(rq'[t])
      BY <3>1 DEF Routed
    <3> QED BY <2>1, <3>1, <3>2 DEF SlotOK, Writing
  <2>3. CASE t # s
    <3>1. rq'[t] = rq[t] /\ pc'[t] = pc[t]
      BY <2>3 DEF FsInv, Shape, Begin
    <3> QED BY <2>1, <3>1 DEF SlotOK
  <2> QED BY <2>2, <2>3
<1> QED BY <1>1, <1>2 DEF FsInv

\* The calls that change no file and no temporary file.
LEMMA QuietInv ==
  ASSUME FsInv, NEW s \in Op,
         \/ Validate(s) \/ Lstat(s) \/ LstatFlat(s) \/ Mkdir(s) \/ Open(s) \/ OpenFlat(s)
         \/ WalkNames(s) \/ Walk(s) \/ WalkFlat(s) \/ MkdirRepo(s) \/ StatRepo(s)
         \/ RemoveEnds(s)
  PROVE  FsInv'
<1>1. UNCHANGED <<file, disk, soft, tmp, synced, rq>>
  BY DEF Validate, Lstat, LstatFlat, Seeing, Unseen, Mkdir, Open, OpenFlat, WalkNames, Walk,
         WalkFlat,
         MkdirRepo, StatRepo, RemoveEnds, Goto, Return, fs, temps
<1>2. ASSUME Validate(s) PROVE FsInv'
  <2>1. CASE Return(s, "error", Nil)
    BY <1>1, <1>2, <2>1, SlotMoves DEF Validate, Return, Writing
  <2>2. CASE Goto(s, CASE rq[s].kind = "SaveBlob" -> "lstat"
                     [] rq[s].kind = "SaveConfig" -> "mkdir"
                     [] rq[s].kind = "DeleteBlob" -> "remove"
                     [] rq[s].kind = "Read" -> "open"
                     [] rq[s].kind = "ListBlobs" -> "walkNames"
                     [] rq[s].kind = "DeleteRepo" -> "statRepo")
    <3>1. rq[s].kind \in Kinds \ {"CreateRepo"} /\ pc[s] = "validate"
      BY <1>2 DEF Validate, FsInv, SlotOK, Routed
    <3>2. CASE rq[s].kind \in {"SaveBlob", "SaveConfig"}
      <4>1. \E step \in {"lstat", "mkdir"} : pc' = [pc EXCEPT ![s] = step]
        BY <2>2, <3>2 DEF Goto
      <4> QED BY <1>1, <3>1, <3>2, <4>1, SlotMoves
    <3>3. CASE rq[s].kind \in {"DeleteBlob", "Read", "ListBlobs", "DeleteRepo"}
      <4>1. \E step \in {"remove", "open", "walkNames", "statRepo"} : pc' = [pc EXCEPT ![s] = step]
        BY <2>2, <3>3 DEF Goto
      <4> QED BY <1>1, <3>1, <4>1, SlotMoves DEF Writing
    <3> QED BY <3>1, <3>2, <3>3 DEF Kinds
  <2> QED BY <1>2, <2>1, <2>2 DEF Validate
<1>3. ASSUME Lstat(s) \/ LstatFlat(s) \/ Mkdir(s) PROVE FsInv'
  <2>1. pc[s] \in {"lstat", "lstatFlat", "mkdir"}
    BY <1>3 DEF Lstat, LstatFlat, Seeing, Unseen, Mkdir
  <2>2. rq[s].kind \in {"SaveConfig", "SaveBlob"}
    BY <2>1 DEF FsInv, SlotOK, Writing
  <2>3. \E step \in {"lstatFlat", "mkdir", "createTemp", "done"} : pc' = [pc EXCEPT ![s] = step]
    BY <1>3 DEF Lstat, LstatFlat, Seeing, Unseen, Mkdir, Goto, Return
  <2> QED BY <1>1, <2>1, <2>2, <2>3, SlotMoves
<1>4. ASSUME \/ Open(s) \/ OpenFlat(s) \/ WalkNames(s) \/ Walk(s) \/ WalkFlat(s)
             \/ MkdirRepo(s) \/ StatRepo(s) \/ RemoveEnds(s)
      PROVE  FsInv'
  <2>1. pc[s] \in {"open", "openFlat", "walkNames", "walk", "walkFlat", "mkdirRepo",
                   "mkdirTypes", "mkdirShards", "statRepo", "removeAll"}
    BY <1>4 DEF Open, OpenFlat, WalkNames, Walk, WalkFlat, MkdirRepo, StatRepo, RemoveEnds
  <2>2. \E step \in {"openFlat", "walk", "walkFlat", "mkdirTypes", "mkdirShards", "removeAll",
                      "done"} : pc' = [pc EXCEPT ![s] = step]
    BY <1>4 DEF Open, OpenFlat, WalkNames, Walk, WalkFlat, MkdirRepo, StatRepo, RemoveEnds,
                Goto, Return
  <2> QED BY <1>1, <2>1, <2>2, SlotMoves DEF Writing
<1> QED BY <1>2, <1>3, <1>4

\* The steps of atomicWrite.
LEMMA WriteInv ==
  ASSUME FsInv, NEW s \in Op,
         CreateTemp(s) \/ Copy(s) \/ Sync(s) \/ WriteFails(s) \/ Rename(s)
  PROVE  FsInv'
<1>1. /\ rq' = rq /\ disk' = disk /\ Shape /\ WholeFiles /\ WholeDisk
      /\ pc[s] \in {"createTemp", "copy", "sync", "rename"} /\ SlotOK(s)
  BY DEF CreateTemp, Copy, Sync, WriteFails, Rename, Goto, Return, fs, FsInv
<1>2. rq[s].p \in Prefix /\ rq[s].o \in Object /\ rq[s].body \in Bodies[rq[s].o]
  BY <1>1, SaveRouted DEF SlotOK, Writing
<1>3. /\ DOMAIN tmp' = Op /\ DOMAIN synced' = Op /\ DOMAIN pc' = Op
      /\ \A t \in Op \ {s} : tmp'[t] = tmp[t] /\ synced'[t] = synced[t] /\ pc'[t] = pc[t]
  BY <1>1 DEF CreateTemp, Copy, Sync, WriteFails, Rename, DropTemp, Goto, Return, Shape
<1>4. SlotOK(s)'
  <2>1. CASE CreateTemp(s)
    <3>1. \/ pc'[s] = "copy" /\ tmp'[s] = Torn
          \/ pc'[s] = "done" /\ tmp'[s] = tmp[s]
      BY <1>1, <2>1 DEF CreateTemp, Goto, Return, Shape
    <3>2. pc[s] = "createTemp"
      BY <2>1 DEF CreateTemp
    <3> QED BY <1>1, <3>1, <3>2 DEF SlotOK, Writing
  <2>2. CASE Copy(s)
    <3>1. pc'[s] = "sync" /\ tmp'[s] \in {Nil, rq[s].body} /\ pc[s] = "copy"
      BY <1>1, <2>2 DEF Copy, Goto, Shape
    <3> QED BY <1>1, <3>1 DEF SlotOK, Writing
  <2>3. CASE Sync(s)
    <3>1. pc'[s] = "rename" /\ tmp'[s] = tmp[s] /\ synced'[s] = TRUE /\ pc[s] = "sync"
      BY <1>1, <2>3 DEF Sync, Goto, Shape
    <3> QED BY <1>1, <3>1 DEF SlotOK, Writing
  <2>4. CASE WriteFails(s) \/ Rename(s)
    <3>1. pc'[s] = "done" /\ tmp'[s] = Nil
      BY <1>1, <2>4 DEF WriteFails, Rename, DropTemp, Return, Shape
    <3> QED BY <1>1, <3>1 DEF SlotOK, Writing
  <2> QED BY <2>1, <2>2, <2>3, <2>4
<1>5. \A t \in Op : SlotOK(t)'
  BY <1>1, <1>3, <1>4 DEF FsInv, SlotOK
<1>6. WholeFiles' /\ file' \in [Prefix -> [Paths -> Held]] /\ soft' = {}
  <2>1. CASE file' = file /\ soft' = soft
    BY <1>1, <2>1 DEF WholeFiles, Shape
  <2>2. CASE Rename(s) /\ tmp[s] # Nil
    <3>1. tmp[s] = rq[s].body /\ synced[s]
      BY <1>1, <2>2 DEF Rename, SlotOK
    <3>2. file' = [file EXCEPT ![rq[s].p][Final(rq[s].o)] = rq[s].body]
      BY <2>2, <3>1 DEF Rename
    <3>3. soft' = {}
      BY <1>1, <2>2, <3>1 DEF Rename, Shape
    <3> QED BY <1>1, <1>2, <3>2, <3>3, FileChanges
  <2> QED BY <2>1, <2>2 DEF CreateTemp, Copy, Sync, WriteFails, Rename, fs
<1> QED BY <1>1, <1>3, <1>5, <1>6 DEF FsInv, Shape, WholeDisk

\* One file goes away: DeleteBlob and RemoveAll.
LEMMA UnlinkInv ==
  ASSUME FsInv, NEW p, NEW o, NEW x \in {Final(o), Flat(o)}, Unlink(p, x)
  PROVE  Shape /\ WholeFiles' /\ WholeDisk' /\ disk' = disk /\ soft' = {}
         /\ file' \in [Prefix -> [Paths -> Held]]
<1>1. file' = [file EXCEPT ![p][x] = Nil] /\ disk' = disk /\ soft' = {} /\ Shape /\ WholeFiles
  BY DEF Unlink, FsInv, Shape
<1>2. WholeFiles' /\ file' \in [Prefix -> [Paths -> Held]]
  BY <1>1, FileChanges
<1> QED BY <1>1, <1>2 DEF FsInv, WholeDisk

LEMMA RemoveInv ==
  ASSUME FsInv, NEW s \in Op, Remove(s) \/ RemoveFlat(s)
  PROVE  FsInv'
<1>1. /\ pc[s] \in {"remove", "removeFlat"} /\ rq' = rq /\ tmp' = tmp /\ synced' = synced
      /\ \E step \in {"removeFlat", "done"} : pc' = [pc EXCEPT ![s] = step]
  BY DEF Remove, RemoveFlat, Goto, Return, temps
<1>2. CASE UNCHANGED fs
  BY <1>1, <1>2, SlotMoves DEF fs, Writing
<1>3. CASE \E x \in {Final(rq[s].o), Flat(rq[s].o)} : Unlink(rq[s].p, x)
  <2>1. Shape' /\ WholeFiles' /\ WholeDisk'
    BY <1>1, <1>3, UnlinkInv DEF Shape
  <2>2. ASSUME NEW t \in Op PROVE SlotOK(t)'
    <3>1. SlotOK(t) /\ (pc'[t] = pc[t] \/ (t = s /\ pc'[t] \in {"removeFlat", "done"}))
      BY <1>1 DEF FsInv, Shape
    <3> QED BY <1>1, <3>1 DEF SlotOK, Writing
  <2> QED BY <2>1, <2>2 DEF FsInv
<1> QED BY <1>2, <1>3 DEF Remove, RemoveFlat

LEMMA RemoveEntryInv ==
  ASSUME FsInv, NEW s \in Op, RemoveEntry(s)
  PROVE  FsInv'
<1>1. pc' = pc /\ rq' = rq
  BY DEF RemoveEntry
<1>2. PICK q \in Under[rq[s].p] :
        \/ \E x \in Paths : RemoveFile(q, x)
        \/ \E d \in {"root", "data", "type", "shard"} : RemoveTemp(q, d) \/ RemoveDir(q, d)
  BY DEF RemoveEntry
<1>3. ASSUME NEW x \in Paths, RemoveFile(q, x) PROVE FsInv'
  <2>1. \E o : x \in {Final(o), Flat(o)}
    BY DEF Paths
  <2>2. Shape' /\ WholeFiles' /\ WholeDisk' /\ tmp' = tmp /\ synced' = synced
    BY <1>1, <1>3, <2>1, UnlinkInv DEF RemoveFile, Shape, temps
  <2> QED BY <1>1, <2>2 DEF FsInv, SlotOK
<1>4. ASSUME NEW d \in {"root", "data", "type", "shard"}, RemoveTemp(q, d) \/ RemoveDir(q, d)
      PROVE  FsInv'
  <2>1. /\ UNCHANGED <<file, disk, soft, synced>> /\ DOMAIN tmp' = Op
        /\ \A t \in Op : tmp'[t] \in {Nil, tmp[t]}
    BY <1>4 DEF RemoveTemp, RemoveDir, temps, FsInv, Shape
  <2>2. Shape' /\ WholeFiles' /\ WholeDisk'
    BY <1>1, <2>1 DEF FsInv, Shape, WholeFiles, WholeDisk
  <2>3. \A t \in Op : SlotOK(t)'
    BY <1>1, <2>1 DEF FsInv, SlotOK
  <2> QED BY <2>2, <2>3 DEF FsInv
<1> QED BY <1>2, <1>3, <1>4

LEMMA FinishInv == ASSUME FsInv, NEW s \in Op, Finish(s) PROVE FsInv'
<1>1. Shape' /\ WholeFiles' /\ WholeDisk' /\ tmp' = tmp /\ synced' = synced /\ pc[s] = "done"
  BY DEF Finish, fs, temps, FsInv, Shape, WholeFiles, WholeDisk
<1>2. ASSUME NEW t \in Op PROVE SlotOK(t)'
  <2>1. \/ t = s /\ pc'[t] = "idle"
        \/ pc'[t] = pc[t] /\ rq'[t] = rq[t]
    BY DEF Finish, FsInv, Shape
  <2> QED BY <1>1, <2>1 DEF FsInv, SlotOK, Writing
<1> QED BY <1>1, <1>2 DEF FsInv

\* The process or the machine dies, and the kernel writes back.
LEMMA RestartSlots == Restart => \A s \in Op : SlotOK(s)'
BY DEF Restart, SlotOK, Writing

LEMMA CrashInv ==
  ASSUME FsInv, Crash \/ PowerFailure \/ \E p \in Prefix, x \in Paths : WriteBack(p, x)
  PROVE  FsInv'
<1>1. CASE Crash
  <2>1. Shape' /\ WholeFiles' /\ WholeDisk'
    BY <1>1 DEF Crash, Restart, FsInv, Shape, WholeFiles, WholeDisk
  <2> QED BY <1>1, <2>1, RestartSlots DEF Crash, FsInv
<1>2. CASE PowerFailure
  <2>1. PICK old :
          file' = [p \in Prefix |-> [x \in Paths |->
            IF <<p, x>> \in old THEN disk[p][x]
            ELSE IF <<p, x>> \in soft THEN Torn ELSE file[p][x]]]
    BY <1>2 DEF PowerFailure
  <2>2. /\ DOMAIN file' = Prefix
        /\ \A p \in Prefix : DOMAIN file'[p] = Paths
        /\ \A p \in Prefix, x \in Paths : file'[p][x] \in {disk[p][x], file[p][x]}
    BY <2>1 DEF FsInv, Shape
  <2>3. WholeFiles'
    BY <2>2 DEF FsInv, WholeFiles, WholeDisk
  <2>4. file' \in [Prefix -> [Paths -> Held]]
    BY <2>1 DEF FsInv, Shape
  <2>5. Shape' /\ WholeDisk'
    BY <1>2, <2>3, <2>4 DEF PowerFailure, Restart, Shape, WholeDisk, WholeFiles
  <2> QED BY <1>2, <2>3, <2>5, RestartSlots DEF PowerFailure, FsInv
<1>3. ASSUME NEW p \in Prefix, NEW x \in Paths, WriteBack(p, x) PROVE FsInv'
  <2>1. /\ UNCHANGED <<file, soft, tmp, synced, pc, rq>>
        /\ disk' = [disk EXCEPT ![p][x] = file[p][x]]
    BY <1>3 DEF WriteBack, temps
  <2>2. Shape' /\ WholeFiles' /\ \A s \in Op : SlotOK(s)'
    BY <2>1 DEF FsInv, Shape, WholeFiles, SlotOK
  <2>3. WholeDisk'
    BY <2>1 DEF FsInv, Shape, WholeFiles, WholeDisk
  <2> QED BY <2>2, <2>3 DEF FsInv
<1> QED BY <1>1, <1>2, <1>3

LEMMA FsStepInv == FsInv /\ [Next]_vars => FsInv'
<1> SUFFICES ASSUME FsInv, [Next]_vars PROVE FsInv'
  OBVIOUS
<1>1. CASE UNCHANGED vars
  BY <1>1 DEF vars, fs, temps, FsInv, Shape, WholeFiles, WholeDisk, SlotOK
<1>2. CASE Step
  <2>1. ASSUME NEW s \in Op, Call(s) PROVE FsInv'
    BY <2>1, QuietInv, WriteInv, RemoveInv, RemoveEntryInv, FinishInv DEF Call
  <2> QED BY <1>2, <2>1, BeginInv, CrashInv DEF Step
<1> QED BY <1>1, <1>2 DEF Next

\* The files that can be read are whole, through failing uploads, concurrent
\* deletions, crashes and power failures.
THEOREM FsWholeFiles == Spec => []WholeFiles
<1>1. FsInv => WholeFiles
  BY DEF FsInv
<1> QED BY <1>1, FsInitInv, FsStepInv, PTL DEF Spec

\* Every way out of atomicWrite but a crash removes the temporary file.
THEOREM FsNoTempLeak == Spec => []NoTempLeak
<1>1. FsInv => NoTempLeak
  BY DEF FsInv, SlotOK, NoTempLeak
<1> QED BY <1>1, FsInitInv, FsStepInv, PTL DEF Spec

-----------------------------------------------------------------------------
(***************************************************************************)
(* Without power failures: how the files change, one copy of each blob,    *)
(* and the refinement of ObjectStore.                                      *)
(***************************************************************************)

\* One file goes away.
Vanishes(p, x) == Exists(p, x) /\ file' = [file EXCEPT ![p][x] = Nil]

\* One save's body appears under its name.
Appears(s) ==
  /\ pc[s] = "rename" /\ rq[s].p \in Prefix /\ rq[s].o \in Object
  /\ rq[s].body \in Bodies[rq[s].o]
  /\ file' = [file EXCEPT ![rq[s].p][Final(rq[s].o)] = rq[s].body]

\* Every step but a power failure changes one file in one of these two ways, or none.
LEMMA FileSteps ==
  ASSUME FsInv, [Next]_vars, ~PowerFailure
  PROVE  \/ file' = file
         \/ \E p \in Prefix, x \in Paths : Vanishes(p, x)
         \/ \E s \in Op : Appears(s)
<1>1. CASE UNCHANGED vars
  BY <1>1 DEF vars, fs
<1>2. ASSUME NEW s \in Op, Call(s)
      PROVE  \/ file' = file
             \/ \E p \in Prefix, x \in Paths : Vanishes(p, x)
             \/ \E t \in Op : Appears(t)
  <2>1. SlotOK(s) /\ Shape
    BY DEF FsInv
  <2>2. CASE Rename(s)
    <3>1. pc[s] = "rename" /\ (tmp[s] = Nil => file' = file)
          /\ (tmp[s] # Nil => file' = [file EXCEPT ![rq[s].p][Final(rq[s].o)] = tmp[s]])
      BY <2>2 DEF Rename
    <3>2. tmp[s] # Nil => tmp[s] = rq[s].body
      BY <2>1, <3>1 DEF SlotOK
    <3>3. rq[s].p \in Prefix /\ rq[s].o \in Object /\ rq[s].body \in Bodies[rq[s].o]
      BY <2>1, <3>1, SaveRouted DEF SlotOK, Writing
    <3> QED BY <3>1, <3>2, <3>3 DEF Appears
  <2>3. CASE Remove(s) \/ RemoveFlat(s)
    <3>1. pc[s] \in {"remove", "removeFlat"}
      BY <2>3 DEF Remove, RemoveFlat
    <3>2. rq[s].p \in Prefix
      BY <2>1, <3>1 DEF SlotOK, Routed
    <3>3. \/ file' = file
          \/ \E x \in {Final(rq[s].o), Flat(rq[s].o)} : Vanishes(rq[s].p, x)
      BY <2>3 DEF Remove, RemoveFlat, Unlink, Vanishes, fs
    <3>4. ASSUME NEW x, x \notin Paths, file' = [file EXCEPT ![rq[s].p][x] = Nil]
          PROVE  file' = file
      BY <2>1, <3>2, <3>4 DEF Shape
    <3> QED BY <3>2, <3>3, <3>4 DEF Vanishes
  <2>4. CASE RemoveEntry(s)
    <3>1. pc[s] = "removeAll"
      BY <2>4 DEF RemoveEntry
    <3>2. rq[s].p \in Prefix
      BY <2>1, <3>1 DEF SlotOK, Routed
    <3>3. Under[rq[s].p] \subseteq Prefix
      BY <3>2, UnderAssumption
    <3> QED BY <2>4, <3>3
            DEF RemoveEntry, RemoveFile, RemoveTemp, RemoveDir, Unlink, Vanishes
  <2> QED
    BY <1>2, <2>2, <2>3, <2>4
    DEF Call, Validate, Lstat, LstatFlat, Seeing, Unseen, Mkdir, CreateTemp, Copy, Sync,
        WriteFails, Open,
        OpenFlat, WalkNames, Walk, WalkFlat, MkdirRepo, StatRepo, RemoveEnds, Finish, fs
<1>3. CASE Step
  BY <1>2, <1>3 DEF Step, Begin, Crash, WriteBack, fs
<1> QED BY <1>1, <1>3 DEF Next

\* Nothing appears at a flat path otherwise.
LEMMA FlatsVanish ==
  ASSUME FsInv, [Next]_vars, ~PowerFailure, NEW p \in Prefix, NEW o \in Sharded,
         ~Exists(p, Flat(o))
  PROVE  ~Exists(p, Flat(o))'
<1>1. Shape /\ Flat(o) \in Paths
  BY PathsFacts DEF FsInv
<1>2. \A q : Flat(o) # Final(q)
  BY DEF Flat, Final
<1>3. CASE file' = file
  BY <1>3 DEF Exists
<1>4. ASSUME NEW q \in Prefix, NEW x \in Paths, Vanishes(q, x) PROVE ~Exists(p, Flat(o))'
  BY <1>1, <1>4 DEF Vanishes, Exists, Shape
<1>5. ASSUME NEW s \in Op, Appears(s) PROVE ~Exists(p, Flat(o))'
  BY <1>1, <1>2, <1>5 DEF Appears, Exists, Shape
<1> QED BY <1>3, <1>4, <1>5, FileSteps

\* A slot enters the part of a save after the look at the flat path only by that
\* look.
LEMMA EntersWriting ==
  ASSUME FsInv, [Next]_vars, LooksFail = FALSE, NEW s \in Op,
         pc'[s] \in {"mkdir", "createTemp", "copy", "sync", "rename"}, rq'[s].o \in Sharded
  PROVE  /\ rq'[s] = rq[s] /\ rq[s].p \in Prefix
         /\ \/ pc[s] \in {"mkdir", "createTemp", "copy", "sync", "rename"}
            \/ pc[s] = "lstatFlat" /\ ~Exists(rq[s].p, Flat(rq[s].o))
<1> DEFINE W == {"mkdir", "createTemp", "copy", "sync", "rename"}
<1>0. DOMAIN pc = Op /\ DOMAIN rq = Op /\ SlotOK(s)
  BY DEF FsInv, Shape
<1>1. CASE UNCHANGED vars
  BY <1>0, <1>1 DEF vars, SlotOK, Routed
<1>2. ASSUME NEW t \in Op, Call(t)
      PROVE  /\ rq'[s] = rq[s]
             /\ \/ pc[s] \in W
                \/ pc[s] = "lstatFlat" /\ ~Exists(rq[s].p, Flat(rq[s].o))
  <2>1. CASE Finish(t)
    BY <1>0, <2>1 DEF Finish
  <2>2. CASE ~Finish(t)
    <3>1. rq' = rq
      BY <1>2, <2>2
      DEF Call, Validate, Lstat, LstatFlat, Seeing, Unseen, Mkdir, CreateTemp, Copy, Sync,
          WriteFails, Rename,
          Remove, RemoveFlat, Open, OpenFlat, WalkNames, Walk, WalkFlat, MkdirRepo, StatRepo,
          RemoveEntry, RemoveEnds, Goto, Return
    <3>2. CASE pc'[s] = pc[s]
      BY <3>1, <3>2
    <3>3. CASE pc'[s] # pc[s]
      <4>1. t = s
        BY <1>0, <1>2, <2>2, <3>3
        DEF Call, Validate, Lstat, LstatFlat, Seeing, Unseen, Mkdir, CreateTemp, Copy, Sync,
            WriteFails, Rename,
            Remove, RemoveFlat, Open, OpenFlat, WalkNames, Walk, WalkFlat, MkdirRepo, StatRepo,
            RemoveEntry, RemoveEnds, Goto, Return
      <4>2. CASE Validate(s)
        <5>1. pc[s] = "validate" /\ rq[s].kind # "SaveConfig"
          BY <1>0, <3>1, <4>2, ObjectAssumption DEF Validate, SlotOK, Routed, Targets
        <5>2. rq[s].kind \in {"SaveBlob", "DeleteBlob", "Read", "ListBlobs", "DeleteRepo"}
          BY <1>0, <5>1 DEF SlotOK, Routed, Kinds
        <5>3. pc'[s] \in {"done", "lstat", "remove", "open", "walkNames", "statRepo"}
          BY <1>0, <4>2, <5>2 DEF Validate, Goto, Return
        <5> QED BY <5>3
      <4>3. CASE Lstat(s)
        BY <1>0, <3>1, <4>3 DEF Lstat, Seeing, Unseen, Goto, Return
      <4>4. CASE LstatFlat(s)
        BY <1>0, <3>1, <4>4 DEF LstatFlat, Seeing, Unseen, Goto, Return
      <4>5. CASE Mkdir(s) \/ CreateTemp(s) \/ Copy(s) \/ Sync(s) \/ WriteFails(s) \/ Rename(s)
        BY <3>1, <4>5 DEF Mkdir, CreateTemp, Copy, Sync, WriteFails, Rename
      <4>6. CASE \/ Remove(s) \/ RemoveFlat(s) \/ Open(s) \/ OpenFlat(s) \/ WalkNames(s)
                 \/ Walk(s) \/ WalkFlat(s) \/ MkdirRepo(s) \/ StatRepo(s) \/ RemoveEntry(s)
                 \/ RemoveEnds(s)
        BY <1>0, <3>3, <4>6
        DEF Remove, RemoveFlat, Open, OpenFlat, WalkNames, Walk, WalkFlat, MkdirRepo, StatRepo,
            RemoveEntry, RemoveEnds, Goto, Return
      <4> QED BY <1>2, <2>2, <4>1, <4>2, <4>3, <4>4, <4>5, <4>6 DEF Call
    <3> QED BY <3>2, <3>3
  <2> QED BY <2>1, <2>2
<1>3. ASSUME NEW t \in Op, NEW kind, NEW p, NEW o, NEW body, Begin(t, kind, p, o, body)
      PROVE  rq'[s] = rq[s] /\ pc[s] \in W
  BY <1>0, <1>3 DEF Begin
<1>4. ~Crash /\ ~PowerFailure
  BY DEF Crash, PowerFailure, Restart
<1>5. ASSUME NEW p \in Prefix, NEW x \in Paths, WriteBack(p, x)
      PROVE  rq'[s] = rq[s] /\ pc[s] \in W
  BY <1>5 DEF WriteBack
<1>6. /\ rq'[s] = rq[s]
      /\ pc[s] \in W \/ (pc[s] = "lstatFlat" /\ ~Exists(rq[s].p, Flat(rq[s].o)))
  BY <1>1, <1>2, <1>3, <1>4, <1>5 DEF Next, Step, vars
<1>7. rq[s].p \in Prefix
  BY <1>0, <1>6 DEF SlotOK, Routed
<1> QED BY <1>6, <1>7

LEMMA CopyStepInv ==
  ASSUME FsInv, CopyInv, [Next]_vars, LooksFail = FALSE
  PROVE  CopyInv'
<1>1. ASSUME NEW s \in Op PROVE FlatGone(s)'
  <2> SUFFICES ASSUME pc'[s] \in {"mkdir", "createTemp", "copy", "sync", "rename"},
                      rq'[s].o \in Sharded
               PROVE  ~Exists(rq[s].p, Flat(rq[s].o))' /\ rq'[s] = rq[s]
    BY DEF FlatGone, Exists
  <2>1. rq'[s] = rq[s] /\ rq[s].p \in Prefix /\ ~Exists(rq[s].p, Flat(rq[s].o))
    BY EntersWriting DEF CopyInv, FlatGone
  <2>2. ~PowerFailure
    BY DEF PowerFailure, Restart
  <2>3. \A p \in Prefix : \A o \in Sharded : ~Exists(p, Flat(o)) => file'[p][Flat(o)] = Nil
    BY <2>2, FlatsVanish DEF Exists
  <2> QED BY <2>1, <2>3 DEF Exists
<1>2. ASSUME NEW p \in Prefix, NEW o \in Sharded, ~PowerFails
      PROVE  ~(Exists(p, Final(o)) /\ Exists(p, Flat(o)))'
  <2>0. /\ Shape /\ Final(o) \in Paths /\ Flat(o) \in Paths
        /\ ~(Exists(p, Final(o)) /\ Exists(p, Flat(o))) /\ ~PowerFailure
    BY <1>2, PathsFacts, ObjectAssumption DEF FsInv, CopyInv, OneCopy, Object, PowerFailure
  <2>1. CASE ~Exists(p, Flat(o))
    BY <2>0, <2>1, FlatsVanish
  <2>2. CASE ~Exists(p, Final(o)) /\ Exists(p, Flat(o))
    <3>1. CASE file' = file
      BY <2>2, <3>1 DEF Exists
    <3>2. ASSUME NEW q \in Prefix, NEW x \in Paths, Vanishes(q, x) PROVE ~Exists(p, Final(o))'
      BY <2>0, <2>2, <3>2 DEF Vanishes, Exists, Shape
    <3>3. ASSUME NEW s \in Op, Appears(s) PROVE ~Exists(p, Final(o))'
      <4>1. rq[s].p # p \/ Final(rq[s].o) # Final(o)
        BY <2>2, <3>3 DEF Appears, CopyInv, FlatGone, Final
      <4> QED BY <2>0, <2>2, <3>3, <4>1 DEF Appears, Exists, Shape
    <3> QED BY <2>0, <3>1, <3>2, <3>3, FileSteps
  <2> QED BY <2>0, <2>1, <2>2
<1> QED BY <1>1, <1>2, PowerAssumption DEF CopyInv, OneCopy

LEMMA CopyInitInv == Init => CopyInv
<1> SUFFICES ASSUME Init PROVE CopyInv
  OBVIOUS
<1>1. \A p \in Prefix, o \in Sharded : file[p][Final(o)] = Nil
  <2>1. PICK L \in [Prefix -> SUBSET Legacy] :
          file = [p \in Prefix |-> [x \in Paths |->
            IF x[2] = "flat" /\ x[1] \in L[p] THEN CHOOSE c \in Bodies[x[1]] : TRUE ELSE Nil]]
    BY DEF Init
  <2>2. \A o \in Sharded : Final(o) \in Paths /\ Final(o)[2] # "flat"
    BY PathsFacts, ObjectAssumption DEF Final, Object
  <2> QED BY <2>1, <2>2
<1> QED BY <1>1 DEF Init, CopyInv, OneCopy, FlatGone, Exists

\* The invariants that the theorems below rest on.
LEMMA CopyInvariant == ASSUME LooksFail = FALSE PROVE Spec => [](FsInv /\ CopyInv)
<1>1. Init => FsInv /\ CopyInv
  BY FsInitInv, CopyInitInv
<1>2. FsInv /\ CopyInv /\ [Next]_vars => (FsInv /\ CopyInv)'
  BY FsStepInv, CopyStepInv
<1> QED BY <1>1, <1>2, PTL DEF Spec

\* Without power failures no data blob ever lies at both of its paths.
THEOREM FsOneCopy == ASSUME PowerFails = FALSE, LooksFail = FALSE PROVE Spec => []OneCopy
<1>1. FsInv /\ CopyInv => OneCopy
  BY DEF CopyInv
<1> QED BY <1>1, CopyInvariant, PTL

\* The stored values follow the files.
LEMMA StoreInit == FsInv /\ Init => Store!Init
<1> SUFFICES ASSUME FsInv PROVE Store!Init
  OBVIOUS
<1>1. ASSUME NEW p \in Prefix, NEW o \in Object PROVE Value(p, o) \in Bodies[o] \cup {Nil}
  <2>1. file[p][Final(o)] \in Bodies[o] \cup {Nil}
    BY PathsFacts DEF FsInv, WholeFiles
  <2>2. o \in Sharded => file[p][Flat(o)] \in Bodies[o] \cup {Nil}
    BY PathsFacts DEF FsInv, WholeFiles
  <2> QED BY <2>1, <2>2 DEF Value, NotFoundFlat
<1> QED BY <1>1 DEF Store!Init, Stored

\* A file that vanishes drops its object.
LEMMA VanishDrops ==
  ASSUME FsInv, OneCopy, NEW p \in Prefix, NEW x \in Paths, Vanishes(p, x)
  PROVE  Stored' = [Stored EXCEPT ![p] =
                     [o \in Object |-> IF o \in {x[1]} THEN Nil ELSE Stored[p][o]]]
<1>1. ASSUME NEW q \in Prefix, NEW o \in Object
      PROVE  Value(q, o)' = IF q = p /\ o = x[1] THEN Nil ELSE Value(q, o)
  <2>1. /\ Shape /\ Final(o) \in Paths /\ (o \in Sharded => Flat(o) \in Paths)
        /\ Final(o)[1] = o /\ Flat(o)[1] = o
    BY PathsFacts DEF FsInv, Final, Flat
  <2>2. \A y \in Paths : file'[q][y] = IF q = p /\ y = x THEN Nil ELSE file[q][y]
    BY <2>1 DEF Vanishes, Shape
  <2>3. CASE q = p /\ o = x[1]
    <3>1. x = Final(o) \/ (x = Flat(o) /\ o \in Sharded)
      BY <2>3 DEF Paths, Final, Flat
    <3>2. o \in Sharded => ~(Exists(p, Final(o)) /\ Exists(p, Flat(o)))
      BY DEF OneCopy
    <3>3. Final(o) # Flat(o)
      BY DEF Final, Flat
    <3>4. file'[p][Final(o)] = Nil /\ (o \in Sharded => file'[p][Flat(o)] = Nil)
      BY <2>1, <2>2, <2>3, <3>1, <3>2, <3>3 DEF Vanishes, Exists
    <3> QED BY <2>3, <3>4 DEF Value, Exists, NotFoundFlat
  <2>4. CASE ~(q = p /\ o = x[1])
    <3>1. file'[q][Final(o)] = file[q][Final(o)]
          /\ (o \in Sharded => file'[q][Flat(o)] = file[q][Flat(o)])
      BY <2>1, <2>2, <2>4
    <3> QED BY <2>4, <3>1 DEF Value, Exists, NotFoundFlat
  <2> QED BY <2>3, <2>4
<1> QED BY <1>1 DEF Stored

\* A body that appears is put.
LEMMA AppearPuts ==
  ASSUME FsInv, NEW s \in Op, Appears(s)
  PROVE  Stored' = [Stored EXCEPT ![rq[s].p][rq[s].o] = rq[s].body]
<1> DEFINE p == rq[s].p
           o == rq[s].o
<1>1. ASSUME NEW q \in Prefix, NEW r \in Object
      PROVE  Value(q, r)' = IF q = p /\ r = o THEN rq[s].body ELSE Value(q, r)
  <2>1. /\ Shape /\ Final(r) \in Paths /\ (r \in Sharded => Flat(r) \in Paths)
        /\ (Final(r) = Final(o) <=> r = o) /\ Flat(r) # Final(o)
    BY PathsFacts DEF FsInv, Final, Flat
  <2>2. p \in Prefix /\ o \in Object /\ rq[s].body # Nil
    BY BodiesFacts DEF Appears
  <2>3. \A y \in Paths : file'[q][y] = IF q = p /\ y = Final(o) THEN rq[s].body ELSE file[q][y]
    BY <2>1 DEF Appears, Shape
  <2> HIDE DEF p, o
  <2>4. CASE q = p /\ r = o
    BY <2>1, <2>2, <2>3, <2>4 DEF Value, Exists
  <2>5. CASE ~(q = p /\ r = o)
    BY <2>1, <2>3, <2>5 DEF Value, Exists, NotFoundFlat
  <2> QED BY <2>4, <2>5
<1>2. p \in Prefix /\ o \in Object
  BY DEF Appears
<1> QED BY <1>1, <1>2 DEF Stored

LEMMA StoreStep ==
  ASSUME FsInv, CopyInv, [Next]_vars, PowerFails = FALSE
  PROVE  [Store!Next]_Stored
<1>1. CASE file' = file
  BY <1>1 DEF Stored, Value, Exists, NotFoundFlat
<1>2. ASSUME NEW p \in Prefix, NEW x \in Paths, Vanishes(p, x) PROVE Store!Next
  <2>1. Store!Drop(p, {x[1]})
    BY <1>2, VanishDrops DEF Store!Drop, CopyInv
  <2>2. {x[1]} \in SUBSET Object
    BY PathsFacts
  <2> QED BY <2>1, <2>2 DEF Store!Next
<1>3. ASSUME NEW s \in Op, Appears(s) PROVE Store!Next
  <2>1. Store!Put(rq[s].p, rq[s].o, rq[s].body)
    BY <1>3, AppearPuts DEF Store!Put
  <2>2. rq[s].p \in Prefix /\ rq[s].o \in Object /\ rq[s].body \in Bodies[rq[s].o]
    BY <1>3 DEF Appears
  <2> QED BY <2>1, <2>2 DEF Store!Next
<1>4. ~PowerFailure
  BY DEF PowerFailure
<1> QED BY <1>1, <1>2, <1>3, <1>4, FileSteps

\* Without power failures the filesystem backend, system call by system call and
\* with crashes of the process, implements the atomic object store.
THEOREM FsImplements == ASSUME PowerFails = FALSE, LooksFail = FALSE PROVE Spec => ImplementsStore
<1>1. Spec => Init /\ [][Next]_vars /\ [](FsInv /\ CopyInv)
  BY CopyInvariant, PTL DEF Spec
<1>2. Init /\ FsInv => Store!Init
  BY StoreInit
<1>3. FsInv /\ CopyInv /\ [Next]_vars => [Store!Next]_Stored
  BY StoreStep
<1>4. Spec => Store!Init /\ [][Store!Next]_Stored
  BY <1>1, <1>2, <1>3, PTL
<1> QED BY <1>4 DEF ImplementsStore, Store!Spec
-----------------------------------------------------------------------------
\* Type correctness.  FsInv types the files already; the rest is one lemma for each
\* group of variables.  A read needs to know that it is at a path of an object.
ReadsPath(s) ==
  /\ pc[s] = "open" => rq[s].o \in Object
  /\ pc[s] = "openFlat" => rq[s].o \in Sharded
FsTypeInv == FsInv /\ TypeOK /\ \A s \in Op : ReadsPath(s)

LEMMA DirTyped ==
  /\ \A o : DirOf(o) \in {"root", "data", "type", "shard"}
  /\ \A x : DirOfPath(x) \in {"root", "data", "type", "shard"}
BY DEF DirOf, DirOfPath

LEMMA ChainTyped ==
  ASSUME NEW p \in Prefix, NEW d \in {"root", "data", "type", "shard"}
  PROVE  Chain(p, d) \subseteq Prefix \X {"root", "data", "type", "shard"}
BY DEF Chain, Above

\* The slot of a request in flight names a repository, and an object or nothing.
LEMMA RoutedTyped ==
  ASSUME NEW q, Routed(q)
  PROVE  /\ q.kind \in Kinds /\ q.p \in Prefix /\ q.o \in Object \cup {Nil}
         /\ q.body \in Content \cup {Nil}
<1>1. q.kind \in Kinds /\ q.p \in Prefix /\ q.o \in Object \cup {Nil}
  BY DEF Routed, Targets, Kinds, Object
<1>2. q.body \in Content \cup {Nil}
  <2>1. CASE q.kind \in {"SaveConfig", "SaveBlob"}
    BY <2>1, <1>1, SaveRouted, BodiesFacts
  <2>2. CASE q.kind \notin {"SaveConfig", "SaveBlob"}
    BY <2>2 DEF Routed, Payloads
  <2> QED BY <2>1, <2>2
<1> QED BY <1>1, <1>2

LEMMA FsTypeInit == Init => FsTypeInv
<1> SUFFICES ASSUME Init PROVE FsTypeInv
  OBVIOUS
<1>1. FsInv
  BY FsInitInv
<1>2. PICK L \in [Prefix -> SUBSET Legacy], d \in {"data", "shard"} :
        dirs = UNION {Chain(p, d) : p \in {q \in Prefix : L[q] # {}}}
  BY DEF Init
<1>3. dirs \subseteq Prefix \X {"root", "data", "type", "shard"}
  BY <1>2, ChainTyped
<1>4. TypeOK
  BY <1>1, <1>3 DEF Init, FsInv, Shape, TypeOK, Held, Steps, NoRequest, NoAnswer
<1>5. \A s \in Op : ReadsPath(s)
  BY DEF Init, ReadsPath
<1> QED BY <1>1, <1>4, <1>5 DEF FsTypeInv

\* What a call assigns to the step, the request, the answer and the finds of its slot.
LEMMA CallMoves ==
  ASSUME FsTypeInv, NEW s \in Op, Call(s)
  PROVE  /\ \E step \in Steps : pc' = [pc EXCEPT ![s] = step]
         /\ rq' = rq \/ rq' = [rq EXCEPT ![s] = NoRequest]
         /\ \/ ans' = ans
            \/ \E e \in {"none", "ok", "error", "ErrNotFound", "ErrRepoNotFound"}, v \in Held :
                 ans' = [ans EXCEPT ![s] = [err |-> e, value |-> v]]
         /\ \/ found' = found
            \/ \E f \in SUBSET {"name", "blob", "temp"} : found' = [found EXCEPT ![s] = f]
         /\ \A t \in Op : ReadsPath(t)'
<1>1. /\ Nil \in Held /\ SlotOK(s) /\ ReadsPath(s)
      /\ pc \in [Op -> Steps] /\ file \in [Prefix -> [Paths -> Held]]
      /\ found \in [Op -> SUBSET {"name", "blob", "temp"}]
  BY DEF FsTypeInv, FsInv, TypeOK, Held
<1> DEFINE Moves(step) == pc' = [pc EXCEPT ![s] = step] /\ rq' = rq
           Answers == \/ ans' = ans
                      \/ \E e \in {"none", "ok", "error", "ErrNotFound", "ErrRepoNotFound"},
                            v \in Held : ans' = [ans EXCEPT ![s] = [err |-> e, value |-> v]]
           Finds == \/ found' = found
                    \/ \E f \in SUBSET {"name", "blob", "temp"} : found' = [found EXCEPT ![s] = f]
<1>2. ASSUME NEW step \in Steps, Moves(step), step = "open" => rq[s].o \in Object,
             step = "openFlat" => rq[s].o \in Sharded
      PROVE  \A t \in Op : ReadsPath(t)'
  BY <1>1, <1>2 DEF ReadsPath, FsTypeInv
<1>3. ASSUME Validate(s) PROVE (\E step \in Steps : Moves(step)) /\ Answers /\ Finds
                               /\ \A t \in Op : ReadsPath(t)'
  <2>1. /\ rq[s].kind \in Kinds \ {"CreateRepo"} /\ Routed(rq[s]) /\ found' = found
    BY <1>1, <1>3 DEF Validate, SlotOK, Routed
  <2>2. \/ ans' = [ans EXCEPT ![s] = [err |-> "error", value |-> Nil]] /\ Moves("done")
        \/ /\ ans' = ans
           /\ \E step \in {"lstat", "mkdir", "remove", "walkNames", "statRepo"} : Moves(step)
        \/ ans' = ans /\ Moves("open") /\ rq[s].kind = "Read"
    BY <1>3, <2>1 DEF Validate, Return, Goto, Kinds
  <2>3. rq[s].kind = "Read" => rq[s].o \in Object
    BY <2>1 DEF Routed, Targets
  <2> QED BY <1>1, <1>2, <2>1, <2>2, <2>3 DEF Steps
<1>4. ASSUME \/ Lstat(s) \/ LstatFlat(s) \/ Mkdir(s) \/ CreateTemp(s) \/ Copy(s) \/ Sync(s)
             \/ Rename(s) \/ WriteFails(s) \/ Remove(s) \/ RemoveFlat(s) \/ MkdirRepo(s)
             \/ StatRepo(s) \/ RemoveEnds(s)
      PROVE  (\E step \in Steps : Moves(step)) /\ Answers /\ Finds /\ \A t \in Op : ReadsPath(t)'
  <2>1. \E step \in Steps \ {"open", "openFlat"} : Moves(step)
    BY <1>4 DEF Lstat, LstatFlat, Seeing, Unseen, Mkdir, CreateTemp, Copy, Sync, Rename,
                WriteFails, Remove,
                RemoveFlat, MkdirRepo, StatRepo, RemoveEnds, Goto, Return, Steps
  <2>2. \/ ans' = ans
        \/ \E e \in {"ok", "error", "ErrNotFound", "ErrRepoNotFound"} :
             ans' = [ans EXCEPT ![s] = [err |-> e, value |-> Nil]]
    BY <1>4 DEF Lstat, LstatFlat, Seeing, Unseen, Mkdir, CreateTemp, Copy, Sync, Rename,
                WriteFails, Remove,
                RemoveFlat, MkdirRepo, StatRepo, RemoveEnds, Goto, Return
  <2>3. found' = found
    BY <1>4 DEF Lstat, LstatFlat, Seeing, Unseen, Mkdir, CreateTemp, Copy, Sync, Rename,
                WriteFails, Remove,
                RemoveFlat, MkdirRepo, StatRepo, RemoveEnds
  <2> QED BY <1>1, <1>2, <2>1, <2>2, <2>3
<1>5. ASSUME Open(s) \/ OpenFlat(s)
      PROVE  (\E step \in Steps : Moves(step)) /\ Answers /\ Finds /\ \A t \in Op : ReadsPath(t)'
  <2>1. /\ rq[s].p \in Prefix /\ found' = found
        /\ \/ Open(s) /\ rq[s].o \in Object
           \/ OpenFlat(s) /\ rq[s].o \in Sharded
    BY <1>1, <1>5 DEF Open, OpenFlat, SlotOK, Routed, ReadsPath
  <2>2. /\ rq[s].o \in Object => file[rq[s].p][Final(rq[s].o)] \in Held
        /\ rq[s].o \in Sharded => file[rq[s].p][Flat(rq[s].o)] \in Held
    BY <1>1, <2>1, PathsFacts
  <2>3. Moves("done") \/ (Moves("openFlat") /\ rq[s].o \in Sharded)
    <3>1. CASE Open(s)
      BY <3>1 DEF Open, Goto, Return
    <3>2. CASE OpenFlat(s)
      BY <3>2 DEF OpenFlat, Return
    <3> QED BY <1>5, <3>1, <3>2
  <2>4. Answers
    BY <1>1, <2>1, <2>2 DEF Open, OpenFlat, Goto, Return
  <2> QED BY <1>1, <1>2, <2>1, <2>3, <2>4 DEF Steps
<1>6. ASSUME WalkNames(s) \/ Walk(s) \/ WalkFlat(s)
      PROVE  (\E step \in Steps : Moves(step)) /\ Answers /\ Finds /\ \A t \in Op : ReadsPath(t)'
  <2>1. \E step \in {"walk", "walkFlat", "done"} : Moves(step)
    BY <1>6 DEF WalkNames, Walk, WalkFlat, Goto, Return
  <2>2. ans' = ans \/ ans' = [ans EXCEPT ![s] = [err |-> "ok", value |-> Nil]]
    BY <1>6 DEF WalkNames, Walk, WalkFlat, Goto, Return
  <2>3. \E f \in SUBSET {"name", "blob", "temp"} : found' = [found EXCEPT ![s] = f]
    BY <1>1, <1>6 DEF WalkNames, Walk, WalkFlat
  <2> QED BY <1>1, <1>2, <2>1, <2>2, <2>3 DEF Steps
<1>7. ASSUME RemoveEntry(s)
      PROVE  (\E step \in Steps : Moves(step)) /\ Answers /\ Finds /\ \A t \in Op : ReadsPath(t)'
  <2>1. pc' = pc /\ rq' = rq /\ ans' = ans /\ found' = found
    BY <1>7 DEF RemoveEntry
  <2>2. pc[s] \in Steps /\ pc' = [pc EXCEPT ![s] = pc[s]]
    BY <1>1, <2>1
  <2> QED BY <2>1, <2>2 DEF FsTypeInv, ReadsPath
<1>8. CASE Finish(s)
  <2>1. /\ pc' = [pc EXCEPT ![s] = "idle"] /\ rq' = [rq EXCEPT ![s] = NoRequest]
        /\ ans' = [ans EXCEPT ![s] = [err |-> "none", value |-> Nil]]
        /\ found' = [found EXCEPT ![s] = {}] /\ "idle" \in Steps
    BY <1>8 DEF Finish, NoAnswer, Steps
  <2>2. ASSUME NEW t \in Op PROVE ReadsPath(t)'
    <3>1. pc'[t] = "idle" \/ (pc'[t] = pc[t] /\ rq'[t] = rq[t])
      BY <1>1, <2>1
    <3> QED BY <3>1 DEF ReadsPath, FsTypeInv
  <2> QED BY <1>1, <2>1, <2>2
<1> QED BY <1>3, <1>4, <1>5, <1>6, <1>7, <1>8 DEF Call

\* What a call does to the directories and to the temporary files.
LEMMA CallFiles ==
  ASSUME FsTypeInv, NEW s \in Op, Call(s)
  PROVE  /\ dirs' \subseteq Prefix \X {"root", "data", "type", "shard"}
         /\ debris' \subseteq Prefix \X {"root", "data", "type", "shard"}
         /\ tmp' \in [Op -> Held] /\ synced' \in [Op -> BOOLEAN]
<1>1. /\ dirs \subseteq Prefix \X {"root", "data", "type", "shard"}
      /\ debris \subseteq Prefix \X {"root", "data", "type", "shard"}
      /\ tmp \in [Op -> Held] /\ synced \in [Op -> BOOLEAN] /\ SlotOK(s)
      /\ Nil \in Held /\ Torn \in Held
  BY DEF FsTypeInv, FsInv, TypeOK, Held
<1>2. CASE Mkdir(s) \/ MkdirRepo(s)
  <2>1. rq[s].p \in Prefix
    BY <1>1, <1>2 DEF Mkdir, MkdirRepo, SlotOK, Routed
  <2>2. /\ debris' = debris /\ tmp' = tmp /\ synced' = synced
        /\ \E d \in {"root", "data", "type", "shard"} : dirs' = dirs \cup Chain(rq[s].p, d)
    BY <1>2, DirTyped DEF Mkdir, MkdirRepo, temps
  <2> QED BY <1>1, <2>1, <2>2, ChainTyped
<1>3. CASE CreateTemp(s) \/ Copy(s) \/ Sync(s) \/ WriteFails(s) \/ Rename(s)
  <2>1. dirs' = dirs /\ debris' = debris
    BY <1>3 DEF CreateTemp, Copy, Sync, WriteFails, Rename, fs
  <2>2. rq[s].body \in Held
    <3>1. Routed(rq[s]) /\ rq[s].kind \in {"SaveConfig", "SaveBlob"}
      BY <1>1, <1>3 DEF CreateTemp, Copy, Sync, WriteFails, Rename, SlotOK, Writing
    <3> QED BY <3>1, RoutedTyped DEF Held
  <2>3. /\ tmp' = tmp \/ \E v \in Held : tmp' = [tmp EXCEPT ![s] = v]
        /\ synced' = synced \/ \E v \in BOOLEAN : synced' = [synced EXCEPT ![s] = v]
    BY <1>1, <1>3, <2>2 DEF CreateTemp, Copy, Sync, WriteFails, Rename, DropTemp, temps
  <2> QED BY <1>1, <2>1, <2>3
<1>4. CASE RemoveEntry(s)
  <2>1. PICK q \in Under[rq[s].p] :
          \/ \E x \in Paths : RemoveFile(q, x)
          \/ \E d \in {"root", "data", "type", "shard"} : RemoveTemp(q, d) \/ RemoveDir(q, d)
    BY <1>4 DEF RemoveEntry
  <2> QED BY <1>1, <2>1 DEF RemoveFile, RemoveTemp, RemoveDir, Unlink, temps
<1>5. CASE Remove(s) \/ RemoveFlat(s)
  BY <1>1, <1>5 DEF Remove, RemoveFlat, Unlink, fs, temps
<1>6. CASE \/ Validate(s) \/ Lstat(s) \/ LstatFlat(s) \/ Open(s) \/ OpenFlat(s) \/ WalkNames(s)
           \/ Walk(s) \/ WalkFlat(s) \/ StatRepo(s) \/ RemoveEnds(s) \/ Finish(s)
  BY <1>1, <1>6 DEF Validate, Lstat, LstatFlat, Seeing, Unseen, Open, OpenFlat, WalkNames, Walk,
                    WalkFlat,
                    StatRepo, RemoveEnds, Finish, fs, temps
<1> QED BY <1>2, <1>3, <1>4, <1>5, <1>6 DEF Call

\* A crash leaves temporary files where saves were writing them.
LEMMA RestartTyped ==
  ASSUME FsTypeInv, Restart
  PROVE  /\ debris' \subseteq Prefix \X {"root", "data", "type", "shard"}
         /\ tmp' \in [Op -> Held] /\ synced' \in [Op -> BOOLEAN] /\ pc' \in [Op -> Steps]
         /\ rq' \in [Op -> [kind : Kinds \cup {"none"}, p : Prefix \cup {Nil},
                            o : Object \cup {Nil}, body : Content \cup {Nil}]]
         /\ found' \in [Op -> SUBSET {"name", "blob", "temp"}]
         /\ ans' \in [Op -> [err : {"none", "ok", "error", "ErrNotFound", "ErrRepoNotFound"},
                             value : Held]]
         /\ \A s \in Op : ReadsPath(s)'
<1>1. ASSUME NEW s \in Op, tmp[s] # Nil
      PROVE  <<rq[s].p, DirOf(rq[s].o)>> \in Prefix \X {"root", "data", "type", "shard"}
  BY <1>1, DirTyped DEF FsTypeInv, FsInv, SlotOK, Routed
<1>2. debris' \subseteq Prefix \X {"root", "data", "type", "shard"}
  BY <1>1 DEF Restart, FsTypeInv, TypeOK
<1> QED BY <1>2 DEF Restart, Held, Steps, NoRequest, NoAnswer, ReadsPath

\* The history of a slot holds values of files.
LEMMA HistTyped ==
  ASSUME FsTypeInv, FsInv', pc' \in [Op -> Steps], Observe
  PROVE  hist' \in [Op -> SUBSET Held]
<1>1. ASSUME NEW s \in Op, pc'[s] # "idle" PROVE Watched(rq[s])' \subseteq Held
  <2>1. Routed(rq'[s]) /\ file' \in [Prefix -> [Paths -> Held]]
    BY <1>1 DEF FsInv, SlotOK, Shape
  <2>2. rq'[s].p \in Prefix /\ (rq'[s].o # Nil => rq'[s].o \in Object)
    BY <2>1, RoutedTyped
  <2>3. rq'[s].o # Nil => Value(rq[s].p, rq[s].o)' \in Held
    BY <2>1, <2>2, PathsFacts DEF Value, NotFoundFlat
  <2> QED BY <2>3 DEF Watched, Held
<1>2. hist \in [Op -> SUBSET Held]
  BY DEF FsTypeInv, TypeOK
<1>3. ASSUME NEW s \in Op PROVE hist'[s] \subseteq Held
  BY <1>1, <1>2 DEF Observe
<1>4. DOMAIN hist' = Op /\ hist' = [s \in Op |-> hist'[s]]
  BY DEF Observe
<1> QED BY <1>3, <1>4

LEMMA FsTypeStep == FsTypeInv /\ [Next]_vars => FsTypeInv'
<1> SUFFICES ASSUME FsTypeInv, [Next]_vars PROVE FsTypeInv'
  OBVIOUS
<1>1. FsInv'
  BY FsStepInv DEF FsTypeInv
<1>2. CASE UNCHANGED vars
  BY <1>1, <1>2 DEF vars, fs, temps, FsTypeInv, TypeOK, ReadsPath
<1>3. CASE Next
  <2> DEFINE Typed ==
        /\ dirs' \subseteq Prefix \X {"root", "data", "type", "shard"}
        /\ debris' \subseteq Prefix \X {"root", "data", "type", "shard"}
        /\ tmp' \in [Op -> Held] /\ synced' \in [Op -> BOOLEAN] /\ pc' \in [Op -> Steps]
        /\ rq' \in [Op -> [kind : Kinds \cup {"none"}, p : Prefix \cup {Nil},
                           o : Object \cup {Nil}, body : Content \cup {Nil}]]
        /\ found' \in [Op -> SUBSET {"name", "blob", "temp"}]
        /\ ans' \in [Op -> [err : {"none", "ok", "error", "ErrNotFound", "ErrRepoNotFound"},
                            value : Held]]
        /\ \A s \in Op : ReadsPath(s)'
  <2>1. /\ dirs \subseteq Prefix \X {"root", "data", "type", "shard"}
        /\ debris \subseteq Prefix \X {"root", "data", "type", "shard"}
        /\ tmp \in [Op -> Held] /\ synced \in [Op -> BOOLEAN] /\ pc \in [Op -> Steps]
        /\ rq \in [Op -> [kind : Kinds \cup {"none"}, p : Prefix \cup {Nil},
                          o : Object \cup {Nil}, body : Content \cup {Nil}]]
        /\ found \in [Op -> SUBSET {"name", "blob", "temp"}]
        /\ ans \in [Op -> [err : {"none", "ok", "error", "ErrNotFound", "ErrRepoNotFound"},
                           value : Held]]
        /\ \A s \in Op : ReadsPath(s)
    BY DEF FsTypeInv, TypeOK
  <2>2. ASSUME NEW s \in Op, Call(s) PROVE Typed
    <3>1. rq' \in [Op -> [kind : Kinds \cup {"none"}, p : Prefix \cup {Nil},
                          o : Object \cup {Nil}, body : Content \cup {Nil}]]
      BY <2>1, <2>2, CallMoves DEF NoRequest
    <3>2. /\ pc' \in [Op -> Steps] /\ found' \in [Op -> SUBSET {"name", "blob", "temp"}]
      <4>1. \E step \in Steps : pc' = [pc EXCEPT ![s] = step]
        BY <2>2, CallMoves
      <4>2. \/ found' = found
            \/ \E f \in SUBSET {"name", "blob", "temp"} : found' = [found EXCEPT ![s] = f]
        BY <2>2, CallMoves
      <4>3. pc' \in [Op -> Steps]
        BY <2>1, <4>1
      <4>4. found' \in [Op -> SUBSET {"name", "blob", "temp"}]
        BY <2>1, <4>2
      <4> QED BY <4>3, <4>4
    <3>3. ans' \in [Op -> [err : {"none", "ok", "error", "ErrNotFound", "ErrRepoNotFound"},
                           value : Held]]
      BY <2>1, <2>2, CallMoves
    <3> QED BY <2>2, <3>1, <3>2, <3>3, CallMoves, CallFiles
  <2>3. ASSUME NEW s \in Op, NEW kind \in Kinds, NEW p \in Prefix, NEW o \in Targets(kind),
               NEW body \in Payloads(kind, o), Begin(s, kind, p, o, body)
        PROVE  Typed
    <3>1. Routed([kind |-> kind, p |-> p, o |-> o, body |-> body])
      BY DEF Routed
    <3>2. o \in Object \cup {Nil} /\ body \in Content \cup {Nil}
      BY <3>1, RoutedTyped
    <3>3. ASSUME NEW t \in Op PROVE ReadsPath(t)'
      <4>1. pc'[t] \in {"mkdirRepo", "validate"} \/ (pc'[t] = pc[t] /\ rq'[t] = rq[t])
        BY <2>1, <2>3 DEF Begin
      <4> QED BY <2>1, <4>1 DEF ReadsPath
    <3> QED BY <2>1, <2>3, <3>2, <3>3 DEF Begin, fs, temps, Steps
  <2>4. ASSUME Crash PROVE Typed
    BY <2>1, <2>4, RestartTyped DEF Crash
  <2>5. ASSUME PowerFailure PROVE Typed
    <3>1. \A e \in Prefix \X Paths :
            Chain(e[1], DirOfPath(e[2])) \subseteq Prefix \X {"root", "data", "type", "shard"}
      BY ChainTyped, DirTyped
    <3>2. dirs' = dirs \cup UNION {Chain(e[1], DirOfPath(e[2])) :
                                   e \in {f \in Prefix \X Paths : file'[f[1]][f[2]] # Nil}}
      BY <2>5 DEF PowerFailure
    <3>3. dirs' \subseteq Prefix \X {"root", "data", "type", "shard"}
      BY <2>1, <3>1, <3>2
    <3> QED BY <2>5, <3>3, RestartTyped DEF PowerFailure
  <2>6. ASSUME NEW p \in Prefix, NEW x \in Paths, WriteBack(p, x) PROVE Typed
    BY <2>1, <2>6 DEF WriteBack, temps, ReadsPath
  <2>7. Typed
    BY <1>3, <2>2, <2>3, <2>4, <2>5, <2>6 DEF Next, Step
  <2>8. hist' \in [Op -> SUBSET Held]
    BY <1>1, <1>3, <2>7, HistTyped DEF Next
  <2> QED BY <1>1, <2>7, <2>8 DEF FsTypeInv, TypeOK, FsInv, Shape
<1> QED BY <1>2, <1>3

\* Type correctness of the filesystem backend.
THEOREM FsTyped == Spec => []TypeOK
<1>1. FsTypeInv => TypeOK
  BY DEF FsTypeInv
<1> QED BY <1>1, FsTypeInit, FsTypeStep, PTL DEF Spec

-----------------------------------------------------------------------------
(***************************************************************************)
(* Directories.  DeleteRepo answers by whether the directory of the        *)
(* repository exists: that says what has become of the files in it, and in *)
(* the repositories below it, because nothing is ever without the          *)
(* directories above it.                                                   *)
(***************************************************************************)
Homed ==
  /\ \A p \in Prefix, x \in Paths : Exists(p, x) => <<p, DirOfPath(x)>> \in dirs
  /\ \A s \in Op : tmp[s] # Nil => <<rq[s].p, DirOf(rq[s].o)>> \in dirs
  /\ \A e \in dirs : Chain(e[1], e[2]) \subseteq dirs

Dirs == {"root", "data", "type", "shard"}

\* The directories above a directory are closed under going up.
LEMMA ChainClosed ==
  ASSUME NEW p \in Prefix, NEW d \in Dirs, NEW e \in Chain(p, d)
  PROVE  Chain(e[1], e[2]) \subseteq Chain(p, d)
<1>1. CASE e[1] = p /\ e[2] \in {d} \cup Above(d)
  <2>1. {e[2]} \cup Above(e[2]) \subseteq {d} \cup Above(d)
    BY <1>1 DEF Above, Dirs
  <2> QED BY <1>1, <2>1 DEF Chain
<1>2. CASE e[2] = "root" /\ e[1] \in Prefix /\ p \in Under[e[1]]
  <2>1. Above("root") = {}
    BY DEF Above
  <2>2. \A q \in Prefix : e[1] \in Under[q] => p \in Under[q]
    BY <1>2, UnderAssumption
  <2>3. Chain(e[1], e[2]) = {<<q, "root">> : q \in {q \in Prefix : e[1] \in Under[q]}}
    BY <1>2, <2>1, UnderAssumption DEF Chain
  <2> QED BY <2>2, <2>3 DEF Chain
<1> QED BY <1>1, <1>2 DEF Chain

\* Every directory is in its own chain, and so are the roots above it.
LEMMA ChainHolds ==
  ASSUME NEW p \in Prefix, NEW d \in Dirs
  PROVE  /\ <<p, d>> \in Chain(p, d)
         /\ \A e \in Above(d) : <<p, e>> \in Chain(p, d)
         /\ \A q \in Prefix : p \in Under[q] => <<q, "root">> \in Chain(p, d)
BY DEF Chain

\* Making a directory and those above it leaves none without those above it.
LEMMA ChainAdded ==
  ASSUME NEW p \in Prefix, NEW d \in Dirs, \A e \in dirs : Chain(e[1], e[2]) \subseteq dirs,
         dirs' = dirs \cup Chain(p, d)
  PROVE  \A e \in dirs' : Chain(e[1], e[2]) \subseteq dirs'
<1> SUFFICES ASSUME NEW e \in dirs' PROVE Chain(e[1], e[2]) \subseteq dirs'
  OBVIOUS
<1> QED BY ChainClosed

\* What is in a directory is gone when the directory is.
LEMMA GoneIsVacant ==
  ASSUME Homed, NEW p \in Prefix, <<p, "root">> \notin dirs
  PROVE  Vacant(p)
<1> SUFFICES ASSUME NEW q \in Under[p], NEW x \in Paths, Exists(q, x) PROVE FALSE
  BY DEF Vacant
<1>1. q \in Prefix /\ <<q, DirOfPath(x)>> \in dirs
  BY UnderAssumption DEF Homed
<1>2. Chain(q, DirOfPath(x)) \subseteq dirs
  BY <1>1 DEF Homed
<1>3. <<p, "root">> \in Chain(q, DirOfPath(x))
  BY DEF Chain
<1> QED BY <1>2, <1>3

LEMMA HomedInit == Init => Homed
<1> SUFFICES ASSUME Init PROVE Homed
  OBVIOUS
<1>1. PICK L \in [Prefix -> SUBSET Legacy] :
        /\ file = [p \in Prefix |-> [x \in Paths |->
             IF x[2] = "flat" /\ x[1] \in L[p] THEN CHOOSE c \in Bodies[x[1]] : TRUE ELSE Nil]]
        /\ \E d \in {"data", "shard"} : dirs = UNION {Chain(p, d) : p \in {q \in Prefix : L[q] # {}}}
  BY DEF Init
<1>2. PICK d \in {"data", "shard"} : dirs = UNION {Chain(p, d) : p \in {q \in Prefix : L[q] # {}}}
  BY <1>1
<1>3. ASSUME NEW p \in Prefix, NEW x \in Paths, Exists(p, x) PROVE <<p, DirOfPath(x)>> \in dirs
  <2>1. x[2] = "flat" /\ x[1] \in L[p]
    BY <1>1, <1>3 DEF Exists
  <2>2. DirOfPath(x) = "data" /\ L[p] # {}
    BY <2>1 DEF DirOfPath
  <2>3. <<p, "data">> \in Chain(p, d)
    BY DEF Chain, Above
  <2> QED BY <1>2, <2>2, <2>3
<1>4. ASSUME NEW e \in dirs PROVE Chain(e[1], e[2]) \subseteq dirs
  <2>1. PICK p \in Prefix : L[p] # {} /\ e \in Chain(p, d)
    BY <1>2, <1>4
  <2>2. Chain(p, d) \subseteq dirs
    BY <1>2, <2>1
  <2> QED BY <2>1, <2>2, ChainClosed DEF Dirs
<1>5. \A s \in Op : tmp[s] = Nil
  BY DEF Init
<1> QED BY <1>3, <1>4, <1>5 DEF Homed

\* Files and temporary files only went away, and directories only came.
LEMMA HomedStays ==
  ASSUME Homed, dirs \subseteq dirs', \A e \in dirs' : Chain(e[1], e[2]) \subseteq dirs',
         \A p \in Prefix, x \in Paths : Exists(p, x)' => Exists(p, x),
         \A s \in Op : tmp'[s] # Nil => tmp[s] # Nil /\ rq'[s] = rq[s]
  PROVE  Homed'
BY DEF Homed

\* A directory is removed only when nothing is in it.
LEMMA RemoveDirHomed ==
  ASSUME Homed, NEW q \in Prefix, NEW d \in Dirs, RemoveDir(q, d), rq' = rq,
         dirs \subseteq Prefix \X Dirs
  PROVE  Homed'
<1>1. /\ dirs' = dirs \ {<<q, d>>} /\ file' = file /\ tmp' = tmp /\ Empty(q, d)
  BY DEF RemoveDir, temps
<1>2. ASSUME NEW p \in Prefix, NEW x \in Paths, Exists(p, x)' PROVE <<p, DirOfPath(x)>> \in dirs'
  <2>1. <<p, DirOfPath(x)>> \in dirs
    BY <1>1, <1>2 DEF Homed, Exists
  <2>2. <<p, DirOfPath(x)>> # <<q, d>>
    BY <1>1, <1>2 DEF Empty, Exists
  <2> QED BY <1>1, <2>1, <2>2
<1>3. ASSUME NEW s \in Op, tmp'[s] # Nil PROVE <<rq'[s].p, DirOf(rq'[s].o)>> \in dirs'
  BY <1>1, <1>3 DEF Homed, Empty, TempIn
<1>4. ASSUME NEW e \in dirs' PROVE Chain(e[1], e[2]) \subseteq dirs'
  <2>1. /\ e \in dirs /\ e # <<q, d>> /\ Chain(e[1], e[2]) \subseteq dirs
        /\ e[1] \in Prefix /\ e[2] \in Dirs /\ e = <<e[1], e[2]>>
    BY <1>1, <1>4 DEF Homed
  <2>2. <<q, d>> \notin Chain(e[1], e[2])
    <3>1. CASE e[1] = q
      <4>1. d \notin Above(e[2])
        BY <1>1, <2>1, <3>1 DEF Empty, Above, Dirs
      <4>2. e[2] # d
        BY <2>1, <3>1
      <4>3. d = "root" => e[2] = "root"
        BY <2>1, <4>1 DEF Above, Dirs
      <4> QED BY <4>1, <4>2, <4>3, <3>1 DEF Chain
    <3>2. CASE e[1] # q
      <4>1. <<e[1], "root">> \in dirs
        BY <2>1 DEF Chain, Above, Dirs
      <4>2. d = "root" => e[1] \notin Under[q]
        BY <1>1, <3>2, <4>1 DEF Empty
      <4> QED BY <3>2, <4>2 DEF Chain
    <3> QED BY <3>1, <3>2
  <2> QED BY <1>1, <2>1, <2>2
<1> QED BY <1>2, <1>3, <1>4 DEF Homed

LEMMA HomedCall ==
  ASSUME FsTypeInv, Homed, NEW s \in Op, Call(s)
  PROVE  Homed'
<1>1. /\ dirs \subseteq Prefix \X Dirs /\ SlotOK(s) /\ Shape /\ DirOf(rq[s].o) \in Dirs
      /\ \A e \in dirs : Chain(e[1], e[2]) \subseteq dirs
  BY DirTyped DEF FsTypeInv, FsInv, TypeOK, Dirs, Homed
<1>2. CASE Mkdir(s) \/ MkdirRepo(s)
  <2>1. rq[s].p \in Prefix
    BY <1>1, <1>2 DEF Mkdir, MkdirRepo, SlotOK, Routed
  <2>2. /\ file' = file /\ tmp' = tmp /\ rq' = rq
        /\ \E d \in Dirs : dirs' = dirs \cup Chain(rq[s].p, d)
    BY <1>1, <1>2 DEF Mkdir, MkdirRepo, temps, Goto, Return, Dirs
  <2>3. PICK d \in Dirs : dirs' = dirs \cup Chain(rq[s].p, d)
    BY <2>2
  <2>4. \A e \in dirs' : Chain(e[1], e[2]) \subseteq dirs'
    BY <1>1, <2>1, <2>3, ChainAdded
  <2> QED BY <2>2, <2>3, <2>4, HomedStays DEF Exists
<1>3. CASE CreateTemp(s)
  <2>1. /\ dirs' = dirs /\ file' = file /\ rq' = rq
        /\ \A t \in Op : tmp'[t] # tmp[t] => t = s /\ <<rq[s].p, DirOf(rq[s].o)>> \in dirs
    BY <1>1, <1>3 DEF CreateTemp, fs, Goto, Return, Shape
  <2> QED BY <2>1 DEF Homed, Exists
<1>4. CASE Copy(s) \/ Sync(s) \/ WriteFails(s)
  <2>1. /\ dirs' = dirs /\ file' = file /\ rq' = rq
        /\ \A t \in Op : tmp'[t] # Nil => tmp[t] # Nil
    BY <1>1, <1>4 DEF Copy, Sync, WriteFails, DropTemp, fs, Goto, Return, Shape
  <2> QED BY <1>1, <2>1, HomedStays DEF Exists
<1>5. CASE Rename(s)
  <2>1. PICK p, x : p = rq[s].p /\ x = Final(rq[s].o)
    OBVIOUS
  <2>2. /\ dirs' = dirs /\ rq' = rq /\ \A t \in Op : tmp'[t] # Nil => tmp[t] # Nil
        /\ file' = file \/ (file' = [file EXCEPT ![p][x] = tmp[s]] /\ tmp[s] # Nil)
    BY <1>1, <1>5, <2>1 DEF Rename, DropTemp, Return, Shape
  <2>3. CASE file' = file
    BY <1>1, <2>2, <2>3, HomedStays DEF Exists
  <2>4. CASE file' = [file EXCEPT ![p][x] = tmp[s]] /\ tmp[s] # Nil
    <3>1. DirOfPath(x) = DirOf(rq[s].o) /\ <<p, DirOfPath(x)>> \in dirs
      BY <2>1, <2>4 DEF Final, DirOfPath, Homed
    <3>2. \A q \in Prefix, y \in Paths : Exists(q, y)' => Exists(q, y) \/ (q = p /\ y = x)
      BY <1>1, <2>4 DEF Exists, Shape
    <3> QED BY <2>2, <3>1, <3>2 DEF Homed
  <2> QED BY <2>2, <2>3, <2>4
<1>6. CASE Remove(s) \/ RemoveFlat(s)
  <2>1. /\ dirs' = dirs /\ tmp' = tmp /\ rq' = rq
        /\ \A q \in Prefix, y \in Paths : Exists(q, y)' => Exists(q, y)
    BY <1>1, <1>6 DEF Remove, RemoveFlat, Unlink, fs, temps, Goto, Return, Exists, Shape
  <2> QED BY <1>1, <2>1, HomedStays
<1>7. CASE RemoveEntry(s)
  <2>1. /\ rq' = rq /\ rq[s].p \in Prefix
        /\ \E q \in Under[rq[s].p] :
             \/ \E x \in Paths : RemoveFile(q, x)
             \/ \E d \in Dirs : RemoveTemp(q, d) \/ RemoveDir(q, d)
    BY <1>1, <1>7 DEF RemoveEntry, SlotOK, Routed, Dirs
  <2>2. PICK q \in Prefix :
          \/ \E x \in Paths : RemoveFile(q, x)
          \/ \E d \in Dirs : RemoveTemp(q, d) \/ RemoveDir(q, d)
    BY <2>1, UnderAssumption
  <2>3. ASSUME NEW x \in Paths, RemoveFile(q, x) PROVE Homed'
    <3>1. /\ dirs' = dirs /\ tmp' = tmp
          /\ \A r \in Prefix, y \in Paths : Exists(r, y)' => Exists(r, y)
      BY <1>1, <2>3 DEF RemoveFile, Unlink, temps, Exists, Shape
    <3> QED BY <1>1, <2>1, <3>1, HomedStays
  <2>4. ASSUME NEW d \in Dirs, RemoveTemp(q, d) PROVE Homed'
    <3>1. dirs' = dirs /\ file' = file /\ \A t \in Op : tmp'[t] # Nil => tmp[t] # Nil
      BY <2>4 DEF RemoveTemp
    <3> QED BY <1>1, <2>1, <3>1, HomedStays DEF Exists
  <2>5. ASSUME NEW d \in Dirs, RemoveDir(q, d) PROVE Homed'
    BY <1>1, <2>1, <2>5, RemoveDirHomed
  <2> QED BY <2>2, <2>3, <2>4, <2>5
<1>8. CASE Finish(s)
  <2>1. /\ dirs' = dirs /\ file' = file /\ tmp' = tmp /\ tmp[s] = Nil
        /\ \A t \in Op : t # s => rq'[t] = rq[t]
    BY <1>1, <1>8 DEF Finish, fs, temps, SlotOK, Shape
  <2> QED BY <1>1, <2>1, HomedStays DEF Exists
<1>9. CASE \/ Validate(s) \/ Lstat(s) \/ LstatFlat(s) \/ Open(s) \/ OpenFlat(s) \/ WalkNames(s)
           \/ Walk(s) \/ WalkFlat(s) \/ StatRepo(s) \/ RemoveEnds(s)
  <2>1. dirs' = dirs /\ file' = file /\ tmp' = tmp /\ rq' = rq
    BY <1>9 DEF Validate, Lstat, LstatFlat, Seeing, Unseen, Open, OpenFlat, WalkNames, Walk,
                WalkFlat,
                StatRepo, RemoveEnds, fs, temps, Goto, Return
  <2> QED BY <1>1, <2>1, HomedStays DEF Exists
<1> QED BY <1>2, <1>3, <1>4, <1>5, <1>6, <1>7, <1>8, <1>9 DEF Call

\* Nothing is ever without the directories above it, through crashes and power failures too.
LEMMA HomedStep == FsTypeInv /\ Homed /\ [Next]_vars => Homed'
<1> SUFFICES ASSUME FsTypeInv, Homed, [Next]_vars PROVE Homed'
  OBVIOUS
<1>1. /\ dirs \subseteq Prefix \X Dirs /\ Shape /\ \A s \in Op : SlotOK(s)
      /\ \A e \in dirs : Chain(e[1], e[2]) \subseteq dirs
  BY DEF FsTypeInv, FsInv, TypeOK, Dirs, Homed
<1>2. CASE UNCHANGED vars
  BY <1>1, <1>2, HomedStays DEF vars, fs, temps, Exists
<1>3. ASSUME NEW s \in Op, NEW kind \in Kinds, NEW p \in Prefix, NEW o \in Targets(kind),
             NEW body \in Payloads(kind, o), Begin(s, kind, p, o, body)
      PROVE  Homed'
  <2>1. /\ dirs' = dirs /\ file' = file /\ tmp' = tmp /\ tmp[s] = Nil
        /\ \A t \in Op : t # s => rq'[t] = rq[t]
    BY <1>1, <1>3 DEF Begin, fs, temps, SlotOK, Shape
  <2> QED BY <1>1, <2>1, HomedStays DEF Exists
<1>4. CASE Crash
  <2>1. dirs' = dirs /\ file' = file /\ \A s \in Op : tmp'[s] = Nil
    BY <1>4 DEF Crash, Restart
  <2> QED BY <1>1, <2>1, HomedStays DEF Exists
<1>5. CASE PowerFailure
  <2>1. PICK C : /\ C = {f \in Prefix \X Paths : file'[f[1]][f[2]] # Nil}
                 /\ dirs' = dirs \cup UNION {Chain(c[1], DirOfPath(c[2])) : c \in C}
    BY <1>5 DEF PowerFailure
  <2>2. ASSUME NEW e \in dirs' PROVE Chain(e[1], e[2]) \subseteq dirs'
    <3>1. CASE e \in dirs
      BY <1>1, <2>1, <3>1
    <3>2. CASE e \notin dirs
      <4>1. PICK c \in C : e \in Chain(c[1], DirOfPath(c[2]))
        BY <2>1, <3>2
      <4>2. c[1] \in Prefix /\ DirOfPath(c[2]) \in Dirs
        BY <2>1, DirTyped DEF Dirs
      <4>3. Chain(e[1], e[2]) \subseteq Chain(c[1], DirOfPath(c[2]))
        BY <4>1, <4>2, ChainClosed
      <4> QED BY <2>1, <4>3
    <3> QED BY <3>1, <3>2
  <2>3. ASSUME NEW p \in Prefix, NEW x \in Paths, Exists(p, x)' PROVE <<p, DirOfPath(x)>> \in dirs'
    <3>1. <<p, x>> \in C
      BY <2>1, <2>3 DEF Exists
    <3>2. <<p, DirOfPath(x)>> \in Chain(p, DirOfPath(x))
      BY <2>3, DirTyped, ChainHolds DEF Dirs
    <3> QED BY <2>1, <3>1, <3>2
  <2>4. \A s \in Op : tmp'[s] = Nil
    BY <1>5 DEF PowerFailure, Restart
  <2> QED BY <2>2, <2>3, <2>4 DEF Homed
<1>6. ASSUME NEW p \in Prefix, NEW x \in Paths, WriteBack(p, x) PROVE Homed'
  BY <1>1, <1>6, HomedStays DEF WriteBack, temps, Exists
<1> QED BY <1>2, <1>3, <1>4, <1>5, <1>6, HomedCall DEF Next, Step

-----------------------------------------------------------------------------
(***************************************************************************)
(* What the calls answer.  A call that looks at two paths one after the    *)
(* other is right because a blob that is at its flat path cannot come to   *)
(* be at the other one before it has gone from there.                      *)
(***************************************************************************)
\* Which requests are at which system call.
OpKinds(step) ==
  CASE step \in {"lstat", "lstatFlat"} -> {"SaveBlob"}
    [] step \in {"mkdir", "createTemp", "copy", "sync", "rename"} -> {"SaveBlob", "SaveConfig"}
    [] step \in {"remove", "removeFlat"} -> {"DeleteBlob"}
    [] step \in {"open", "openFlat"} -> {"Read"}
    [] step \in {"walkNames", "walk", "walkFlat"} -> {"ListBlobs"}
    [] step \in {"mkdirRepo", "mkdirTypes", "mkdirShards"} -> {"CreateRepo"}
    [] step \in {"statRepo", "removeAll"} -> {"DeleteRepo"}
    [] OTHER -> Kinds

\* The call will find the object at its flat path, where its only copy is, or will not
\* find it there and has met an instant without it.
OnlyFlat(p, o) == o \in Sharded /\ Exists(p, Flat(o)) /\ ~Exists(p, Final(o))
Missed(s) ==
  \/ OnlyFlat(rq[s].p, rq[s].o)
  \/ NotFoundFlat(rq[s].p, rq[s].o) /\ Nil \in hist[s]

\* What a call in flight has seen.
Seen(s) ==
  /\ pc[s] # "idle" => rq[s].kind \in OpKinds(pc[s])
  /\ pc[s] \in {"lstatFlat", "openFlat", "removeFlat"} => rq[s].o \in Sharded
  /\ pc[s] \notin {"idle", "done"} /\ rq[s].o # Nil => Value(rq[s].p, rq[s].o) \in hist[s]
  /\ pc[s] \in {"openFlat", "removeFlat"} => Missed(s)
  /\ pc[s] \in {"walk", "walkFlat"} /\ "name" \in found[s] => rq[s].o \in Sharded
  /\ pc[s] = "walk" =>
       "blob" \notin found[s] /\ ("name" \in found[s] \/ NotFoundFlat(rq[s].p, rq[s].o))
  /\ pc[s] = "walkFlat" =>
       IF "blob" \in found[s] THEN hist[s] \ {Nil} # {}
       ELSE Nil \in hist[s] \/ ("name" \in found[s] /\ Missed(s))

\* The inductive invariant behind AnswersJustified, on top of FsTypeInv, CopyInv
\* and Homed.
AnswerInv == \A s \in Op : Seen(s) /\ Justified(s)

\* Said of a step: the request of slot s is in flight before it and has not gone after it.
InFlight(s) ==
  /\ FsTypeInv /\ CopyInv /\ Homed /\ Next /\ Seen(s)
  /\ pc[s] \notin {"idle", "done"} /\ pc'[s] # "idle" /\ rq'[s] = rq[s]

\* Where the value of an object is.
LEMMA OneValue ==
  ASSUME NEW p, NEW o
  PROVE  /\ Exists(p, Final(o)) => Value(p, o) = file[p][Final(o)] /\ Value(p, o) # Nil
         /\ o \in Sharded /\ Exists(p, Flat(o)) => Value(p, o) # Nil
         /\ OnlyFlat(p, o) => Value(p, o) = file[p][Flat(o)]
         /\ ~Exists(p, Final(o)) /\ NotFoundFlat(p, o) => Value(p, o) = Nil
BY DEF Value, NotFoundFlat, Exists, OnlyFlat

\* While a blob is at its flat path, nothing comes to be at the other one; when it has
\* gone from there, there is nothing.
LEMMA FlatGoes ==
  ASSUME FsInv, CopyInv, [Next]_vars, ~PowerFailure, NEW p \in Prefix, NEW o \in Sharded,
         OnlyFlat(p, o)
  PROVE  OnlyFlat(p, o)' \/ Value(p, o)' = Nil
<1>1. /\ Shape /\ Final(o) \in Paths /\ Flat(o) \in Paths
      /\ ~Exists(p, Final(o)) /\ Exists(p, Flat(o))
  BY PathsFacts, ObjectAssumption DEF FsInv, Object, OnlyFlat
<1>2. \A q : Flat(o) # Final(q)
  BY DEF Flat, Final
<1>3. CASE file' = file
  BY <1>3 DEF OnlyFlat, Exists
<1>4. ASSUME NEW q \in Prefix, NEW x \in Paths, Vanishes(q, x) PROVE ~Exists(p, Final(o))'
  BY <1>1, <1>4 DEF Vanishes, Exists, Shape
<1>5. ASSUME NEW s \in Op, Appears(s) PROVE ~Exists(p, Final(o))'
  <2>1. rq[s].p # p \/ Final(rq[s].o) # Final(o)
    BY <1>1, <1>5 DEF Appears, CopyInv, FlatGone, Final
  <2> QED BY <1>1, <1>5, <2>1 DEF Appears, Exists, Shape
<1>6. CASE ~Exists(p, Final(o))'
  BY <1>6 DEF OnlyFlat, Value, NotFoundFlat, Exists
<1> QED BY <1>3, <1>4, <1>5, <1>6, FileSteps

\* What a call in flight relies on while it and the others make their steps.
LEMMA Flying ==
  ASSUME NEW s \in Op, InFlight(s)
  PROVE  /\ Routed(rq[s]) /\ rq[s].p \in Prefix /\ rq[s].kind \in OpKinds(pc[s])
         /\ hist[s] \subseteq hist'[s]
         /\ rq[s].o # Nil => /\ Value(rq[s].p, rq[s].o) \in hist[s]
                             /\ Value(rq[s].p, rq[s].o)' \in hist'[s]
         /\ Missed(s) => Missed(s)'
         /\ NotFoundFlat(rq[s].p, rq[s].o) => NotFoundFlat(rq[s].p, rq[s].o)'
<1>0. ~PowerFailure
  BY DEF InFlight, PowerFailure, Restart
<1>1. Routed(rq[s]) /\ FsInv
  BY DEF InFlight, FsTypeInv, FsInv, SlotOK
<1>2. rq[s].p \in Prefix /\ rq[s].kind \in OpKinds(pc[s])
  BY <1>1 DEF Routed, InFlight, Seen
<1>3. hist'[s] = hist[s] \cup Watched(rq[s])'
  BY DEF InFlight, Next, Observe
<1>4. rq[s].o # Nil => Watched(rq[s])' = {Value(rq[s].p, rq[s].o)'}
  BY DEF Watched, InFlight
<1>5. rq[s].o # Nil => /\ Value(rq[s].p, rq[s].o) \in hist[s]
                       /\ Value(rq[s].p, rq[s].o)' \in hist'[s]
  BY <1>3, <1>4 DEF InFlight, Seen
<1>6. NotFoundFlat(rq[s].p, rq[s].o) => NotFoundFlat(rq[s].p, rq[s].o)'
  <2>1. \A q \in Prefix, r \in Sharded : ~Exists(q, Flat(r)) => file'[q][Flat(r)] = Nil
    BY <1>0, <1>1, FlatsVanish DEF InFlight, Exists
  <2> QED BY <1>2, <2>1 DEF NotFoundFlat, Exists, InFlight
<1>7. Missed(s) => Missed(s)'
  <2>1. CASE NotFoundFlat(rq[s].p, rq[s].o) /\ Nil \in hist[s]
    BY <1>3, <1>6, <2>1 DEF Missed
  <2>2. CASE OnlyFlat(rq[s].p, rq[s].o)
    <3>1. PICK p \in Prefix, o \in Sharded : p = rq[s].p /\ o = rq[s].o
      BY <1>2, <2>2 DEF OnlyFlat
    <3>2. rq'[s] = rq[s] /\ CopyInv /\ Next /\ rq[s].o # Nil
      BY <3>1, NilAssumption, ObjectAssumption DEF Object, InFlight
    <3>3. CASE OnlyFlat(p, o)'
      BY <3>1, <3>2, <3>3 DEF Missed, OnlyFlat, Exists
    <3>4. CASE Value(p, o)' = Nil
      <4>1. Value(rq[s].p, rq[s].o)' = Value(p, o)'
        BY <3>1, <3>2 DEF Value, Exists, NotFoundFlat
      <4>2. NotFoundFlat(rq[s].p, rq[s].o)'
        BY <3>1, <3>2, <3>4 DEF Value, Exists, NotFoundFlat
      <4> QED BY <1>5, <3>2, <3>4, <4>1, <4>2 DEF Missed
    <3> QED BY <1>0, <1>1, <2>2, <3>1, <3>2, <3>3, <3>4, FlatGoes
  <2> QED BY <2>1, <2>2 DEF Missed
<1> QED BY <1>1, <1>2, <1>3, <1>5, <1>6, <1>7

\* A call that another one leaves where it is keeps what it has seen.
LEMMA OtherSeen ==
  ASSUME FsTypeInv, CopyInv, Homed, Next, NEW s \in Op, Seen(s), Justified(s),
         rq'[s] = rq[s], pc'[s] = pc[s], found'[s] = found[s], ans'[s] = ans[s]
  PROVE  Seen(s)' /\ Justified(s)'
<1>1. CASE pc[s] = "idle"
  BY <1>1 DEF Seen, Justified
<1>2. CASE pc[s] = "done"
  <2>1. hist'[s] = hist[s]
    BY <1>2 DEF Next, Observe
  <2> QED BY <1>2, <2>1 DEF Seen, Justified
<1>3. CASE pc[s] \notin {"idle", "done"}
  <2>1. InFlight(s)
    BY <1>3 DEF InFlight
  <2>2. Seen(s)'
    BY <1>3, <2>1, Flying DEF Seen
  <2> QED BY <1>3, <2>2 DEF Justified
<1> QED BY <1>1, <1>2, <1>3

\* A call that goes on where it needs to know nothing more, or ends in an error.
LEMMA Onward ==
  ASSUME NEW s \in Op, InFlight(s), rq[s].kind \in OpKinds(pc'[s]),
         pc'[s] \notin {"lstatFlat", "openFlat", "removeFlat", "walk", "walkFlat"},
         pc'[s] = "done" =>
           \/ ans'[s].err \in {"error", "ErrRepoNotFound"}
           \/ rq[s].kind = "CreateRepo" /\ ans'[s].err # "ErrNotFound"
  PROVE  Seen(s)' /\ Justified(s)'
<1>1. rq'[s] = rq[s]
  BY DEF InFlight
<1>2. Seen(s)'
  BY <1>1, Flying DEF Seen
<1> QED BY <1>1, <1>2 DEF Justified

\* The slots are there.
LEMMA Slots ==
  ASSUME FsTypeInv
  PROVE  /\ DOMAIN pc = Op /\ DOMAIN rq = Op /\ DOMAIN ans = Op /\ DOMAIN found = Op
         /\ FsInv /\ \A s \in Op : SlotOK(s)
BY DEF FsTypeInv, TypeOK, FsInv, Shape

\* The request of a call that does not end the work of its slot.
LEMMA CallFlies ==
  ASSUME FsTypeInv, CopyInv, Homed, Next, NEW s \in Op, Seen(s), Call(s), ~Finish(s)
  PROVE  InFlight(s)
<1>1. rq' = rq /\ pc[s] \notin {"idle", "done"}
  BY DEF Call, Validate, Lstat, LstatFlat, Seeing, Unseen, Mkdir, CreateTemp, Copy, Sync,
         WriteFails, Rename,
         Remove, RemoveFlat, Open, OpenFlat, WalkNames, Walk, WalkFlat, MkdirRepo, StatRepo,
         RemoveEntry, RemoveEnds, Goto, Return
<1>2. pc'[s] # "idle"
  <2>1. CASE Validate(s)
    <3>1. rq[s].kind \in {"SaveBlob", "SaveConfig", "DeleteBlob", "Read", "ListBlobs", "DeleteRepo"}
      BY <2>1, Slots DEF Validate, SlotOK, Routed, Kinds
    <3>2. pc'[s] \in {"done", "lstat", "mkdir", "remove", "open", "walkNames", "statRepo"}
      BY <2>1, <3>1, Slots DEF Validate, Goto, Return
    <3> QED BY <3>2
  <2>2. CASE ~Validate(s)
    BY <1>1, <2>2, Slots
    DEF Call, Lstat, LstatFlat, Seeing, Unseen, Mkdir, CreateTemp, Copy, Sync, WriteFails, Rename,
        Remove, RemoveFlat, Open, OpenFlat, WalkNames, Walk, WalkFlat, MkdirRepo, StatRepo,
        RemoveEntry, RemoveEnds, Goto, Return
  <2> QED BY <2>1, <2>2
<1> QED BY <1>1, <1>2 DEF InFlight

\* The calls that decide nothing about the object.
LEMMA QuietSeen ==
  ASSUME NEW s \in Op, InFlight(s),
         \/ Validate(s) \/ Mkdir(s) \/ CreateTemp(s) \/ Copy(s) \/ Sync(s) \/ WriteFails(s)
         \/ MkdirRepo(s) \/ StatRepo(s) \/ RemoveEntry(s)
  PROVE  Seen(s)' /\ Justified(s)'
<1>1. /\ Routed(rq[s]) /\ rq[s].kind \in OpKinds(pc[s]) /\ SlotOK(s)
      /\ DOMAIN pc = Op /\ DOMAIN ans = Op
  BY Flying, Slots DEF InFlight
<1>2. CASE Validate(s)
  <2>1. pc[s] = "validate" /\ rq[s].kind \in Kinds \ {"CreateRepo"}
    BY <1>1, <1>2 DEF Validate, SlotOK, Routed
  <2>2. CASE Return(s, "error", Nil)
    BY <1>1, <2>1, <2>2, Onward DEF Return, OpKinds
  <2>3. CASE ~Return(s, "error", Nil)
    <3>1. \/ rq[s].kind = "SaveBlob" /\ pc'[s] = "lstat"
          \/ rq[s].kind = "SaveConfig" /\ pc'[s] = "mkdir"
          \/ rq[s].kind = "DeleteBlob" /\ pc'[s] = "remove"
          \/ rq[s].kind = "Read" /\ pc'[s] = "open"
          \/ rq[s].kind = "ListBlobs" /\ pc'[s] = "walkNames"
          \/ rq[s].kind = "DeleteRepo" /\ pc'[s] = "statRepo"
      BY <1>1, <1>2, <2>1, <2>3 DEF Validate, Goto, Kinds
    <3> QED BY <3>1, Onward DEF OpKinds
  <2> QED BY <2>2, <2>3
<1>3. CASE Mkdir(s) \/ CreateTemp(s) \/ Copy(s) \/ Sync(s) \/ WriteFails(s)
  <2>1. pc[s] \in {"mkdir", "createTemp", "copy", "sync", "rename"}
        /\ rq[s].kind \in {"SaveBlob", "SaveConfig"}
    BY <1>1, <1>3 DEF Mkdir, CreateTemp, Copy, Sync, WriteFails, OpKinds
  <2>2. \/ pc'[s] \in {"createTemp", "copy", "sync", "rename"}
        \/ pc'[s] = "done" /\ ans'[s].err = "error"
    BY <1>1, <1>3 DEF Mkdir, CreateTemp, Copy, Sync, WriteFails, Goto, Return
  <2> QED BY <2>1, <2>2, Onward DEF OpKinds, Kinds
<1>4. CASE MkdirRepo(s)
  <2>1. pc[s] \in {"mkdirRepo", "mkdirTypes", "mkdirShards"} /\ rq[s].kind = "CreateRepo"
    BY <1>1, <1>4 DEF MkdirRepo, OpKinds
  <2>2. \/ pc'[s] \in {"mkdirTypes", "mkdirShards"}
        \/ pc'[s] = "done" /\ ans'[s].err = "ok"
    BY <1>1, <1>4 DEF MkdirRepo, Goto, Return
  <2> QED BY <2>1, <2>2, Onward DEF OpKinds, Kinds
<1>5. CASE StatRepo(s) \/ RemoveEntry(s)
  <2>1. pc[s] \in {"statRepo", "removeAll"} /\ rq[s].kind = "DeleteRepo"
    BY <1>1, <1>5 DEF StatRepo, RemoveEntry, OpKinds
  <2>2. \/ pc'[s] = "removeAll"
        \/ pc'[s] = "done" /\ ans'[s].err = "ErrRepoNotFound"
    BY <1>1, <1>5 DEF StatRepo, RemoveEntry, Goto, Return
  <2> QED BY <2>1, <2>2, Onward DEF OpKinds, Kinds
<1> QED BY <1>2, <1>3, <1>4, <1>5

\* DeleteRepo: with the directory has gone all that was in it.
LEMMA DropSeen ==
  ASSUME NEW s \in Op, InFlight(s), RemoveEnds(s)
  PROVE  Seen(s)' /\ Justified(s)'
<1>1. /\ Routed(rq[s]) /\ rq[s].kind = "DeleteRepo" /\ rq[s].p \in Prefix /\ rq'[s] = rq[s]
      /\ DOMAIN pc = Op /\ DOMAIN ans = Op /\ Homed /\ file' = file
  BY Flying, Slots DEF InFlight, RemoveEnds, OpKinds, fs
<1>2. pc'[s] = "done"
  BY <1>1 DEF RemoveEnds, Return
<1>3. CASE <<rq[s].p, "root">> \in dirs
  <2>1. ans'[s].err = "error"
    BY <1>1, <1>3 DEF RemoveEnds, Return
  <2> QED BY <1>1, <1>2, <2>1, Onward DEF OpKinds, Kinds
<1>4. CASE <<rq[s].p, "root">> \notin dirs
  <2>1. ans'[s].err = "ok"
    BY <1>1, <1>4 DEF RemoveEnds, Return
  <2>2. Vacant(rq[s].p)
    BY <1>1, <1>4, GoneIsVacant
  <2>3. Watched(rq[s])' = {Nil}
    <3>1. rq[s].o = Nil
      BY <1>1 DEF Routed, Targets
    <3> QED BY <1>1, <2>2, <3>1 DEF Watched, Vacant, Exists
  <2>4. Nil \in hist'[s]
    BY <2>3 DEF InFlight, Next, Observe
  <2>5. Seen(s)'
    BY <1>1, <1>2, Flying DEF Seen, OpKinds, Kinds
  <2> QED BY <1>1, <1>2, <2>1, <2>4, <2>5 DEF Justified
<1> QED BY <1>3, <1>4

\* SaveBlob's looks: what they find was stored.
LEMMA LooksSeen ==
  ASSUME NEW s \in Op, InFlight(s), Lstat(s) \/ LstatFlat(s)
  PROVE  Seen(s)' /\ Justified(s)'
<1>1. /\ Routed(rq[s]) /\ rq[s].kind = "SaveBlob" /\ rq[s].p \in Prefix /\ rq'[s] = rq[s]
      /\ DOMAIN pc = Op /\ DOMAIN ans = Op
  BY Flying, Slots DEF InFlight, Lstat, LstatFlat, Seeing, Unseen, OpKinds
<1>2. rq[s].o \in Object /\ rq[s].o # Nil
  BY <1>1, NilAssumption DEF Routed, Targets, Object
<1>3. CASE pc'[s] = "mkdir"
  BY <1>1, <1>3, Onward DEF OpKinds
<1>4. CASE pc'[s] = "lstatFlat"
  <2>1. rq[s].o \in Sharded
    BY <1>1, <1>4 DEF Lstat, LstatFlat, Seeing, Unseen, Goto, Return
  <2>2. Seen(s)'
    BY <1>1, <1>4, <2>1, Flying DEF Seen, OpKinds
  <2> QED BY <1>4, <2>2 DEF Justified
<1>5. CASE pc'[s] = "done"
  <2>1. \/ Exists(rq[s].p, Final(rq[s].o))
        \/ rq[s].o \in Sharded /\ Exists(rq[s].p, Flat(rq[s].o))
    BY <1>1, <1>5 DEF Lstat, LstatFlat, Seeing, Unseen, Goto, Return, InFlight, Seen
  <2>2. Value(rq[s].p, rq[s].o) # Nil
    BY <2>1, OneValue
  <2>3. hist'[s] \ {Nil} # {}
    BY <1>2, <2>2, Flying
  <2>4. ans'[s].err = "ok"
    BY <1>1, <1>5 DEF Lstat, LstatFlat, Seeing, Unseen, Goto, Return
  <2>5. Seen(s)'
    BY <1>1, <1>5 DEF Seen, OpKinds, Kinds
  <2> QED BY <1>1, <2>3, <2>4, <2>5 DEF Justified
<1>6. pc'[s] \in {"mkdir", "lstatFlat", "done"}
  BY <1>1 DEF Lstat, LstatFlat, Seeing, Unseen, Goto, Return
<1> QED BY <1>3, <1>4, <1>5, <1>6

\* The rename: what it has put in place is stored now.
LEMMA RenameSeen ==
  ASSUME NEW s \in Op, InFlight(s), Rename(s)
  PROVE  Seen(s)' /\ Justified(s)'
<1>1. /\ Routed(rq[s]) /\ rq[s].kind \in {"SaveBlob", "SaveConfig"} /\ rq'[s] = rq[s]
      /\ DOMAIN pc = Op /\ DOMAIN ans = Op /\ SlotOK(s) /\ FsInv /\ pc[s] = "rename"
  BY Flying, Slots DEF InFlight, Rename, OpKinds
<1>2. rq[s].p \in Prefix /\ rq[s].o \in Object /\ rq[s].body \in Bodies[rq[s].o] /\ rq[s].o # Nil
  BY <1>1, SaveRouted, NilAssumption
<1>3. pc'[s] = "done"
  BY <1>1 DEF Rename, Return
<1>4. CASE tmp[s] = Nil
  <2>1. ans'[s].err = "error"
    BY <1>1, <1>4 DEF Rename, Return
  <2> QED BY <1>1, <1>3, <2>1, Onward DEF OpKinds, Kinds
<1>5. CASE tmp[s] # Nil
  <2>1. tmp[s] = rq[s].body /\ rq[s].body # Nil
    BY <1>1, <1>5 DEF SlotOK
  <2>2. file' = [file EXCEPT ![rq[s].p][Final(rq[s].o)] = rq[s].body]
    BY <1>5, <2>1 DEF Rename
  <2>3. file'[rq[s].p][Final(rq[s].o)] = rq[s].body
    BY <1>1, <1>2, <2>2, PathsFacts DEF FsInv, Shape
  <2>4. Value(rq[s].p, rq[s].o)' = rq[s].body
    BY <1>1, <2>1, <2>3 DEF Value, Exists
  <2>5. rq[s].body \in hist'[s]
    BY <1>2, <2>4, Flying
  <2>6. ans'[s].err = "ok"
    BY <1>1, <1>5 DEF Rename, Return
  <2>7. Seen(s)'
    BY <1>1, <1>3 DEF Seen, OpKinds, Kinds
  <2> QED BY <1>1, <2>1, <2>5, <2>6, <2>7 DEF Justified
<1> QED BY <1>4, <1>5
\* A file that is the only copy of its object goes away.
LEMMA CopyGoes ==
  ASSUME Shape, NEW p \in Prefix, NEW o \in Object,
         NEW x \in {Final(o), Flat(o)}, x = Flat(o) => o \in Sharded,
         o \in Sharded => ~(Exists(p, Final(o)) /\ Exists(p, Flat(o))),
         Exists(p, x), file' = [file EXCEPT ![p][x] = Nil]
  PROVE  Value(p, o)' = Nil
<1>1. Final(o) \in Paths /\ (o \in Sharded => Flat(o) \in Paths) /\ Final(o) # Flat(o)
  BY PathsFacts DEF Final, Flat
<1>2. file'[p][Final(o)] = Nil /\ (o \in Sharded => file'[p][Flat(o)] = Nil)
  BY <1>1 DEF Exists, Shape
<1> QED BY <1>2 DEF Value, NotFoundFlat, Exists

\* DeleteBlob: what it took away was stored and is not any more.
LEMMA RemovesSeen ==
  ASSUME NEW s \in Op, InFlight(s), Remove(s) \/ RemoveFlat(s)
  PROVE  Seen(s)' /\ Justified(s)'
<1>1. /\ Routed(rq[s]) /\ rq[s].kind = "DeleteBlob" /\ rq[s].p \in Prefix /\ rq'[s] = rq[s]
      /\ DOMAIN pc = Op /\ DOMAIN ans = Op /\ CopyInv /\ Shape
  BY Flying, Slots DEF InFlight, Remove, RemoveFlat, OpKinds, FsInv
<1>2. rq[s].o \in Object /\ rq[s].o # Nil
  BY <1>1, NilAssumption DEF Routed, Targets, Object
<1>3. RemoveFlat(s) => rq[s].o \in Sharded /\ Missed(s)
  BY DEF RemoveFlat, InFlight, Seen
<1>4. ASSUME NEW x \in {Final(rq[s].o), Flat(rq[s].o)}, x = Flat(rq[s].o) => rq[s].o \in Sharded,
             Exists(rq[s].p, x), Unlink(rq[s].p, x), Return(s, "ok", Nil)
      PROVE  Seen(s)' /\ Justified(s)'
  <2>1. Value(rq[s].p, rq[s].o) # Nil
    BY <1>4, OneValue
  <2>2. ~PowerFails => Value(rq[s].p, rq[s].o)' = Nil
    <3> SUFFICES ASSUME ~PowerFails PROVE Value(rq[s].p, rq[s].o)' = Nil
      OBVIOUS
    <3>1. PICK p \in Prefix, o \in Object : p = rq[s].p /\ o = rq[s].o
      BY <1>1, <1>2
    <3>2. Value(p, o)' = Nil
      <4>1. o \in Sharded => ~(Exists(p, Final(o)) /\ Exists(p, Flat(o)))
        BY <1>1 DEF CopyInv, OneCopy
      <4> QED BY <1>1, <1>4, <3>1, <4>1, CopyGoes DEF Unlink
    <3> QED BY <1>1, <3>1, <3>2 DEF Value, Exists, NotFoundFlat
  <2>3. hist'[s] \ {Nil} # {} /\ (Nil \in hist'[s] \/ PowerFails)
    BY <1>2, <2>1, <2>2, Flying, PowerAssumption
  <2>4. pc'[s] = "done" /\ ans'[s].err = "ok"
    BY <1>1, <1>4 DEF Return
  <2>5. Seen(s)'
    BY <1>1, <2>4 DEF Seen, OpKinds, Kinds
  <2> QED BY <1>1, <2>3, <2>4, <2>5 DEF Justified
<1>5. ASSUME Nil \in hist'[s], Return(s, "ErrNotFound", Nil) PROVE Seen(s)' /\ Justified(s)'
  <2>1. pc'[s] = "done" /\ ans'[s].err = "ErrNotFound"
    BY <1>1, <1>5 DEF Return
  <2>2. Seen(s)'
    BY <1>1, <2>1 DEF Seen, OpKinds, Kinds
  <2> QED BY <1>1, <1>5, <2>1, <2>2 DEF Justified
<1>6. CASE Remove(s) /\ ~Exists(rq[s].p, Final(rq[s].o))
  <2>1. Missed(s)
    <3>1. CASE NotFoundFlat(rq[s].p, rq[s].o)
      BY <1>1, <1>2, <1>6, <3>1, OneValue, Flying DEF Missed
    <3>2. CASE ~NotFoundFlat(rq[s].p, rq[s].o)
      BY <1>6, <3>2 DEF NotFoundFlat, Missed, OnlyFlat
    <3> QED BY <3>1, <3>2
  <2>2. CASE rq[s].o \in Sharded
    <3>1. pc'[s] = "removeFlat"
      BY <1>1, <1>6, <2>2 DEF Remove, Goto
    <3>2. Seen(s)'
      BY <1>1, <2>1, <2>2, <3>1, Flying DEF Seen, OpKinds
    <3> QED BY <3>1, <3>2 DEF Justified
  <2>3. CASE rq[s].o \notin Sharded
    <3>1. Nil \in hist'[s]
      BY <2>1, <2>3, Flying DEF Missed, OnlyFlat
    <3> QED BY <1>5, <1>6, <2>3, <3>1 DEF Remove
  <2> QED BY <2>2, <2>3
<1>7. CASE RemoveFlat(s) /\ ~Exists(rq[s].p, Flat(rq[s].o))
  <2>1. Nil \in hist'[s]
    BY <1>3, <1>7, Flying DEF Missed, OnlyFlat
  <2> QED BY <1>5, <1>7, <2>1 DEF RemoveFlat
<1>8. CASE Remove(s) /\ Exists(rq[s].p, Final(rq[s].o))
  <2>1. Final(rq[s].o) # Flat(rq[s].o)
    BY DEF Final, Flat
  <2> QED BY <1>4, <1>8, <2>1 DEF Remove
<1>9. CASE RemoveFlat(s) /\ Exists(rq[s].p, Flat(rq[s].o))
  BY <1>3, <1>4, <1>9 DEF RemoveFlat
<1> QED BY <1>6, <1>7, <1>8, <1>9

\* Reads: the file that is opened holds what is stored at that instant.
LEMMA OpensSeen ==
  ASSUME NEW s \in Op, InFlight(s), Open(s) \/ OpenFlat(s)
  PROVE  Seen(s)' /\ Justified(s)'
<1>1. /\ Routed(rq[s]) /\ rq[s].kind = "Read" /\ rq[s].p \in Prefix /\ rq'[s] = rq[s]
      /\ DOMAIN pc = Op /\ DOMAIN ans = Op /\ CopyInv /\ file' = file
  BY Flying, Slots DEF InFlight, Open, OpenFlat, OpKinds, fs
<1>2. rq[s].o \in Object /\ rq[s].o # Nil
  BY <1>1, NilAssumption DEF Routed, Targets
<1>3. OpenFlat(s) => rq[s].o \in Sharded /\ Missed(s)
  BY DEF OpenFlat, InFlight, Seen
<1>4. ASSUME NEW x \in {Final(rq[s].o), Flat(rq[s].o)}, Exists(rq[s].p, x),
             file[rq[s].p][x] \in hist'[s], Return(s, "ok", file[rq[s].p][x])
      PROVE  Seen(s)' /\ Justified(s)'
  <2>2. file[rq[s].p][x] \in hist'[s] \ {Nil}
    BY <1>4 DEF Exists
  <2>3. pc'[s] = "done" /\ ans'[s].err = "ok" /\ ans'[s].value = file[rq[s].p][x]
    BY <1>1, <1>4 DEF Return
  <2>4. Seen(s)'
    BY <1>1, <2>3 DEF Seen, OpKinds, Kinds
  <2> QED BY <1>1, <2>2, <2>3, <2>4 DEF Justified
<1>5. ASSUME Nil \in hist'[s], Return(s, "ErrNotFound", Nil) PROVE Seen(s)' /\ Justified(s)'
  <2>1. pc'[s] = "done" /\ ans'[s].err = "ErrNotFound"
    BY <1>1, <1>5 DEF Return
  <2>2. Seen(s)'
    BY <1>1, <2>1 DEF Seen, OpKinds, Kinds
  <2> QED BY <1>1, <1>5, <2>1, <2>2 DEF Justified
<1>6. CASE Open(s) /\ ~Exists(rq[s].p, Final(rq[s].o))
  <2>1. Missed(s)
    <3>1. CASE NotFoundFlat(rq[s].p, rq[s].o)
      BY <1>1, <1>2, <1>6, <3>1, OneValue, Flying DEF Missed
    <3>2. CASE ~NotFoundFlat(rq[s].p, rq[s].o)
      BY <1>6, <3>2 DEF NotFoundFlat, Missed, OnlyFlat
    <3> QED BY <3>1, <3>2
  <2>2. CASE rq[s].o \in Sharded
    <3>1. pc'[s] = "openFlat"
      BY <1>1, <1>6, <2>2 DEF Open, Goto
    <3>2. Seen(s)'
      BY <1>1, <2>1, <2>2, <3>1, Flying DEF Seen, OpKinds
    <3> QED BY <3>1, <3>2 DEF Justified
  <2>3. CASE rq[s].o \notin Sharded
    <3>1. Nil \in hist'[s]
      BY <2>1, <2>3, Flying DEF Missed, OnlyFlat
    <3> QED BY <1>5, <1>6, <2>3, <3>1 DEF Open
  <2> QED BY <2>2, <2>3
<1>7. CASE OpenFlat(s) /\ ~Exists(rq[s].p, Flat(rq[s].o))
  <2>1. Nil \in hist'[s]
    BY <1>3, <1>7, Flying DEF Missed, OnlyFlat
  <2> QED BY <1>5, <1>7, <2>1 DEF OpenFlat
<1>8. CASE Open(s) /\ Exists(rq[s].p, Final(rq[s].o))
  <2>1. file[rq[s].p][Final(rq[s].o)] \in hist'[s]
    BY <1>2, <1>8, OneValue, Flying
  <2> QED BY <1>4, <1>8, <2>1 DEF Open
<1>9. CASE OpenFlat(s) /\ Exists(rq[s].p, Flat(rq[s].o))
  <2>1. file[rq[s].p][Flat(rq[s].o)] \in hist'[s]
    <3>1. OnlyFlat(rq[s].p, rq[s].o)
      BY <1>3, <1>9 DEF Missed, NotFoundFlat
    <3> QED BY <1>2, <3>1, OneValue, Flying
  <2> QED BY <1>4, <1>9, <2>1 DEF OpenFlat
<1> QED BY <1>6, <1>7, <1>8, <1>9

\* A listing: the flat path, of which it has the name, is visited after the other one.
LEMMA WalksSeen ==
  ASSUME NEW s \in Op, InFlight(s), WalkNames(s) \/ Walk(s) \/ WalkFlat(s)
  PROVE  Seen(s)' /\ Justified(s)'
<1>1. /\ Routed(rq[s]) /\ rq[s].kind = "ListBlobs" /\ rq[s].p \in Prefix /\ rq'[s] = rq[s]
      /\ DOMAIN pc = Op /\ DOMAIN ans = Op /\ DOMAIN found = Op /\ CopyInv /\ file' = file
  BY Flying, Slots DEF InFlight, WalkNames, Walk, WalkFlat, OpKinds, fs
<1>2. rq[s].o \in Object /\ rq[s].o # Nil
  BY <1>1, NilAssumption DEF Routed, Targets, Object
<1>3. CASE WalkNames(s)
  <2>1. /\ pc'[s] = "walk" /\ "blob" \notin found'[s]
        /\ "name" \in found'[s] \/ NotFoundFlat(rq[s].p, rq[s].o)
        /\ "name" \in found'[s] => rq[s].o \in Sharded
    BY <1>1, <1>3 DEF WalkNames, Goto, NotFoundFlat
  <2>2. Seen(s)'
    BY <1>1, <2>1, Flying DEF Seen, OpKinds
  <2> QED BY <2>1, <2>2 DEF Justified
<1>4. CASE Walk(s)
  <2>1. /\ pc'[s] = "walkFlat" /\ "blob" \notin found[s]
        /\ "name" \in found[s] \/ NotFoundFlat(rq[s].p, rq[s].o)
        /\ "name" \in found[s] => rq[s].o \in Sharded
    BY <1>1, <1>4 DEF Walk, Goto, InFlight, Seen
  <2>2. /\ "blob" \in found'[s] <=> Exists(rq[s].p, Final(rq[s].o))
        /\ "name" \in found[s] <=> "name" \in found'[s]
    BY <1>1, <1>4, <2>1 DEF Walk
  <2>3. ASSUME Exists(rq[s].p, Final(rq[s].o)) PROVE hist'[s] \ {Nil} # {}
    <3>1. Value(rq[s].p, rq[s].o) # Nil
      BY <1>1, <1>2, <2>3, OneValue
    <3> QED BY <1>2, <3>1, Flying
  <2>4. ASSUME ~Exists(rq[s].p, Final(rq[s].o))
        PROVE  Nil \in hist'[s] \/ ("name" \in found'[s] /\ Missed(s)')
    <3>1. CASE NotFoundFlat(rq[s].p, rq[s].o)
      BY <1>1, <1>2, <2>4, <3>1, OneValue, Flying
    <3>2. CASE ~NotFoundFlat(rq[s].p, rq[s].o)
      BY <2>1, <2>2, <2>4, <3>2, Flying DEF NotFoundFlat, Missed, OnlyFlat
    <3> QED BY <3>1, <3>2
  <2>5. Seen(s)'
    BY <1>1, <2>1, <2>2, <2>3, <2>4, Flying DEF Seen, OpKinds
  <2> QED BY <2>1, <2>5 DEF Justified
<1>5. CASE WalkFlat(s)
  <2>1. /\ pc'[s] = "done" /\ ans'[s].err = "ok"
        /\ IF "blob" \in found[s] THEN hist[s] \ {Nil} # {}
           ELSE Nil \in hist[s] \/ ("name" \in found[s] /\ Missed(s))
    BY <1>1, <1>5 DEF WalkFlat, Return, InFlight, Seen
  <2>2. "blob" \in found'[s] <=>
          "blob" \in found[s] \/ ("name" \in found[s] /\ Exists(rq[s].p, Flat(rq[s].o)))
    BY <1>1, <1>5 DEF WalkFlat
  <2>3. "blob" \in found'[s] => hist'[s] \ {Nil} # {}
    <3>1. CASE "blob" \in found[s]
      BY <2>1, <3>1, Flying
    <3>2. CASE "name" \in found[s] /\ Exists(rq[s].p, Flat(rq[s].o))
      <4>1. rq[s].o \in Sharded
        BY <1>5, <3>2 DEF WalkFlat, InFlight, Seen
      <4>2. Value(rq[s].p, rq[s].o) # Nil
        BY <1>1, <1>2, <3>2, <4>1, OneValue
      <4> QED BY <1>2, <4>2, Flying
    <3> QED BY <2>2, <3>1, <3>2
  <2>4. "blob" \notin found'[s] => Nil \in hist'[s]
    BY <2>1, <2>2, Flying DEF Missed, OnlyFlat
  <2>5. Seen(s)'
    BY <1>1, <2>1 DEF Seen, OpKinds, Kinds
  <2> QED BY <1>1, <2>1, <2>3, <2>4, <2>5 DEF Justified
<1> QED BY <1>3, <1>4, <1>5
\* Every step of its own slot.
LEMMA OwnSeen ==
  ASSUME FsTypeInv, CopyInv, Homed, Next, NEW s \in Op, Seen(s), Call(s)
  PROVE  Seen(s)' /\ Justified(s)'
<1>1. CASE Finish(s)
  <2>1. pc'[s] = "idle"
    BY <1>1, Slots DEF Finish
  <2> QED BY <2>1 DEF Seen, Justified
<1>2. CASE ~Finish(s)
  BY <1>2, CallFlies, QuietSeen, DropSeen, LooksSeen, RenameSeen, RemovesSeen, OpensSeen,
     WalksSeen DEF Call
<1> QED BY <1>1, <1>2

\* A request that arrives sees what is stored.
LEMMA BeginSeen ==
  ASSUME FsTypeInv, Observe, NEW s \in Op, NEW kind \in Kinds, NEW p \in Prefix,
         NEW o \in Targets(kind), NEW body \in Payloads(kind, o), Begin(s, kind, p, o, body)
  PROVE  Seen(s)' /\ Justified(s)'
<1>1. /\ rq'[s] = [kind |-> kind, p |-> p, o |-> o, body |-> body] /\ pc[s] = "idle"
      /\ pc'[s] = IF kind = "CreateRepo" THEN "mkdirRepo" ELSE "validate"
  BY Slots DEF Begin
<1>2. hist'[s] = Watched(rq[s])'
  BY <1>1 DEF Observe
<1>3. rq'[s].o # Nil => Value(rq[s].p, rq[s].o)' \in hist'[s]
  BY <1>2 DEF Watched
<1>4. rq'[s].kind \in OpKinds(pc'[s])
  BY <1>1 DEF OpKinds
<1> QED BY <1>1, <1>3, <1>4 DEF Seen, Justified

\* Every step keeps it.
LEMMA AnswerStep == FsTypeInv /\ CopyInv /\ Homed /\ AnswerInv /\ [Next]_vars => AnswerInv'
<1> SUFFICES ASSUME FsTypeInv, CopyInv, Homed, AnswerInv, [Next]_vars, NEW s \in Op
             PROVE  Seen(s)' /\ Justified(s)'
  BY DEF AnswerInv
<1>1. Seen(s) /\ Justified(s)
  BY DEF AnswerInv
<1>2. CASE UNCHANGED vars
  BY <1>1, <1>2 DEF vars, fs, Seen, Justified, Missed, OnlyFlat, Value, Exists, NotFoundFlat
<1>3. CASE Next
  <2>1. ASSUME NEW t \in Op, Call(t) PROVE Seen(s)' /\ Justified(s)'
    <3>1. CASE s = t
      BY <1>1, <1>3, <2>1, <3>1, OwnSeen
    <3>2. CASE s # t
      <4>1. rq'[s] = rq[s] /\ pc'[s] = pc[s] /\ found'[s] = found[s] /\ ans'[s] = ans[s]
        BY <2>1, <3>2, CallMoves, Slots
      <4> QED BY <1>1, <1>3, <4>1, OtherSeen
    <3> QED BY <3>1, <3>2
  <2>2. ASSUME NEW t \in Op, NEW kind \in Kinds, NEW p \in Prefix, NEW o \in Targets(kind),
               NEW body \in Payloads(kind, o), Begin(t, kind, p, o, body)
        PROVE  Seen(s)' /\ Justified(s)'
    <3>1. CASE s = t
      BY <1>3, <2>2, <3>1, BeginSeen DEF Next
    <3>2. CASE s # t
      <4>1. rq'[s] = rq[s] /\ pc'[s] = pc[s] /\ found'[s] = found[s] /\ ans'[s] = ans[s]
        BY <2>2, <3>2, Slots DEF Begin
      <4> QED BY <1>1, <1>3, <4>1, OtherSeen
    <3> QED BY <3>1, <3>2
  <2>3. ASSUME Crash \/ PowerFailure PROVE Seen(s)' /\ Justified(s)'
    <3>1. pc'[s] = "idle"
      BY <2>3 DEF Crash, PowerFailure, Restart
    <3> QED BY <3>1 DEF Seen, Justified
  <2>4. ASSUME NEW p \in Prefix, NEW x \in Paths, WriteBack(p, x) PROVE Seen(s)' /\ Justified(s)'
    <3>1. rq'[s] = rq[s] /\ pc'[s] = pc[s] /\ found'[s] = found[s] /\ ans'[s] = ans[s]
      BY <2>4 DEF WriteBack
    <3> QED BY <1>1, <1>3, <3>1, OtherSeen
  <2> QED BY <1>3, <2>1, <2>2, <2>3, <2>4 DEF Next, Step
<1> QED BY <1>2, <1>3

\* Every result is true of some instant of the call, however the calls interleave and
\* wherever the process crashes.
THEOREM FsAnswers == ASSUME LooksFail = FALSE PROVE Spec => []AnswersJustified
<1>1. Init => AnswerInv
  BY DEF Init, AnswerInv, Seen, Justified
<1>2. FsTypeInv /\ CopyInv /\ Homed /\ AnswerInv /\ [Next]_vars => AnswerInv'
  BY AnswerStep
<1>3. AnswerInv => AnswersJustified
  BY DEF AnswerInv, AnswersJustified
<1>4. Spec => []FsTypeInv
  BY FsTypeInit, FsTypeStep, PTL DEF Spec
<1>5. Spec => []Homed
  BY <1>4, HomedInit, HomedStep, PTL DEF Spec
<1> QED BY <1>1, <1>2, <1>3, <1>4, <1>5, CopyInvariant, PTL DEF Spec
=============================================================================
