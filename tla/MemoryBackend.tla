--------------------------- MODULE MemoryBackend ---------------------------
(***************************************************************************)
(* The in-memory storage backend (internal/storage/memory/memory.go): a    *)
(* map from repository prefix to repository, and one byte counter that the *)
(* quota check of every save is made against.  Every method holds b.mu for *)
(* its whole effect, so each is one action; the request body is read       *)
(* before the lock is taken and only its content and length matter here.   *)
(*                                                                         *)
(* A repository is the function from its objects (the config and the blobs *)
(* of all five types) to what is stored, Nil where nothing is.  A method's *)
(* returned error is an operator of the state before the call, so that a   *)
(* caller can conjoin the method and branch on its result.                 *)
(***************************************************************************)
EXTENDS Integers, FiniteSets

CONSTANTS
  Prefix,     \* repository prefixes, the keys of b.repos
  Blob,       \* blob identities: a type and a name
  Config,     \* the one config object of a repository
  Content,    \* request bodies
  Size,       \* Size[c] is len(c)
  MaxBytes,   \* b.maxBytes
  Nil         \* nothing stored

ASSUME ContentAssumption == Nil \notin Content /\ Size \in [Content -> Nat]
ASSUME ConfigAssumption == Config \notin Blob
ASSUME QuotaAssumption == MaxBytes \in Nat

VARIABLES
  repos,      \* the keys present in b.repos
  data,       \* data[p][o]: the bytes stored for object o of prefix p
  usedBytes   \* b.usedBytes

memVars == <<repos, data, usedBytes>>

Object == Blob \cup {Config}

Errors == {"ok", "ErrNotFound", "ErrRepoNotFound", "ErrRepoExists", "ErrQuotaExceeded"}

SizeAt(p, o) == IF data[p][o] = Nil THEN 0 ELSE Size[data[p][o]]

\* The stored bytes themselves, one element for each: the reference that the
\* counter usedBytes is compared with.
CellsAt(p, o) == {<<p, o>>} \X (1 .. SizeAt(p, o))
CellsOf(p, S) == UNION {CellsAt(p, o) : o \in S}
Cells == UNION {CellsOf(p, Object) : p \in Prefix}

MemInit ==
  /\ repos = {}
  /\ data = [p \in Prefix |-> [o \in Object |-> Nil]]
  /\ usedBytes = 0

-----------------------------------------------------------------------------
\* Reads.  StatObject is StatConfig and StatBlob: a missing repository and a
\* missing object are the same error.
StatObjectErr(p, o) ==
  IF p \in repos /\ data[p][o] # Nil THEN "ok" ELSE "ErrNotFound"

\* GetConfig, and GetBlob(offset, length) once the object was found: the
\* positions, counted from 0, of the bytes returned.  sum is offset + length
\* as the caller's integers compute it.
GetObjectWindow(size, offset, length, sum) ==
  IF offset >= size
  THEN {}
  ELSE offset .. ((IF length > 0 /\ sum < size THEN sum ELSE size) - 1)

ListBlobs(p, S) == IF p \in repos THEN {b \in S : data[p][b] # Nil} ELSE {}

-----------------------------------------------------------------------------
\* Writes.
CreateRepoErr(p) == IF p \in repos THEN "ErrRepoExists" ELSE "ok"

CreateRepo(p) ==
  /\ repos' = repos \cup {p}
  /\ UNCHANGED <<data, usedBytes>>

DeleteRepoErr(p) == IF p \in repos THEN "ok" ELSE "ErrRepoNotFound"

\* Mutant of Reclaimed: the config's bytes are forgotten.
ReclaimedBlobsOnly(p) == Cardinality(CellsOf(p, Blob))

\* The loop over config and buckets gives back every byte of the repository.
Reclaimed(p) ==
  Cardinality(CellsAt(p, Config)) + Cardinality(CellsOf(p, Blob))

DeleteRepo(p) ==
  /\ \/ /\ DeleteRepoErr(p) = "ok"
        /\ usedBytes' = usedBytes - Reclaimed(p)
        /\ repos' = repos \ {p}
        /\ data' = [data EXCEPT ![p] = [o \in Object |-> Nil]]
     \/ /\ DeleteRepoErr(p) # "ok"
        /\ UNCHANGED memVars

\* Mutant of SaveObjectErr: the check is made before the new bytes are added.
SaveObjectErrLate(p, o, c) ==
  IF p \notin repos THEN "ErrRepoNotFound"
  ELSE IF usedBytes > MaxBytes THEN "ErrQuotaExceeded"
  ELSE "ok"

SaveObjectErr(p, o, c) ==
  IF p \notin repos THEN "ErrRepoNotFound"
  ELSE IF usedBytes - SizeAt(p, o) + Size[c] > MaxBytes THEN "ErrQuotaExceeded"
  ELSE "ok"

\* Mutant of SaveObject: the bucket is made anew for each save.
SaveObjectNewBucket(p, o, c) ==
  /\ SaveObjectErr(p, o, c) = "ok"
  /\ data' = [data EXCEPT ![p] = [x \in Object |-> IF x = o THEN c ELSE Nil]]
  /\ usedBytes' = Size[c]
  /\ UNCHANGED repos

\* SaveConfig and SaveBlob: what was stored under the name is replaced.
SaveObject(p, o, c) ==
  /\ \/ /\ SaveObjectErr(p, o, c) = "ok"
        /\ usedBytes' = usedBytes - SizeAt(p, o) + Size[c]
        /\ data' = [data EXCEPT ![p][o] = c]
     \/ /\ SaveObjectErr(p, o, c) # "ok"
        /\ UNCHANGED <<data, usedBytes>>
  /\ UNCHANGED repos

DeleteBlobErr(p, b) == StatObjectErr(p, b)

DeleteBlob(p, b) ==
  /\ \/ /\ DeleteBlobErr(p, b) = "ok"
        /\ usedBytes' = usedBytes - SizeAt(p, b)
        /\ data' = [data EXCEPT ![p][b] = Nil]
     \/ /\ DeleteBlobErr(p, b) # "ok"
        /\ UNCHANGED <<data, usedBytes>>
  /\ UNCHANGED repos

MemNext ==
  \E p \in Prefix :
    \/ CreateRepo(p)
    \/ DeleteRepo(p)
    \/ \E o \in Object, c \in Content : SaveObject(p, o, c)
    \/ \E b \in Blob : DeleteBlob(p, b)

MemSpec == MemInit /\ [][MemNext]_memVars

-----------------------------------------------------------------------------
\* Every variable has its type.
MemTypeOK ==
  /\ repos \in SUBSET Prefix
  /\ data \in [Prefix -> [Object -> Content \cup {Nil}]]
  /\ usedBytes \in Int

\* Nothing stays stored under a prefix whose repository does not exist: a
\* DeleteRepo followed by a CreateRepo of the same prefix starts empty.
OrphanFree == \A p \in Prefix \ repos : \A o \in Object : data[p][o] = Nil

\* The counter that every quota decision is made from is, after any sequence
\* of saves, replacements, blob and repository deletions, exactly the number of
\* bytes stored.
AccountingExact == IsFiniteSet(Cells) /\ usedBytes = Cardinality(Cells)

\* The bytes held never exceed the configured limit, and the counter that the
\* four methods adjust by differences never goes negative.
QuotaRespected == 0 <= usedBytes /\ usedBytes <= MaxBytes

\* The backend is an atomic object store, DeleteRepo included: the repository goes
\* away in one step with all it holds.
Store == INSTANCE ObjectStore WITH stored <- data, Bodies <- [o \in Object |-> Content]
MemImplementsStore == Store!Spec

\* The inductive invariant behind the three.
MemInv == MemTypeOK /\ OrphanFree /\ AccountingExact /\ QuotaRespected
=============================================================================
