--------------------------- MODULE StatsTracking ---------------------------
(***************************************************************************)
(* The traffic statistics: the wrapper around a storage backend            *)
(* (internal/storage/tracked) and the counters it keeps in a database      *)
(* (internal/stats).  The backend is external: whichever it is, each of    *)
(* its requests is atomic, and its deletion takes two, a look and the      *)
(* removal.  Between these steps, the lookup of the size before them and   *)
(* the record after them other requests go on.  An error of the database   *)
(* is ignored, so a record may be lost.  The config is counted like a blob *)
(* that is never deleted.                                                  *)
(***************************************************************************)
EXTENDS Integers, FiniteSets

CONSTANTS
  Prefix,    \* repository prefixes
  Root,      \* the prefix "", the repository at the top
  Blob,      \* blob names
  Size,      \* Size[b]: the length of blob b, whose name is the hash of its content
  Slash,     \* the row key "/"
  MaxCalls,  \* a bound on the calls made
  Request    \* slots for requests in flight

ASSUME KeyAssumption == Root \in Prefix /\ Slash \notin Prefix
ASSUME BlobAssumption == Blob # {}
ASSUME SizeAssumption == Size \in [Blob -> Nat]
ASSUME CallsAssumption == MaxCalls \in Nat

VARIABLES
  stored,    \* stored[p]: the blobs in the backend
  rows,      \* rows[k]: the database row with key k
  true,      \* true[k]: history, what has really happened in the repository of key k
  vain,      \* vain[k]: history, the bytes of its deletions that succeeded on a missing blob
  pc, rq,    \* pc[r], rq[r]: the call in slot r and its arguments
  n,         \* n[r]: the number of bytes it will record
  calls, lost

vars == <<stored, rows, true, vain, pc, rq, n, calls, lost>>

\* tracked.repoPath: the top repository has the row "/".
repoPath(p) == IF p = Root THEN Slash ELSE p
Key == {repoPath(p) : p \in Prefix} \cup Prefix

NoTraffic == [writeCount |-> 0, readCount |-> 0, deleteCount |-> 0,
              bytesWritten |-> 0, bytesRead |-> 0, bytesDeleted |-> 0]
NoCall == [p |-> Root, b |-> CHOOSE b \in Blob : TRUE]

Init ==
  /\ stored = [p \in Prefix |-> {}]
  /\ rows = [k \in Key |-> NoTraffic] /\ true = [k \in Key |-> NoTraffic]
  /\ pc = [r \in Request |-> "idle"] /\ rq = [r \in Request |-> NoCall]
  /\ vain = [k \in Key |-> 0] /\ n = [r \in Request |-> 0] /\ calls = 0 /\ lost = FALSE

-----------------------------------------------------------------------------

\* The counters' upsert statements.
RecordWrite(t, bytes) == [t EXCEPT !.writeCount = @ + 1, !.bytesWritten = @ + bytes]
RecordRead(t, bytes) == [t EXCEPT !.readCount = @ + 1, !.bytesRead = @ + bytes]
RecordDelete(t, bytes) == [t EXCEPT !.deleteCount = @ + 1, !.bytesDeleted = @ + bytes]

Goto(r, step) == pc' = [pc EXCEPT ![r] = step]
MyKey(r) == repoPath(rq[r].p)
MySize(r) == Size[rq[r].b]

Begin(r, step, p, b) ==
  /\ pc[r] = "idle" /\ calls < MaxCalls
  /\ calls' = calls + 1
  /\ rq' = [rq EXCEPT ![r] = [p |-> p, b |-> b]]
  /\ Goto(r, step)
  /\ UNCHANGED <<stored, rows, true, vain, n, lost>>

MyBlobs(r) == stored[rq[r].p]
StoredWith(r) == [stored EXCEPT ![rq[r].p] = @ \cup {rq[r].b}]
StoredWithout(r) == [stored EXCEPT ![rq[r].p] = @ \ {rq[r].b}]

\* The call moves bytes and is yet to be recorded.
Passes(r, step, bytes, event) ==
  /\ n' = [n EXCEPT ![r] = bytes] /\ true' = [true EXCEPT ![MyKey(r)] = event]
  /\ Goto(r, step)
  /\ UNCHANGED <<rows, vain, rq, calls, lost>>

\* SaveBlob: countingReader counts what the backend reads.  That is the whole body,
\* but for a blob that is there already: then the body is only drained, and an
\* error of the client ends that without failing the call.
Save(r) ==
  /\ pc[r] = "save"
  /\ \E read \in (IF rq[r].b \in MyBlobs(r) THEN 0 .. MySize(r) ELSE {MySize(r)}) :
       Passes(r, "recordWrite", read, RecordWrite(true[MyKey(r)], read))
  /\ stored' = StoredWith(r)

\* Mutant of SaveFails: the bytes are recorded although the save failed.
SaveFailsRecorded(r) ==
  /\ pc[r] = "save"
  /\ n' = [n EXCEPT ![r] = MySize(r)]
  /\ Goto(r, "recordWrite")
  /\ UNCHANGED <<stored, rows, true, vain, rq, calls, lost>>

\* The backend reports an error, which may hide a save that was made.
SaveFails(r) ==
  /\ pc[r] = "save"
  /\ stored' \in {stored, StoredWith(r)}
  /\ Goto(r, "idle")
  /\ UNCHANGED <<rows, true, vain, rq, n, calls, lost>>

\* GetBlob: the reader that is returned counts what is read until it is closed,
\* which is all of the blob or less when the client goes away.
Get(r) ==
  /\ pc[r] = "get" /\ rq[r].b \in MyBlobs(r)
  /\ \E read \in 0 .. MySize(r) :
       Passes(r, "recordRead", read, RecordRead(true[MyKey(r)], read))
  /\ UNCHANGED stored

\* DeleteBlob: the size is looked up first, and is 0 when that fails.
StatForDelete(r) ==
  /\ pc[r] = "stat"
  /\ \E size \in {0} \cup (IF rq[r].b \in MyBlobs(r) THEN {MySize(r)} ELSE {}) :
       n' = [n EXCEPT ![r] = size]
  /\ Goto(r, "look")
  /\ UNCHANGED <<stored, rows, true, vain, rq, calls, lost>>

\* The backend's own look at the blob.
LookForDelete(r) ==
  /\ pc[r] = "look" /\ rq[r].b \in MyBlobs(r)
  /\ Goto(r, "delete")
  /\ UNCHANGED <<stored, rows, true, vain, rq, n, calls, lost>>

Delete(r) ==
  /\ pc[r] = "delete" /\ rq[r].b \in MyBlobs(r)
  /\ stored' = StoredWithout(r)
  /\ true' = [true EXCEPT ![MyKey(r)] = RecordDelete(@, MySize(r))]
  /\ Goto(r, "recordDelete")
  /\ UNCHANGED <<rows, vain, rq, n, calls, lost>>

\* The blob has gone since the look.  Some backends, S3 for one, succeed all the
\* same, and the deletion is recorded once more.
DeleteInVain(r) ==
  /\ pc[r] = "delete" /\ rq[r].b \notin MyBlobs(r)
  /\ true' = [true EXCEPT ![MyKey(r)] = RecordDelete(@, 0)]
  /\ vain' = [vain EXCEPT ![MyKey(r)] = @ + MySize(r)]
  /\ Goto(r, "recordDelete")
  /\ UNCHANGED <<stored, rows, rq, n, calls, lost>>

\* The backend reports an error, be it that the blob is not there; a deletion may
\* have been made all the same.  Nothing is recorded.
CallFails(r) ==
  /\ pc[r] \in {"get", "look", "delete"}
  /\ stored' \in {stored} \cup (IF pc[r] = "delete" THEN {StoredWithout(r)} ELSE {})
  /\ Goto(r, "idle")
  /\ UNCHANGED <<rows, true, vain, rq, n, calls, lost>>

\* DeleteRepo and CreateRepo are passed through unrecorded.
DeleteRepo(p) ==
  /\ stored' = [stored EXCEPT ![p] = {}]
  /\ UNCHANGED <<rows, true, vain, pc, rq, n, calls, lost>>

\* The record is made, or the database fails and it is not.
Recorded(r) ==
  CASE pc[r] = "recordWrite" -> RecordWrite(rows[MyKey(r)], n[r])
    [] pc[r] = "recordRead" -> RecordRead(rows[MyKey(r)], n[r])
    [] pc[r] = "recordDelete" -> RecordDelete(rows[MyKey(r)], n[r])

Recording(r) == pc[r] \in {"recordWrite", "recordRead", "recordDelete"}

\* Mutant of Record: the row of the bare prefix is updated.
RecordBare(r) ==
  /\ Recording(r)
  /\ rows' = [rows EXCEPT ![rq[r].p] = Recorded(r)]
  /\ Goto(r, "idle")
  /\ n' = [n EXCEPT ![r] = 0]
  /\ UNCHANGED <<stored, true, vain, rq, calls, lost>>

Record(r) ==
  /\ Recording(r)
  /\ rows' = [rows EXCEPT ![MyKey(r)] = Recorded(r)]
  /\ Goto(r, "idle")
  /\ n' = [n EXCEPT ![r] = 0]
  /\ UNCHANGED <<stored, true, vain, rq, calls, lost>>

RecordFails(r) ==
  /\ Recording(r)
  /\ Goto(r, "idle")
  /\ n' = [n EXCEPT ![r] = 0]
  /\ lost' = TRUE
  /\ UNCHANGED <<stored, rows, true, vain, rq, calls>>

Next ==
  \/ \E r \in Request :
       \/ \E step \in {"save", "get", "stat"}, p \in Prefix, b \in Blob : Begin(r, step, p, b)
       \/ Save(r) \/ SaveFails(r) \/ Get(r) \/ StatForDelete(r) \/ LookForDelete(r)
       \/ Delete(r) \/ DeleteInVain(r) \/ CallFails(r) \/ Record(r) \/ RecordFails(r)
  \/ \E p \in Prefix : DeleteRepo(p)

Spec == Init /\ [][Next]_vars

-----------------------------------------------------------------------------
\* Every variable has its type.
TypeOK ==
  /\ stored \in [Prefix -> SUBSET Blob]
  /\ rows \in [Key -> [DOMAIN NoTraffic -> Nat]] /\ true \in [Key -> [DOMAIN NoTraffic -> Nat]]
  /\ vain \in [Key -> Nat]
  /\ pc \in [Request -> {"idle", "save", "get", "stat", "look", "delete",
                         "recordWrite", "recordRead", "recordDelete"}]
  /\ rq \in [Request -> [p : Prefix, b : Blob]] /\ n \in [Request -> Nat]
  /\ calls \in 0 .. MaxCalls /\ lost \in BOOLEAN

Busy(k) == \E r \in Request : Recording(r) /\ MyKey(r) = k

\* When no record is under way and the database has not failed, every successful
\* call is counted exactly once in the row of its own repository, and the bytes
\* written and read are those that passed.
CountsExact ==
  ~lost => \A k \in Key : ~Busy(k) =>
    \A c \in DOMAIN NoTraffic \ {"bytesDeleted"} : rows[k][c] = true[k][c]

\* What the counters may come to.  A deletion that succeeds although another one has
\* taken the blob away is a call that happened, but no bytes have left the storage.
Happened(k, c) == IF c = "bytesDeleted" THEN true[k][c] + vain[k] ELSE true[k][c]

\* The counters never run ahead of what has happened, database failures or not.  Only
\* the bytes deleted may, by no more than the blobs of the deletions that succeeded
\* with nothing left to delete.
NeverOvercounted == \A k \in Key, c \in DOMAIN NoTraffic : rows[k][c] <= Happened(k, c)
=============================================================================
