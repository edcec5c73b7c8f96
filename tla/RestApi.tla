------------------------------ MODULE RestApi ------------------------------
(***************************************************************************)
(* The HTTP handlers (internal/api) behind the ACL middleware, running     *)
(* concurrently over one memory backend.  Each call a handler makes on the *)
(* backend is one step, because the backend's lock is held for the call    *)
(* and for nothing longer: what a handler learned in one call may be stale *)
(* in the next.                                                            *)
(*                                                                         *)
(* A request slot r is a goroutine serving one request.  Arrive is the     *)
(* pre-handler part (path split, ACL decision, parameter checks), which    *)
(* touches no shared state.  Names are valid by then: an invalid type or   *)
(* name is a 400 before any backend call.  Statistics are off; they are    *)
(* the subject of StatsTracking.                                           *)
(***************************************************************************)
EXTENDS MemoryBackend

CONSTANTS
  Lock,        \* the blobs of type "locks"
  Client,      \* client identities
  Level,       \* Level[c][p]: what the ACL resolves for client c on prefix p
  Bodies,      \* Bodies[o]: the bodies clients send for object o
  MaxInt,      \* the largest integer: sums beyond it wrap around
  Request      \* slots for requests in flight

ASSUME LockAssumption == Lock \subseteq Blob
ASSUME BodiesAssumption == Bodies \in [Object -> SUBSET Content]
ASSUME MaxIntAssumption == MaxInt \in Nat
ASSUME LevelAssumption == Level \in [Client -> [Prefix -> 0 .. 3]]

VARIABLES
  appendOnly,  \* Handler.AppendOnly, fixed for the life of the server
  pc,          \* pc[r]: the next backend call of the handler in slot r
  rq,          \* rq[r]: the request in slot r
  rng,         \* rng[r]: offset and length a range response announces
  resp         \* resp[r]: its response

slots == <<pc, rq, rng, resp>>
vars == <<repos, data, usedBytes, appendOnly, slots>>

Deny == 0
ReadOnly == 1
AppendOnly == 2
FullAccess == 3

\* engine.Allowed, by the level that each class of operation needs.
Needs(op) == CASE op = "read" -> ReadOnly [] op = "write" -> AppendOnly [] op = "delete" -> FullAccess
Allowed(c, p, op) == Level[c][p] >= Needs(op)

\* Mutant of Operation: deleting any blob counts as a write.
OperationLax(kind, o) ==
  CASE kind \in {"ReadObject", "RangeBlob", "ListBlobs"} -> "read"
    [] kind = "DeleteRepo" -> "delete"
    [] kind \in {"CreateRepo", "SaveConfig", "SaveBlob", "DeleteBlob"} -> "write"

\* classifyOperation on the method and the path behind each handler: deleting a
\* lock is a write.
Operation(kind, o) ==
  CASE kind \in {"ReadObject", "RangeBlob", "ListBlobs"} -> "read"
    [] kind = "DeleteRepo" -> "delete"
    [] kind = "DeleteBlob" -> IF o \in Lock THEN "write" ELSE "delete"
    [] kind \in {"CreateRepo", "SaveConfig", "SaveBlob"} -> "write"

Kinds == {"CreateRepo", "DeleteRepo", "ReadObject", "RangeBlob", "ListBlobs",
          "SaveConfig", "SaveBlob", "DeleteBlob"}

\* The objects a route of this kind can name, and the bodies it carries.
Targets(kind) ==
  CASE kind \in {"CreateRepo", "DeleteRepo", "ListBlobs"} -> {Nil}
    [] kind = "ReadObject" -> Object
    [] kind = "SaveConfig" -> {Config}
    [] kind \in {"RangeBlob", "SaveBlob", "DeleteBlob"} -> Blob

Payloads(kind, o) == IF kind \in {"SaveConfig", "SaveBlob"} THEN Bodies[o] ELSE {Nil}

\* The slots' contents.  "ao" is the append-only mark the ACL leaves in the
\* request's context; "late" is a history field, whether the target was stored
\* when the request arrived.  A response has a status, the number of bytes it
\* streams and, for a listing, the names.
NoRequest == [kind |-> "none", client |-> Nil, p |-> Nil, o |-> Nil, body |-> Nil,
              ao |-> FALSE, late |-> FALSE]
NoRange == [offset |-> 0, length |-> 0]
Response(code, sent, listed) == [status |-> code, sent |-> sent, listed |-> listed]
NoResponse == Response(0, 0, {})

Init ==
  /\ MemInit
  /\ appendOnly \in BOOLEAN
  /\ pc = [r \in Request |-> "idle"]
  /\ rq = [r \in Request |-> NoRequest]
  /\ rng = [r \in Request |-> NoRange]
  /\ resp = [r \in Request |-> NoResponse]

-----------------------------------------------------------------------------

\* The handler's first step.  With append-only in force SaveConfig looks before
\* it writes, and the two deleting handlers refuse.
FirstStep(kind, o, ao) ==
  CASE kind = "SaveConfig" -> IF appendOnly \/ ao THEN "statConfig" ELSE "save"
    [] kind = "SaveBlob" -> "save"
    [] kind = "RangeBlob" -> "statRange"
    [] OTHER -> "call"

\* Mutant of Refused: append-only mode protects the repository, not its blobs.
RefusedRepoOnly(kind, o) == appendOnly /\ kind = "DeleteRepo"

Refused(kind, o) ==
  /\ appendOnly
  /\ \/ kind = "DeleteRepo"
     \/ kind = "DeleteBlob" /\ o \notin Lock

\* A request arrives and passes the middleware: 403 when the ACL denies it, and
\* the append-only mark when it may write but could not have deleted.
Arrive(r, c, kind, p, o, body) ==
  LET op == Operation(kind, o)
      ao == op = "write" /\ ~Allowed(c, p, "delete")
      barred == ~Allowed(c, p, op) \/ Refused(kind, o)
  IN /\ pc[r] = "idle"
     /\ pc' = [pc EXCEPT ![r] = IF barred THEN "done" ELSE FirstStep(kind, o, ao)]
     /\ resp' = [resp EXCEPT ![r] = IF barred THEN Response(403, 0, {}) ELSE NoResponse]
     /\ rq' = [rq EXCEPT ![r] =
                 [kind |-> kind, client |-> c, p |-> p, o |-> o, body |-> body, ao |-> ao,
                  late |-> o # Nil /\ data[p][o] # Nil]]
     /\ UNCHANGED <<memVars, appendOnly, rng>>

Goto(r, step) == pc' = [pc EXCEPT ![r] = step]

Answer(r, response) ==
  /\ Goto(r, "done")
  /\ resp' = [resp EXCEPT ![r] = response]
  /\ UNCHANGED <<appendOnly, rq, rng>>

Status(code) == Response(code, 0, {})

\* Mutant of StatConfig: a stat that succeeds is taken for permission.
StatConfigBlind(r) ==
  /\ pc[r] = "statConfig"
  /\ Goto(r, "save")
  /\ UNCHANGED <<memVars, appendOnly, rq, rng, resp>>

\* SaveConfig, the look: an existing config is not replaced.
StatConfig(r) ==
  /\ pc[r] = "statConfig"
  /\ \/ /\ StatObjectErr(rq[r].p, Config) = "ok"
        /\ Answer(r, Status(403))
     \/ /\ StatObjectErr(rq[r].p, Config) = "ErrNotFound"
        /\ Goto(r, "save")
        /\ UNCHANGED <<appendOnly, rq, rng, resp>>
  /\ UNCHANGED memVars

SaveStatus(err) ==
  CASE err = "ok" -> 200 [] err = "ErrQuotaExceeded" -> 507 [] OTHER -> 500

\* SaveConfig and SaveBlob, the write.
Save(r) ==
  /\ pc[r] = "save"
  /\ SaveObject(rq[r].p, rq[r].o, rq[r].body)
  /\ Answer(r, Status(SaveStatus(SaveObjectErr(rq[r].p, rq[r].o, rq[r].body))))

\* The client's upload breaks off: ReadAll fails before the lock is taken.
UploadFails(r) ==
  /\ pc[r] = "save"
  /\ Answer(r, Status(500))
  /\ UNCHANGED memVars

Calls(r, kind) == pc[r] = "call" /\ rq[r].kind = kind

CallDeleteBlob(r) ==
  /\ Calls(r, "DeleteBlob")
  /\ DeleteBlob(rq[r].p, rq[r].o)
  /\ Answer(r, Status(IF DeleteBlobErr(rq[r].p, rq[r].o) = "ok" THEN 200 ELSE 404))

CallCreateRepo(r) ==
  /\ Calls(r, "CreateRepo")
  /\ CreateRepo(rq[r].p)
  /\ Answer(r, Status(200))

CallDeleteRepo(r) ==
  /\ Calls(r, "DeleteRepo")
  /\ DeleteRepo(rq[r].p)
  /\ Answer(r, Status(IF DeleteRepoErr(rq[r].p) = "ok" THEN 200 ELSE 404))

\* HeadConfig, GetConfig, HeadBlob and GetBlob without a range: one call.
CallReadObject(r) ==
  /\ Calls(r, "ReadObject")
  /\ Answer(r, IF StatObjectErr(rq[r].p, rq[r].o) = "ok"
               THEN Response(200, SizeAt(rq[r].p, rq[r].o), {}) ELSE Status(404))
  /\ UNCHANGED memVars

CallListBlobs(r) ==
  /\ Calls(r, "ListBlobs")
  /\ Answer(r, Response(200, 0, ListBlobs(rq[r].p, Blob)))
  /\ UNCHANGED memVars

-----------------------------------------------------------------------------
\* The sum of two integers that are not negative.
Plus(a, b) == IF a + b > MaxInt THEN a + b - 2 * (MaxInt + 1) ELSE a + b

\* parseRange, for a header that starts at offset: the length is end - start + 1, or
\* 0 when no end is given.  A header it cannot parse is a request without a range.
parseRange(offset) == {0} \cup {Plus(end - offset, 1) : end \in offset .. MaxInt}

\* Mutants of StatRange: the length is not clamped; the start is not checked.
StatRangeUnclamped(r, offset, wanted) ==
  LET size == SizeAt(rq[r].p, rq[r].o)
      err == StatObjectErr(rq[r].p, rq[r].o)
  IN /\ pc[r] = "statRange"
     /\ \/ err # "ok" /\ Answer(r, Status(404))
        \/ err = "ok" /\ offset >= size /\ Answer(r, Status(416))
        \/ /\ err = "ok" /\ offset < size
           /\ Goto(r, "getRange")
           /\ rng' = [rng EXCEPT ![r] = [offset |-> offset, length |-> wanted]]
           /\ UNCHANGED <<appendOnly, rq, resp>>
     /\ UNCHANGED memVars

StatRangeUnchecked(r, offset, wanted) ==
  LET size == SizeAt(rq[r].p, rq[r].o)
      err == StatObjectErr(rq[r].p, rq[r].o)
  IN /\ pc[r] = "statRange"
     /\ \/ err # "ok" /\ Answer(r, Status(404))
        \/ /\ err = "ok"
           /\ Goto(r, "getRange")
           /\ rng' = [rng EXCEPT ![r] =
                [offset |-> offset,
                 length |-> IF wanted <= 0 \/ Plus(offset, wanted) > size
                            THEN size - offset ELSE wanted]]
           /\ UNCHANGED <<appendOnly, rq, resp>>
     /\ UNCHANGED memVars

\* GetBlob with a range, first call: validate the start and clamp the length.
StatRange(r, offset, wanted) ==
  LET size == SizeAt(rq[r].p, rq[r].o)
      err == StatObjectErr(rq[r].p, rq[r].o)
  IN /\ pc[r] = "statRange"
     /\ \/ err # "ok" /\ Answer(r, Status(404))
        \/ err = "ok" /\ offset >= size /\ Answer(r, Status(416))
        \/ /\ err = "ok" /\ offset < size
           /\ Goto(r, "getRange")
           /\ rng' = [rng EXCEPT ![r] =
                [offset |-> offset,
                 length |-> IF wanted <= 0 \/ Plus(offset, wanted) > size
                            THEN size - offset ELSE wanted]]
           /\ UNCHANGED <<appendOnly, rq, resp>>
     /\ UNCHANGED memVars

\* Second call: the bytes of whatever is stored now, under the headers computed
\* from the first call.  A slice that ends below its start is a panic, of which
\* Recover makes a 500.
GetRange(r) ==
  LET err == StatObjectErr(rq[r].p, rq[r].o)
      size == SizeAt(rq[r].p, rq[r].o)
      sum == Plus(rng[r].offset, rng[r].length)
      window == GetObjectWindow(size, rng[r].offset, rng[r].length, sum)
      panics == rng[r].offset < size /\ rng[r].length > 0 /\ sum < rng[r].offset
  IN /\ pc[r] = "getRange"
     /\ \/ err # "ok" /\ Answer(r, Status(404))
        \/ err = "ok" /\ panics /\ Answer(r, Status(500))
        \/ err = "ok" /\ ~panics /\ Answer(r, Response(206, Cardinality(window), {}))
     /\ UNCHANGED memVars

\* The response is written and the slot is free again.
Finish(r) ==
  /\ pc[r] = "done"
  /\ Goto(r, "idle")
  /\ rq' = [rq EXCEPT ![r] = NoRequest]
  /\ rng' = [rng EXCEPT ![r] = NoRange]
  /\ resp' = [resp EXCEPT ![r] = NoResponse]
  /\ UNCHANGED <<memVars, appendOnly>>

\* The web UI's DeleteLock: its own authentication, no ACL, locks only.
UIDeleteLock(p, b) ==
  /\ b \in Lock
  /\ DeleteBlob(p, b)
  /\ UNCHANGED <<appendOnly, slots>>

Handle(r) ==
  \/ StatConfig(r)
  \/ Save(r)
  \/ CallDeleteBlob(r)
  \/ CallCreateRepo(r)
  \/ CallDeleteRepo(r)
  \/ CallReadObject(r)
  \/ CallListBlobs(r)
  \/ \E offset \in 0 .. MaxInt : \E wanted \in parseRange(offset) : StatRange(r, offset, wanted)
  \/ GetRange(r)
  \/ Finish(r)

Next ==
  \/ \E r \in Request, c \in Client, kind \in Kinds, p \in Prefix :
       \E o \in Targets(kind) : \E body \in Payloads(kind, o) : Arrive(r, c, kind, p, o, body)
  \/ \E r \in Request : Handle(r) \/ UploadFails(r)
  \/ \E p \in Prefix, b \in Lock : UIDeleteLock(p, b)

Spec == Init /\ [][Next]_vars

-----------------------------------------------------------------------------
\* Every variable has its type.
TypeOK ==
  /\ MemTypeOK
  /\ appendOnly \in BOOLEAN
  /\ pc \in [Request -> {"idle", "statConfig", "save", "statRange", "getRange", "call", "done"}]
  /\ rq \in [Request ->
       [kind : Kinds \cup {"none"}, client : Client \cup {Nil}, p : Prefix \cup {Nil},
        o : Object \cup {Nil}, body : Content \cup {Nil}, ao : BOOLEAN, late : BOOLEAN]]
  /\ rng \in [Request -> [offset : Nat, length : Nat]]
  /\ resp \in [Request -> [status : {0, 200, 206, 403, 404, 416, 500, 507}, sent : Nat,
                           listed : SUBSET Blob]]

\* No client and no handler can delete p's config.
ConfigPinned(p) == appendOnly \/ \A c \in Client : Level[c][p] < FullAccess

\* What the pre-handler steps establish for a request that is being handled: its
\* route, the ACL decision and the append-only refusal all still hold of it at
\* every backend call.
InFlightAt(r) ==
  LET q == rq[r] IN
  /\ pc[r] \notin {"idle", "done"} =>
       /\ q.client \in Client /\ q.p \in Prefix /\ q.kind \in Kinds
       /\ q.o \in Targets(q.kind) /\ q.body \in Payloads(q.kind, q.o)
       /\ Allowed(q.client, q.p, Operation(q.kind, q.o))
       /\ ~Refused(q.kind, q.o)
  /\ pc[r] = "save" => q.kind \in {"SaveConfig", "SaveBlob"}
  /\ pc[r] = "statConfig" => q.kind = "SaveConfig"
  /\ pc[r] \in {"statRange", "getRange"} => q.kind = "RangeBlob"

InFlight == \A r \in Request : InFlightAt(r)

\* A config save that arrived after the config it would replace has not got past
\* its look, and that config is still there.
LateSaveHeldAt(r) ==
  LET q == rq[r] IN
  /\ pc[r] \in {"save", "statConfig"} /\ q.kind = "SaveConfig"
  /\ q.late /\ ConfigPinned(q.p)
  => pc[r] = "statConfig" /\ data[q.p][Config] # Nil

LateSavesHeld == \A r \in Request : LateSaveHeldAt(r)

\* The request that takes the current step.
Moves(r) == pc'[r] # pc[r]

\* Every change to a repository, whichever requests are interleaved, is made by
\* a request on that very prefix whose client's ACL level permits the change:
\* writing needs append-only, and removing anything but a lock needs full access.
\* The one exception is the web UI, which removes locks and nothing else.
ChangesAuthorised ==
  [][\A p \in Prefix, o \in Object : data'[p][o] # data[p][o] =>
       \/ \E r \in Request :
            /\ Moves(r) /\ rq[r].p = p
            /\ Level[rq[r].client][p] >=
                 IF data'[p][o] = Nil /\ o \notin Lock THEN FullAccess ELSE AppendOnly
       \/ o \in Lock /\ data'[p][o] = Nil /\ UNCHANGED slots]_vars

\* With append_only set nothing but a lock ever disappears, whatever level the
\* clients hold.
AppendOnlyKeepsData ==
  [][appendOnly => \A p \in Prefix, o \in Object \ Lock :
       data[p][o] # Nil => data'[p][o] # Nil]_vars

\* Where append-only is in force for everyone (by the server's flag or by the
\* ACL), a config save that arrives when a config is already stored never
\* replaces it, however the steps of the requests are interleaved.
LateConfigSaveRefused ==
  [][\A r \in Request, p \in Prefix :
       /\ Moves(r) /\ rq[r].p = p /\ rq[r].kind = "SaveConfig"
       /\ ConfigPinned(p) /\ rq[r].late
       => data'[p][Config] = data[p][Config]]_vars

\* What is announced for a range that has been answered is what was streamed.
RangeAnsweredAt(r) ==
  pc[r] = "done" /\ rq[r].kind = "RangeBlob" =>
    /\ resp[r].status = 206 => resp[r].sent = rng[r].length
    /\ resp[r].status = 500 => rng[r].offset > 0 /\ rng[r].offset + rng[r].length = MaxInt + 1

\* A range response announces exactly as many bytes as it streams, although the
\* blob may be deleted and stored again between the two backend calls.  A range that
\* starts within the blob is answered by such a response, unless its end is the
\* largest integer: then offset + length wraps around and is not clamped.
RangeHeadersMatchBody == \A r \in Request : RangeAnsweredAt(r)

\* Where append-only is in force, a stored config is never replaced.
ConfigNeverReplaced ==
  [][\A p \in Prefix :
       data'[p][Config] \notin {Nil, data[p][Config]} /\ data[p][Config] # Nil
       => ~(appendOnly \/ \E r \in Request : Moves(r) /\ rq[r].ao)]_vars
=============================================================================
