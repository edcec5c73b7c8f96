--------------------------- MODULE RestApiProofs ---------------------------
(***************************************************************************)
(* Proofs about the memory backend and about the handlers over it, for     *)
(* every set of prefixes, blobs, bodies, clients, levels and requests in   *)
(* flight and every limit.                                                 *)
(*                                                                         *)
(* The backend's counter is compared with the set Cells of stored bytes,   *)
(* so each method's arithmetic becomes one union or difference of disjoint *)
(* finite sets; finiteness of Cells is part of the inductive invariant, no *)
(* set of names has to be finite.  For the handlers, InFlight and          *)
(* LateSavesHeld strengthen the backend's MemInv to an inductive           *)
(* invariant; the action properties follow from it step by step.           *)
(***************************************************************************)
EXTENDS RestApi, FiniteSetTheorems, TLAPS

\* The bytes of an object of n bytes are n cells.
LEMMA CellsCount ==
  ASSUME NEW x, NEW n \in Nat
  PROVE  /\ IsFiniteSet({x} \X (1 .. n))
         /\ Cardinality({x} \X (1 .. n)) = n
<1>1. IsFiniteSet({x}) /\ Cardinality({x}) = 1
  BY FS_Singleton
<1>2. IsFiniteSet(1 .. n) /\ Cardinality(1 .. n) = n
  BY FS_Interval
<1>3. /\ IsFiniteSet({x} \X (1 .. n))
      /\ Cardinality({x} \X (1 .. n)) = Cardinality({x}) * Cardinality(1 .. n)
  BY <1>1, <1>2, FS_Product, Zenon
<1> QED
  BY <1>1, <1>2, <1>3

\* Removing a part T of a finite set S leaves Cardinality(S) - Cardinality(T).
LEMMA RemovePart ==
  ASSUME NEW S, IsFiniteSet(S), NEW T, T \subseteq S
  PROVE  /\ IsFiniteSet(S \ T) /\ IsFiniteSet(T)
         /\ Cardinality(S \ T) = Cardinality(S) - Cardinality(T)
<1>1. S \cap T = T
  OBVIOUS
<1> QED
  BY <1>1, FS_Difference, FS_Subset

\* Adding a finite set disjoint from S adds its cardinality.
LEMMA AddPart ==
  ASSUME NEW S, IsFiniteSet(S), NEW T, IsFiniteSet(T), S \cap T = {}
  PROVE  /\ IsFiniteSet(S \cup T)
         /\ Cardinality(S \cup T) = Cardinality(S) + Cardinality(T)
<1>1. Cardinality(S) \in Nat /\ Cardinality(T) \in Nat
  BY FS_CardinalityType
<1> QED
  BY <1>1, FS_Union, FS_EmptySet

\* What is stored for an object has a natural number of bytes.
LEMMA SizeAtType ==
  ASSUME MemTypeOK, NEW p \in Prefix, NEW o \in Object
  PROVE  SizeAt(p, o) \in Nat
BY ContentAssumption DEF MemTypeOK, SizeAt

\* A cell is stored exactly when it is a position within its object.
CellsPositions ==
  \A x : x \in Cells <=>
    \E p \in Prefix, o \in Object, i \in Nat :
      x = <<<<p, o>>, i>> /\ 1 <= i /\ i <= SizeAt(p, o)

\* CellsPositions holds wherever the variables have their types.
LEMMA CellsMembership == MemTypeOK => CellsPositions
<1> SUFFICES ASSUME MemTypeOK PROVE CellsPositions
  OBVIOUS
<1>1. ASSUME NEW x, x \in Cells
      PROVE  \E p \in Prefix, o \in Object, i \in Nat :
               x = <<<<p, o>>, i>> /\ 1 <= i /\ i <= SizeAt(p, o)
  <2>1. PICK p \in Prefix, o \in Object : x \in CellsAt(p, o)
    BY <1>1 DEF Cells, CellsOf
  <2>2. SizeAt(p, o) \in Nat
    BY SizeAtType
  <2> QED
    BY <2>1, <2>2 DEF CellsAt
<1>2. ASSUME NEW p \in Prefix, NEW o \in Object, NEW i \in Nat,
             1 <= i, i <= SizeAt(p, o)
      PROVE  <<<<p, o>>, i>> \in Cells
  <2>1. <<<<p, o>>, i>> \in CellsAt(p, o)
    BY <1>2, SizeAtType DEF CellsAt
  <2> QED
    BY <2>1 DEF Cells, CellsOf
<1> QED
  BY <1>1, <1>2 DEF CellsPositions

\* The bytes of a part of a repository are among the cells, and are the cells
\* whose object lies in that part.
LEMMA CellsOfMembership ==
  ASSUME MemTypeOK, NEW p \in Prefix, NEW S, S \subseteq Object
  PROVE  \A x : x \in CellsOf(p, S) <=>
           \E o \in S, i \in Nat :
              x = <<<<p, o>>, i>> /\ 1 <= i /\ i <= SizeAt(p, o)
<1>1. \A o \in S : SizeAt(p, o) \in Nat
  BY SizeAtType
<1> QED
  BY <1>1 DEF CellsOf, CellsAt

\* The two loops of DeleteRepo count each byte of the repository once.
LEMMA ReclaimedIsRepo ==
  ASSUME MemTypeOK, AccountingExact, NEW p \in Prefix
  PROVE  /\ CellsOf(p, Object) \subseteq Cells
         /\ IsFiniteSet(CellsOf(p, Object))
         /\ Reclaimed(p) = Cardinality(CellsOf(p, Object))
<1> DEFINE C == CellsAt(p, Config)
           B == CellsOf(p, Blob)
<1>1. CellsOf(p, Object) = C \cup B
  BY DEF CellsOf, Object
<1>2. CellsOf(p, Object) \subseteq Cells
  BY DEF Cells
<1>3. IsFiniteSet(CellsOf(p, Object)) /\ IsFiniteSet(C) /\ IsFiniteSet(B)
  BY <1>1, <1>2, FS_Subset DEF AccountingExact
<1>4. C \cap B = {}
  BY ConfigAssumption DEF CellsOf, CellsAt
<1>5. Cardinality(C \cup B) = Cardinality(C) + Cardinality(B)
  BY <1>3, <1>4, AddPart
<1> QED
  BY <1>1, <1>2, <1>3, <1>5 DEF Reclaimed

-----------------------------------------------------------------------------
\* DeleteRepo keeps the invariant: the counter drops by the repository's cells.
LEMMA DeleteRepoStep ==
  ASSUME MemInv, NEW p \in Prefix, DeleteRepo(p)
  PROVE  MemInv'
<1> USE DEF MemInv
<1>1. CASE DeleteRepoErr(p) # "ok"
  <2>1. UNCHANGED memVars
    BY <1>1 DEF DeleteRepo
  <2> QED
    BY <2>1 DEF memVars, MemTypeOK, OrphanFree, AccountingExact, QuotaRespected,
                Cells, CellsOf, CellsAt, SizeAt
<1>2. CASE DeleteRepoErr(p) = "ok"
  <2>1. /\ usedBytes' = usedBytes - Reclaimed(p)
        /\ repos' = repos \ {p}
        /\ data' = [data EXCEPT ![p] = [o \in Object |-> Nil]]
    BY <1>2 DEF DeleteRepo
  <2>2. /\ CellsOf(p, Object) \subseteq Cells
        /\ IsFiniteSet(Cells \ CellsOf(p, Object))
        /\ Cardinality(Cells \ CellsOf(p, Object)) = usedBytes - Reclaimed(p)
        /\ Cardinality(Cells \ CellsOf(p, Object)) \in Nat
        /\ Reclaimed(p) \in Nat
    BY ReclaimedIsRepo, RemovePart, FS_CardinalityType DEF AccountingExact
  <2>3. MemTypeOK'
    BY <2>1, <2>2 DEF MemTypeOK
  <2>4. Cells' = Cells \ CellsOf(p, Object)
    <3>1. \A q \in Prefix, o \in Object :
             SizeAt(q, o)' = IF q = p THEN 0 ELSE SizeAt(q, o)
      BY <2>1 DEF SizeAt, MemTypeOK
    <3>2. CellsPositions /\ CellsPositions'
      BY <2>3, CellsMembership, PTL
    <3>3. \A x : x \in Cells' <=> x \in Cells /\ x \notin CellsOf(p, Object)
      BY <3>1, <3>2, CellsOfMembership DEF CellsPositions
    <3> QED
      BY <3>3
  <2>5. AccountingExact'
    BY <2>1, <2>2, <2>4 DEF AccountingExact
  <2>6. OrphanFree'
    BY <2>1 DEF OrphanFree, MemTypeOK
  <2>7. QuotaRespected'
    BY <2>1, <2>2, QuotaAssumption DEF QuotaRespected, MemTypeOK
  <2> QED
    BY <2>3, <2>5, <2>6, <2>7
<1> QED
  BY <1>1, <1>2

\* Storing v (or nothing, v = Nil) under one object: the cells of the old value
\* go, those of the new one come, all others stay.
LEMMA ReplaceCells ==
  ASSUME MemTypeOK, AccountingExact, MemTypeOK',
         NEW p \in Prefix, NEW o \in Object, NEW v \in Content \cup {Nil},
         data' = [data EXCEPT ![p][o] = v]
  PROVE  /\ IsFiniteSet(Cells')
         /\ Cardinality(Cells') =
              Cardinality(Cells) - SizeAt(p, o) + (IF v = Nil THEN 0 ELSE Size[v])
<1> DEFINE n == IF v = Nil THEN 0 ELSE Size[v]
           New == {<<p, o>>} \X (1 .. n)
           Kept == Cells \ CellsAt(p, o)
<1>1. n \in Nat /\ SizeAt(p, o) \in Nat
  BY ContentAssumption, SizeAtType
<1>2. /\ IsFiniteSet(New) /\ Cardinality(New) = n
      /\ Cardinality(CellsAt(p, o)) = SizeAt(p, o)
  <2> HIDE DEF n
  <2> QED
    BY <1>1, CellsCount DEF CellsAt
<1>3. /\ IsFiniteSet(Kept)
      /\ Cardinality(Kept) = Cardinality(Cells) - SizeAt(p, o)
  <2>1. CellsAt(p, o) \subseteq Cells
    BY DEF Cells, CellsOf
  <2> QED
    BY <1>2, <2>1, RemovePart DEF AccountingExact
<1>4. Cells' = Kept \cup New
  <2>1. \A q \in Prefix, r \in Object :
           SizeAt(q, r)' = IF q = p /\ r = o THEN n ELSE SizeAt(q, r)
    BY DEF SizeAt, MemTypeOK
  <2>2. CellsPositions /\ CellsPositions'
    BY CellsMembership, PTL
  <2>3. \A x : x \in CellsAt(p, o) <=>
          \E i \in Nat : x = <<<<p, o>>, i>> /\ 1 <= i /\ i <= SizeAt(p, o)
    BY <1>1 DEF CellsAt
  <2>4. \A x : x \in New <=>
          \E i \in Nat : x = <<<<p, o>>, i>> /\ 1 <= i /\ i <= n
    <3> HIDE DEF n
    <3> QED
      BY <1>1
  <2>5. \A x : x \in Cells' <=> (x \in Cells /\ x \notin CellsAt(p, o)) \/ x \in New
    <3> HIDE DEF n, New
    <3>1. ASSUME NEW x, x \in Cells'
          PROVE  (x \in Cells /\ x \notin CellsAt(p, o)) \/ x \in New
      BY <3>1, <2>1, <2>2, <2>3, <2>4 DEF CellsPositions
    <3>2. ASSUME NEW x, x \in Cells, x \notin CellsAt(p, o)
          PROVE  x \in Cells'
      BY <3>2, <2>1, <2>2, <2>3 DEF CellsPositions
    <3>3. ASSUME NEW x, x \in New
          PROVE  x \in Cells'
      BY <3>3, <2>1, <2>2, <2>4 DEF CellsPositions
    <3> QED
      BY <3>1, <3>2, <3>3
  <2> QED
    BY <2>5
<1>5. Kept \cap New = {}
  <2>1. \A x \in New : x \in CellsAt(p, o) \/ x \notin Cells
    <3> HIDE DEF n
    <3>1. ASSUME NEW i \in 1 .. n, <<<<p, o>>, i>> \in Cells
          PROVE  <<<<p, o>>, i>> \in CellsAt(p, o)
      <4>1. CellsPositions
        BY CellsMembership
      <4>2. PICK q \in Prefix, r \in Object, j \in Nat :
              <<<<p, o>>, i>> = <<<<q, r>>, j>> /\ 1 <= j /\ j <= SizeAt(q, r)
        BY <3>1, <4>1 DEF CellsPositions
      <4>3. p = q /\ o = r /\ i = j
        BY <4>2
      <4> QED
        BY <4>2, <4>3, <1>1 DEF CellsAt
    <3> QED
      BY <3>1
  <2> QED
    BY <2>1
<1>6. Cardinality(Kept \cup New) = Cardinality(Kept) + n /\ IsFiniteSet(Kept \cup New)
  <2> HIDE DEF n, New, Kept
  <2> QED
    BY <1>2, <1>3, <1>5, AddPart
<1> QED
  BY <1>3, <1>4, <1>6

\* A save keeps the invariant: the quota check is made on the exact new total.
LEMMA SaveObjectStep ==
  ASSUME MemInv, NEW p \in Prefix, NEW o \in Object, NEW c \in Content,
         SaveObject(p, o, c)
  PROVE  MemInv'
<1> USE DEF MemInv
<1>1. CASE SaveObjectErr(p, o, c) # "ok"
  <2>1. UNCHANGED memVars
    BY <1>1 DEF SaveObject, memVars
  <2> QED
    BY <2>1 DEF memVars, MemTypeOK, OrphanFree, AccountingExact, QuotaRespected,
                Cells, CellsOf, CellsAt, SizeAt
<1>2. CASE SaveObjectErr(p, o, c) = "ok"
  <2>1. /\ usedBytes' = usedBytes - SizeAt(p, o) + Size[c]
        /\ data' = [data EXCEPT ![p][o] = c]
        /\ repos' = repos
    BY <1>2 DEF SaveObject
  <2>2. p \in repos /\ ~(usedBytes - SizeAt(p, o) + Size[c] > MaxBytes)
    BY <1>2 DEF SaveObjectErr
  <2>3. SizeAt(p, o) \in Nat /\ Size[c] \in Nat /\ c # Nil
    BY SizeAtType, ContentAssumption
  <2>4. MemTypeOK'
    BY <2>1, <2>3 DEF MemTypeOK
  <2>5. AccountingExact' /\ usedBytes' \in Nat
    <3>1. /\ IsFiniteSet(Cells')
          /\ Cardinality(Cells') = Cardinality(Cells) - SizeAt(p, o) + Size[c]
      BY <2>1, <2>3, <2>4, ReplaceCells
    <3>2. Cardinality(Cells') \in Nat
      BY <3>1, FS_CardinalityType
    <3> QED
      BY <2>1, <3>1, <3>2 DEF AccountingExact
  <2>6. OrphanFree'
    BY <2>1, <2>2 DEF OrphanFree, MemTypeOK
  <2>7. QuotaRespected'
    BY <2>1, <2>2, <2>3, <2>5, QuotaAssumption DEF QuotaRespected, MemTypeOK
  <2> QED
    BY <2>4, <2>5, <2>6, <2>7
<1> QED
  BY <1>1, <1>2

\* Deleting a blob keeps the invariant.
LEMMA DeleteBlobStep ==
  ASSUME MemInv, NEW p \in Prefix, NEW b \in Blob, DeleteBlob(p, b)
  PROVE  MemInv'
<1> USE DEF MemInv
<1>1. CASE DeleteBlobErr(p, b) # "ok"
  <2>1. UNCHANGED memVars
    BY <1>1 DEF DeleteBlob, memVars
  <2> QED
    BY <2>1 DEF memVars, MemTypeOK, OrphanFree, AccountingExact, QuotaRespected,
                Cells, CellsOf, CellsAt, SizeAt
<1>2. CASE DeleteBlobErr(p, b) = "ok"
  <2>1. /\ usedBytes' = usedBytes - SizeAt(p, b)
        /\ data' = [data EXCEPT ![p][b] = Nil]
        /\ repos' = repos
    BY <1>2 DEF DeleteBlob
  <2>2. b \in Object /\ SizeAt(p, b) \in Nat
    BY SizeAtType DEF Object
  <2>3. MemTypeOK'
    BY <2>1, <2>2 DEF MemTypeOK
  <2>4. AccountingExact' /\ usedBytes' \in Nat
    <3>1. IsFiniteSet(Cells') /\ Cardinality(Cells') = Cardinality(Cells) - SizeAt(p, b) + 0
      BY <2>1, <2>2, <2>3, ReplaceCells
    <3>2. Cardinality(Cells') \in Nat
      BY <3>1, FS_CardinalityType
    <3> QED
      BY <2>1, <2>2, <3>1, <3>2 DEF AccountingExact, MemTypeOK
  <2>5. OrphanFree'
    BY <2>1, <2>2 DEF OrphanFree, MemTypeOK
  <2>6. QuotaRespected'
    BY <2>1, <2>2, <2>4, QuotaAssumption DEF QuotaRespected, MemTypeOK
  <2> QED
    BY <2>3, <2>4, <2>5, <2>6
<1> QED
  BY <1>1, <1>2

\* Creating a repository changes no stored byte.
LEMMA CreateRepoStep ==
  ASSUME MemInv, NEW p \in Prefix, CreateRepo(p)
  PROVE  MemInv'
BY DEF MemInv, CreateRepo, MemTypeOK, OrphanFree, AccountingExact, QuotaRespected,
       Cells, CellsOf, CellsAt, SizeAt

\* The empty backend satisfies the invariant.
LEMMA MemInitInv == MemInit => MemInv
<1> SUFFICES ASSUME MemInit PROVE MemInv
  OBVIOUS
<1>1. MemTypeOK /\ OrphanFree
  BY DEF MemInit, MemTypeOK, OrphanFree
<1>2. \A p \in Prefix, o \in Object : SizeAt(p, o) = 0
  BY DEF MemInit, SizeAt
<1>3. Cells = {}
  <2>1. CellsPositions
    BY <1>1, CellsMembership
  <2> QED
    BY <1>2, <2>1 DEF CellsPositions
<1>4. AccountingExact
  BY <1>3, FS_EmptySet DEF AccountingExact, MemInit
<1> QED
  BY <1>1, <1>4, QuotaAssumption DEF MemInv, QuotaRespected, MemInit

\* Every method of the memory backend keeps MemInv.
LEMMA MemInvStep == MemInv /\ [MemNext]_memVars => MemInv'
<1> SUFFICES ASSUME MemInv, [MemNext]_memVars PROVE MemInv'
  OBVIOUS
<1>1. CASE UNCHANGED memVars
  BY <1>1 DEF MemInv, memVars, MemTypeOK, OrphanFree, AccountingExact,
              QuotaRespected, Cells, CellsOf, CellsAt, SizeAt
<1>2. CASE MemNext
  BY <1>2, CreateRepoStep, DeleteRepoStep, SaveObjectStep, DeleteBlobStep DEF MemNext
<1> QED
  BY <1>1, <1>2

\* The whole inductive invariant of the memory backend.
THEOREM MemInvariant == MemSpec => []MemInv
BY MemInitInv, MemInvStep, PTL DEF MemSpec

\* After any sequence of calls the memory backend's counter is the number of
\* bytes it stores.
THEOREM MemAccounting == MemSpec => []AccountingExact
<1>1. MemInv => AccountingExact
  BY DEF MemInv
<1> QED
  BY <1>1, MemInvariant, PTL

\* The memory backend never holds more than its configured limit.
THEOREM MemQuota == MemSpec => []QuotaRespected
<1>1. MemInv => QuotaRespected
  BY DEF MemInv
<1> QED
  BY <1>1, MemInvariant, PTL

\* No byte of a deleted repository survives under its prefix.
THEOREM MemNoOrphans == MemSpec => []OrphanFree
<1>1. MemInv => OrphanFree
  BY DEF MemInv
<1> QED
  BY <1>1, MemInvariant, PTL

\* Every method of the memory backend is one step of the abstract object store,
\* or none: the backend implements ObjectStore.
THEOREM MemImplements == MemSpec => MemImplementsStore
<1>1. MemInit => Store!Init
  BY DEF MemInit, Store!Init
<1>2. MemTypeOK /\ [MemNext]_memVars => [Store!Next]_data
  <2> SUFFICES ASSUME MemTypeOK, [MemNext]_memVars, data' # data PROVE Store!Next
    OBVIOUS
  <2>1. PICK p \in Prefix :
          \/ CreateRepo(p)
          \/ DeleteRepo(p)
          \/ \E o \in Object, c \in Content : SaveObject(p, o, c)
          \/ \E b \in Blob : DeleteBlob(p, b)
    BY DEF MemNext, memVars
  <2>2. CASE DeleteRepo(p)
    <3>1. data' = [data EXCEPT ![p] = [o \in Object |-> Nil]]
      BY <2>2 DEF DeleteRepo, memVars
    <3>2. Store!Drop(p, Object)
      BY <3>1 DEF Store!Drop
    <3> QED BY <3>2 DEF Store!Next
  <2>3. ASSUME NEW o \in Object, NEW c \in Content, SaveObject(p, o, c) PROVE Store!Next
    <3>1. data' = [data EXCEPT ![p][o] = c]
      BY <2>3 DEF SaveObject
    <3>2. Store!Put(p, o, c)
      BY <3>1 DEF Store!Put
    <3> QED BY <3>2 DEF Store!Next
  <2>4. ASSUME NEW b \in Blob, DeleteBlob(p, b) PROVE Store!Next
    <3>1. data' = [data EXCEPT ![p][b] = Nil]
      BY <2>4 DEF DeleteBlob
    <3>2. b \in Object /\ data[p] \in [Object -> Content \cup {Nil}]
      BY DEF Object, MemTypeOK
    <3>3. [data[p] EXCEPT ![b] = Nil] = [o \in Object |-> IF o \in {b} THEN Nil ELSE data[p][o]]
      BY <3>2
    <3>4. data' = [data EXCEPT ![p] = [o \in Object |-> IF o \in {b} THEN Nil ELSE data[p][o]]]
      BY <3>1, <3>3
    <3>5. Store!Drop(p, {b})
      BY <3>4 DEF Store!Drop
    <3>6. {b} \in SUBSET Object
      BY <3>2
    <3> QED BY <3>5, <3>6 DEF Store!Next
  <2>5. ~CreateRepo(p)
    BY DEF CreateRepo
  <2> QED BY <2>1, <2>2, <2>3, <2>4, <2>5
<1>3. MemSpec => []MemTypeOK
  <2>1. MemInv => MemTypeOK
    BY DEF MemInv
  <2> QED BY <2>1, MemInvariant, PTL
<1>4. MemSpec => Store!Init /\ [][Store!Next]_data
  BY <1>1, <1>2, <1>3, PTL DEF MemSpec
<1> QED BY <1>4 DEF MemImplementsStore, Store!Spec

-----------------------------------------------------------------------------
(* The handlers. *)

\* Only these steps reach the backend's state, and each is one of its methods.
LEMMA StepsAreMethods ==
  ASSUME InFlight, Next
  PROVE  [MemNext]_memVars
<1>1. ASSUME NEW r \in Request, NEW c, NEW kind, NEW p, NEW o, NEW body,
             Arrive(r, c, kind, p, o, body)
      PROVE  UNCHANGED memVars
  BY <1>1 DEF Arrive, memVars
<1>2. ASSUME NEW r \in Request, Handle(r) PROVE [MemNext]_memVars
  <2>1. CASE Save(r)
    <3>1. /\ rq[r].p \in Prefix /\ rq[r].o \in Object /\ rq[r].body \in Content
      <4>1. /\ rq[r].p \in Prefix /\ rq[r].o \in Targets(rq[r].kind)
            /\ rq[r].body \in Payloads(rq[r].kind, rq[r].o)
            /\ rq[r].kind \in {"SaveConfig", "SaveBlob"}
        BY <2>1 DEF InFlight, InFlightAt, Save
      <4> QED
        BY <4>1, BodiesAssumption DEF Targets, Payloads, Object
    <3> QED
      BY <2>1, <3>1 DEF Save, MemNext
  <2>2. CASE CallDeleteBlob(r)
    <3>1. rq[r].p \in Prefix /\ rq[r].o \in Blob
      BY <2>2 DEF InFlight, InFlightAt, CallDeleteBlob, Calls, Targets
    <3> QED
      BY <2>2, <3>1 DEF CallDeleteBlob, MemNext
  <2>3. CASE CallCreateRepo(r)
    BY <2>3 DEF InFlight, InFlightAt, CallCreateRepo, Calls, MemNext
  <2>4. CASE CallDeleteRepo(r)
    BY <2>4 DEF InFlight, InFlightAt, CallDeleteRepo, Calls, MemNext
  <2>5. CASE StatConfig(r) \/ CallReadObject(r) \/ CallListBlobs(r) \/ GetRange(r) \/ Finish(r)
    BY <2>5 DEF StatConfig, CallReadObject, CallListBlobs, GetRange, Finish, memVars
  <2>6. ASSUME NEW offset, NEW wanted, StatRange(r, offset, wanted)
        PROVE  UNCHANGED memVars
    BY <2>6 DEF StatRange, memVars
  <2> QED
    BY <1>2, <2>1, <2>2, <2>3, <2>4, <2>5, <2>6 DEF Handle
<1>3. ASSUME NEW r \in Request, UploadFails(r) PROVE UNCHANGED memVars
  BY <1>3 DEF UploadFails, memVars
<1>4. ASSUME NEW p \in Prefix, NEW b \in Lock, UIDeleteLock(p, b) PROVE MemNext
  BY <1>4, LockAssumption DEF UIDeleteLock, MemNext
<1> QED
  BY <1>1, <1>2, <1>3, <1>4 DEF Next

\* The four steps that may change what is stored for object o of prefix p.
ChangedBy(r, p, o) ==
  \/ Save(r) /\ rq[r].o = o /\ data'[p][o] # Nil
  \/ CallDeleteBlob(r) /\ rq[r].o = o /\ data'[p][o] = Nil
  \/ CallDeleteRepo(r) /\ data'[p][o] = Nil

\* A change of a stored object has a cause: a request on its prefix, or the web
\* UI's lock deletion.
LEMMA ChangeHasCause ==
  ASSUME MemTypeOK, InFlight, Next, NEW p \in Prefix, NEW o \in Object,
         data'[p][o] # data[p][o]
  PROVE  \/ \E r \in Request : rq[r].p = p /\ ChangedBy(r, p, o)
         \/ o \in Lock /\ data'[p][o] = Nil /\ UNCHANGED slots
<1>1. ASSUME NEW r \in Request, Save(r)
      PROVE  rq[r].p = p /\ ChangedBy(r, p, o)
  <2>1. /\ rq[r].p \in Prefix /\ rq[r].o \in Targets(rq[r].kind)
        /\ rq[r].body \in Payloads(rq[r].kind, rq[r].o)
        /\ rq[r].kind \in {"SaveConfig", "SaveBlob"}
    BY <1>1 DEF InFlight, InFlightAt, Save
  <2>2. rq[r].o \in Object /\ rq[r].body \in Content
    BY <2>1, BodiesAssumption DEF Targets, Payloads, Object
  <2>3. data' = [data EXCEPT ![rq[r].p][rq[r].o] = rq[r].body]
    BY <1>1 DEF Save, SaveObject
  <2> QED
    BY <1>1, <2>1, <2>2, <2>3, ContentAssumption DEF MemTypeOK, ChangedBy
<1>2. ASSUME NEW r \in Request, CallDeleteBlob(r)
      PROVE  rq[r].p = p /\ ChangedBy(r, p, o)
  <2>1. rq[r].p \in Prefix /\ rq[r].o \in Object
    BY <1>2 DEF InFlight, InFlightAt, CallDeleteBlob, Calls, Targets, Object
  <2>2. data' = [data EXCEPT ![rq[r].p][rq[r].o] = Nil]
    BY <1>2 DEF CallDeleteBlob, DeleteBlob
  <2> QED
    BY <1>2, <2>1, <2>2 DEF MemTypeOK, ChangedBy
<1>3. ASSUME NEW r \in Request, CallDeleteRepo(r)
      PROVE  rq[r].p = p /\ ChangedBy(r, p, o)
  <2>1. rq[r].p \in Prefix
    BY <1>3 DEF InFlight, InFlightAt, CallDeleteRepo, Calls
  <2>2. data' = [data EXCEPT ![rq[r].p] = [x \in Object |-> Nil]]
    BY <1>3 DEF CallDeleteRepo, DeleteRepo, memVars
  <2> QED
    BY <1>3, <2>1, <2>2 DEF MemTypeOK, ChangedBy
<1>4. ASSUME NEW q \in Prefix, NEW b \in Lock, UIDeleteLock(q, b)
      PROVE  o \in Lock /\ data'[p][o] = Nil /\ UNCHANGED slots
  <2>1. data' = [data EXCEPT ![q][b] = Nil] /\ b \in Object
    BY <1>4, LockAssumption DEF UIDeleteLock, DeleteBlob, Object
  <2> QED
    BY <1>4, <2>1 DEF MemTypeOK, UIDeleteLock
<1>5. ASSUME NEW r \in Request, Handle(r)
      PROVE  Save(r) \/ CallDeleteBlob(r) \/ CallDeleteRepo(r)
  <2>1. ASSUME NEW offset, NEW wanted, StatRange(r, offset, wanted)
        PROVE  FALSE
    BY <2>1 DEF StatRange, memVars
  <2>2. ~(StatConfig(r) \/ CallReadObject(r) \/ CallListBlobs(r) \/ GetRange(r) \/ Finish(r)
          \/ CallCreateRepo(r))
    BY DEF StatConfig, CallReadObject, CallListBlobs, GetRange, Finish, CallCreateRepo,
           CreateRepo, memVars
  <2> QED
    BY <1>5, <2>1, <2>2 DEF Handle
<1>6. ASSUME NEW r \in Request, UploadFails(r) PROVE FALSE
  BY <1>6 DEF UploadFails, memVars
<1>7. ASSUME NEW r \in Request, NEW c, NEW kind, NEW q, NEW x, NEW body,
             Arrive(r, c, kind, q, x, body)
      PROVE  FALSE
  BY <1>7 DEF Arrive, memVars
<1> QED
  BY <1>1, <1>2, <1>3, <1>4, <1>5, <1>6, <1>7 DEF Next

\* What the pre-handler checks guarantee of the request that makes a change.
LEMMA CauseIsAllowed ==
  ASSUME InFlight, NEW r \in Request, NEW p \in Prefix, NEW o \in Object,
         rq[r].p = p, ChangedBy(r, p, o)
  PROVE  /\ rq[r].client \in Client
         /\ Level[rq[r].client][p] \in 0 .. 3
         /\ Level[rq[r].client][p] >= AppendOnly
         /\ data'[p][o] = Nil /\ o \notin Lock => /\ Level[rq[r].client][p] >= FullAccess
                                                 /\ ~appendOnly
<1>1. /\ rq[r].client \in Client /\ rq[r].kind \in Kinds
      /\ Allowed(rq[r].client, p, Operation(rq[r].kind, rq[r].o))
      /\ ~Refused(rq[r].kind, rq[r].o)
  BY DEF InFlight, InFlightAt, ChangedBy, Save, CallDeleteBlob, CallDeleteRepo, Calls
<1>2. Level[rq[r].client][p] \in 0 .. 3
  BY <1>1, LevelAssumption
<1>3. CASE Save(r) /\ data'[p][o] # Nil
  <2>1. rq[r].kind \in {"SaveConfig", "SaveBlob"}
    BY <1>3 DEF InFlight, InFlightAt, Save
  <2> QED
    BY <1>1, <1>2, <1>3, <2>1 DEF Allowed, Needs, Operation
<1>4. CASE CallDeleteBlob(r) /\ rq[r].o = o
  BY <1>1, <1>2, <1>4 DEF CallDeleteBlob, Calls, Allowed, Needs, Operation, Refused,
                          AppendOnly, FullAccess
<1>5. CASE CallDeleteRepo(r)
  BY <1>1, <1>2, <1>5 DEF CallDeleteRepo, Calls, Allowed, Needs, Operation, Refused,
                          AppendOnly, FullAccess
<1> QED
  BY <1>1, <1>2, <1>3, <1>4, <1>5 DEF ChangedBy

\* Where a prefix's config is pinned, no step removes it.
LEMMA ConfigStays ==
  ASSUME MemTypeOK, InFlight, Next, NEW p \in Prefix, ConfigPinned(p), data[p][Config] # Nil
  PROVE  data'[p][Config] # Nil
<1> SUFFICES ASSUME data'[p][Config] = Nil PROVE FALSE
  OBVIOUS
<1>1. Config \in Object /\ Config \notin Lock
  BY ConfigAssumption, LockAssumption DEF Object
<1>2. PICK r \in Request : rq[r].p = p /\ ChangedBy(r, p, Config)
  BY <1>1, ChangeHasCause
<1>3. Level[rq[r].client][p] >= FullAccess /\ ~appendOnly /\ rq[r].client \in Client
      /\ Level[rq[r].client][p] \in 0 .. 3
  BY <1>1, <1>2, CauseIsAllowed
<1> QED
  BY <1>3 DEF ConfigPinned, FullAccess

-----------------------------------------------------------------------------
RequestType ==
  [kind : Kinds \cup {"none"}, client : Client \cup {Nil}, p : Prefix \cup {Nil},
   o : Object \cup {Nil}, body : Content \cup {Nil}, ao : BOOLEAN, late : BOOLEAN]
RangeType == [offset : Nat, length : Nat]
ResponseType == [status : {0, 200, 206, 403, 404, 416, 500, 507}, sent : Nat,
                 listed : SUBSET Blob]
Steps == {"idle", "statConfig", "save", "statRange", "getRange", "call", "done"}

SlotsTyped ==
  /\ appendOnly \in BOOLEAN
  /\ pc \in [Request -> Steps]
  /\ rq \in [Request -> RequestType]
  /\ rng \in [Request -> RangeType]
  /\ resp \in [Request -> ResponseType]

\* Statuses form well-typed responses.
LEMMA StatusType ==
  \A code \in {200, 403, 404, 416, 500, 507} : Status(code) \in ResponseType
BY DEF Status, Response, ResponseType

\* The names listed are blobs, and what is read has a length.
LEMMA ReadTypes ==
  ASSUME MemTypeOK, InFlight, SlotsTyped, NEW r \in Request
  PROVE  /\ Calls(r, "ReadObject") => SizeAt(rq[r].p, rq[r].o) \in Nat
         /\ pc[r] \in {"statRange", "getRange"} => SizeAt(rq[r].p, rq[r].o) \in Nat
         /\ Response(200, 0, ListBlobs(rq[r].p, Blob)) \in ResponseType
<1>1. Calls(r, "ReadObject") \/ pc[r] \in {"statRange", "getRange"}
        => rq[r].p \in Prefix /\ rq[r].o \in Object
  BY DEF InFlight, InFlightAt, Calls, Targets, Object
<1>2. ListBlobs(rq[r].p, Blob) \in SUBSET Blob
  BY DEF ListBlobs
<1> QED
  BY <1>1, <1>2, SizeAtType DEF Response, ResponseType

\* A range response's window is finite.
LEMMA WindowFinite ==
  ASSUME NEW size \in Nat, NEW offset \in Nat, NEW length \in Nat, NEW sum \in Int
  PROVE  Cardinality(GetObjectWindow(size, offset, length, sum)) \in Nat
<1>1. CASE offset >= size
  BY <1>1, FS_EmptySet DEF GetObjectWindow
<1>2. CASE ~(offset >= size)
  <2> DEFINE last == (IF length > 0 /\ sum < size THEN sum ELSE size) - 1
  <2>1. last \in Int
    OBVIOUS
  <2>2. IsFiniteSet(offset .. last)
    BY <2>1, FS_Interval
  <2>3. GetObjectWindow(size, offset, length, sum) = offset .. last
    BY <1>2 DEF GetObjectWindow
  <2> QED
    BY <2>2, <2>3, FS_CardinalityType
<1> QED
  BY <1>1, <1>2

\* Answering a request keeps the slots' types.
LEMMA AnswerTyped ==
  ASSUME SlotsTyped, NEW r \in Request, NEW x \in ResponseType, Answer(r, x)
  PROVE  SlotsTyped'
BY DEF SlotsTyped, Answer, Goto, Steps

\* An arriving request has a well-typed slot.
LEMMA ArriveTyped ==
  ASSUME SlotsTyped, NEW r \in Request, NEW c \in Client, NEW kind \in Kinds, NEW p \in Prefix,
         NEW o \in Targets(kind), NEW body \in Payloads(kind, o),
         Arrive(r, c, kind, p, o, body)
  PROVE  SlotsTyped'
<1>1. o \in Object \cup {Nil} /\ body \in Content \cup {Nil}
  BY BodiesAssumption DEF Targets, Payloads, Kinds, Object
<1>2. \A ao : FirstStep(kind, o, ao) \in Steps
  BY DEF FirstStep, Steps
<1>3. pc' \in [Request -> Steps]
  BY <1>2 DEF Arrive, SlotsTyped, Steps
<1>4. resp' \in [Request -> ResponseType]
  BY DEF Arrive, SlotsTyped, ResponseType, Response, NoResponse
<1>5. rq' \in [Request -> RequestType]
  BY <1>1 DEF Arrive, SlotsTyped, RequestType
<1> QED
  BY <1>3, <1>4, <1>5 DEF Arrive, SlotsTyped

\* Every step keeps the slots' types.
LEMMA SlotsTypedStep ==
  ASSUME MemTypeOK, InFlight, SlotsTyped, Next
  PROVE  SlotsTyped'
<1>1. ASSUME NEW r \in Request, NEW c \in Client, NEW kind \in Kinds, NEW p \in Prefix,
             NEW o \in Targets(kind), NEW body \in Payloads(kind, o),
             Arrive(r, c, kind, p, o, body)
      PROVE  SlotsTyped'
  BY <1>1, ArriveTyped
<1>2. ASSUME NEW r \in Request, Handle(r) PROVE SlotsTyped'
  <2>1. CASE StatConfig(r)
    <3>1. CASE Answer(r, Status(403))
      BY <3>1, AnswerTyped, StatusType
    <3>2. CASE Goto(r, "save") /\ UNCHANGED <<appendOnly, rq, rng, resp>>
      BY <3>2 DEF SlotsTyped, Goto, Steps
    <3> QED
      BY <2>1, <3>1, <3>2 DEF StatConfig
  <2>2. CASE Save(r)
    <3>1. \A err : SaveStatus(err) \in {200, 507, 500}
      BY DEF SaveStatus
    <3> QED
      BY <2>2, <3>1, AnswerTyped, StatusType DEF Save
  <2>3. CASE CallDeleteBlob(r) \/ CallCreateRepo(r) \/ CallDeleteRepo(r)
    BY <2>3, AnswerTyped, StatusType DEF CallDeleteBlob, CallCreateRepo, CallDeleteRepo
  <2>4. CASE CallReadObject(r)
    <3>1. Response(200, SizeAt(rq[r].p, rq[r].o), {}) \in ResponseType
      BY <2>4, ReadTypes DEF CallReadObject, Response, ResponseType
    <3> QED
      BY <2>4, <3>1, AnswerTyped, StatusType DEF CallReadObject
  <2>5. CASE CallListBlobs(r)
    BY <2>5, ReadTypes, AnswerTyped DEF CallListBlobs
  <2>6. ASSUME NEW offset \in 0 .. MaxInt, NEW wanted \in parseRange(offset),
               StatRange(r, offset, wanted)
        PROVE  SlotsTyped'
    <3> DEFINE size == SizeAt(rq[r].p, rq[r].o)
               x == [offset |-> offset, length |-> IF wanted <= 0 \/ Plus(offset, wanted) > size
                                                   THEN size - offset ELSE wanted]
    <3>1. size \in Nat
      BY <2>6, ReadTypes DEF StatRange
    <3>2. CASE Answer(r, Status(404)) \/ Answer(r, Status(416))
      BY <3>2, AnswerTyped, StatusType
    <3>3. CASE /\ offset < size
               /\ Goto(r, "getRange")
               /\ rng' = [rng EXCEPT ![r] = x]
               /\ UNCHANGED <<appendOnly, rq, resp>>
      <4>1. x \in RangeType
        <5> HIDE DEF size
        <5> QED
          BY <3>1, <3>3, MaxIntAssumption DEF RangeType, parseRange, Plus
      <4> QED
        BY <3>3, <4>1 DEF SlotsTyped, Goto, Steps
    <3> QED
      BY <2>6, <3>2, <3>3 DEF StatRange
  <2>7. CASE GetRange(r)
    <3> DEFINE sum == Plus(rng[r].offset, rng[r].length)
               window == GetObjectWindow(SizeAt(rq[r].p, rq[r].o), rng[r].offset, rng[r].length, sum)
    <3>1. Cardinality(window) \in Nat
      <4>1. SizeAt(rq[r].p, rq[r].o) \in Nat
        BY <2>7, ReadTypes DEF GetRange
      <4>2. rng[r].offset \in Nat /\ rng[r].length \in Nat
        BY DEF SlotsTyped, RangeType
      <4>3. sum \in Int
        BY <4>2, MaxIntAssumption DEF Plus
      <4> QED
        BY <4>1, <4>2, <4>3, WindowFinite
    <3>2. Response(206, Cardinality(window), {}) \in ResponseType
      <4> HIDE DEF window
      <4> QED
        BY <3>1 DEF Response, ResponseType
    <3>3. \/ Answer(r, Status(404)) \/ Answer(r, Status(500))
          \/ Answer(r, Response(206, Cardinality(window), {}))
      BY <2>7 DEF GetRange
    <3> QED
      <4> HIDE DEF window
      <4> QED
        BY <3>2, <3>3, AnswerTyped, StatusType
  <2>8. CASE Finish(r)
    <3>1. NoRequest \in RequestType /\ NoRange \in RangeType /\ NoResponse \in ResponseType
      BY DEF NoRequest, RequestType, NoRange, RangeType, NoResponse, Response, ResponseType
    <3> QED
      BY <2>8, <3>1 DEF Finish, SlotsTyped, Goto, Steps
  <2> QED
    BY <1>2, <2>1, <2>2, <2>3, <2>4, <2>5, <2>6, <2>7, <2>8 DEF Handle
<1>3. ASSUME NEW r \in Request, UploadFails(r) PROVE SlotsTyped'
  BY <1>3, AnswerTyped, StatusType DEF UploadFails
<1>4. ASSUME NEW p \in Prefix, NEW b \in Lock, UIDeleteLock(p, b) PROVE SlotsTyped'
  BY <1>4 DEF UIDeleteLock, slots, SlotsTyped
<1> QED
  BY <1>1, <1>2, <1>3, <1>4 DEF Next

-----------------------------------------------------------------------------
\* A slot that a step does not touch keeps what is known of it.
LEMMA UntouchedSlot ==
  ASSUME MemTypeOK, InFlight, LateSavesHeld, Next, NEW s \in Request,
         pc'[s] = pc[s], rq'[s] = rq[s], appendOnly' = appendOnly
  PROVE  InFlightAt(s)' /\ LateSaveHeldAt(s)'
<1>1. InFlightAt(s) /\ LateSaveHeldAt(s)
  BY DEF InFlight, LateSavesHeld
<1>2. InFlightAt(s)'
  BY <1>1 DEF InFlightAt, Refused
<1>3. LateSaveHeldAt(s)'
  <2> SUFFICES ASSUME pc[s] \in {"save", "statConfig"}, rq[s].kind = "SaveConfig",
                      rq[s].late, ConfigPinned(rq[s].p)'
               PROVE  pc[s] = "statConfig" /\ data'[rq[s].p][Config] # Nil
    BY DEF LateSaveHeldAt
  <2>1. ConfigPinned(rq[s].p)
    BY DEF ConfigPinned
  <2>2. pc[s] = "statConfig" /\ data[rq[s].p][Config] # Nil /\ rq[s].p \in Prefix
    BY <1>1, <2>1 DEF LateSaveHeldAt, InFlightAt
  <2> QED
    BY <2>1, <2>2, ConfigStays
<1> QED
  BY <1>2, <1>3

\* A slot that is answered or freed has nothing left to keep.
LEMMA EndedSlot ==
  ASSUME NEW r, pc'[r] \in {"idle", "done"}
  PROVE  InFlightAt(r)' /\ LateSaveHeldAt(r)'
BY DEF InFlightAt, LateSaveHeldAt

\* An admitted request carries the ACL's consent, and a config save that is late
\* starts with its look.
LEMMA ArrivedSlot ==
  ASSUME SlotsTyped, NEW r \in Request, NEW c \in Client, NEW kind \in Kinds, NEW p \in Prefix,
         NEW o \in Targets(kind), NEW body \in Payloads(kind, o),
         Arrive(r, c, kind, p, o, body)
  PROVE  InFlightAt(r)' /\ LateSaveHeldAt(r)'
<1> DEFINE ao == Operation(kind, o) = "write" /\ ~Allowed(c, p, "delete")
           barred == ~Allowed(c, p, Operation(kind, o)) \/ Refused(kind, o)
<1>1. pc' = [pc EXCEPT ![r] = IF barred THEN "done" ELSE FirstStep(kind, o, ao)]
  BY DEF Arrive
<1>2. CASE barred
  <2>1. pc'[r] = "done"
    BY <1>1, <1>2 DEF SlotsTyped
  <2> QED
    BY <2>1, EndedSlot
<1>3. CASE ~barred
  <2>1. pc'[r] = FirstStep(kind, o, ao)
    BY <1>1, <1>3 DEF SlotsTyped
  <2>2. /\ rq'[r].client = c /\ rq'[r].p = p /\ rq'[r].kind = kind /\ rq'[r].o = o
        /\ rq'[r].body = body /\ rq'[r].late = (o # Nil /\ data[p][o] # Nil)
        /\ appendOnly' = appendOnly /\ data' = data
    BY DEF Arrive, SlotsTyped, memVars
  <2>3. Allowed(c, p, Operation(kind, o)) /\ ~Refused(kind, o)
    BY <1>3
  <2>4. InFlightAt(r)'
    <3>1. Refused(kind, o)' = Refused(kind, o)
      BY <2>2 DEF Refused
    <3>2. /\ pc'[r] = "save" => kind \in {"SaveConfig", "SaveBlob"}
          /\ pc'[r] = "statConfig" => kind = "SaveConfig"
          /\ pc'[r] \in {"statRange", "getRange"} => kind = "RangeBlob"
      BY <2>1 DEF FirstStep
    <3> QED
      BY <2>2, <2>3, <3>1, <3>2 DEF InFlightAt
  <2>5. LateSaveHeldAt(r)'
    <3> SUFFICES ASSUME kind = "SaveConfig", o # Nil /\ data[p][o] # Nil, ConfigPinned(p)
                 PROVE  pc'[r] = "statConfig" /\ data[p][Config] # Nil
      BY <2>2 DEF LateSaveHeldAt, ConfigPinned
    <3>1. o = Config
      BY DEF Targets
    <3>2. appendOnly \/ ao
      <4>1. Level[c][p] \in 0 .. 3 /\ (appendOnly \/ Level[c][p] < FullAccess)
        BY LevelAssumption DEF ConfigPinned
      <4> QED
        BY <4>1 DEF Operation, Allowed, Needs, FullAccess
    <3> QED
      BY <2>1, <3>1, <3>2 DEF FirstStep
  <2> QED
    BY <2>4, <2>5
<1> QED
  BY <1>2, <1>3

\* The look of SaveConfig lets only saves pass whose config was not there, and a
\* range read goes on as the range read it is.
LEMMA AdvancedSlot ==
  ASSUME MemInv, InFlight, LateSavesHeld, SlotsTyped, NEW r \in Request,
         UNCHANGED <<memVars, appendOnly, rq>>,
         \/ /\ pc[r] = "statConfig" /\ StatObjectErr(rq[r].p, Config) = "ErrNotFound"
            /\ Goto(r, "save")
         \/ /\ pc[r] = "statRange"
            /\ Goto(r, "getRange")
  PROVE  InFlightAt(r)' /\ LateSaveHeldAt(r)'
<1>1. InFlightAt(r) /\ LateSaveHeldAt(r)
  BY DEF InFlight, LateSavesHeld
<1>2. rq' = rq /\ data' = data /\ appendOnly' = appendOnly
  BY DEF memVars
<1>3. CASE pc[r] = "statRange" /\ Goto(r, "getRange")
  <2>1. pc'[r] = "getRange"
    BY <1>3 DEF Goto, SlotsTyped
  <2> QED
    BY <1>1, <1>2, <1>3, <2>1 DEF InFlightAt, LateSaveHeldAt, Refused
<1>4. CASE /\ pc[r] = "statConfig" /\ StatObjectErr(rq[r].p, Config) = "ErrNotFound"
           /\ Goto(r, "save")
  <2>1. pc'[r] = "save"
    BY <1>4 DEF Goto, SlotsTyped
  <2>2. rq[r].p \in Prefix /\ Config \in Object
    BY <1>1, <1>4 DEF InFlightAt, Object
  <2>3. data[rq[r].p][Config] = Nil
    BY <1>4, <2>2 DEF StatObjectErr, MemInv, OrphanFree
  <2>4. ~(rq[r].kind = "SaveConfig" /\ rq[r].late /\ ConfigPinned(rq[r].p))
    BY <1>1, <1>4, <2>3 DEF LateSaveHeldAt
  <2>5. LateSaveHeldAt(r)'
    BY <1>2, <2>4 DEF LateSaveHeldAt, ConfigPinned
  <2>6. InFlightAt(r)'
    BY <1>1, <1>2, <1>4, <2>1 DEF InFlightAt, Refused
  <2> QED
    BY <2>5, <2>6
<1> QED
  BY <1>3, <1>4

\* Every step of a handler or of the environment keeps what is known of the
\* requests in flight.
LEMMA InFlightStep ==
  ASSUME MemInv, SlotsTyped, InFlight, LateSavesHeld, Next
  PROVE  InFlight' /\ LateSavesHeld'
<1>0. MemTypeOK
  BY DEF MemInv
<1> DEFINE Kept(r) ==
             /\ InFlightAt(r)' /\ LateSaveHeldAt(r)'
             /\ \A s \in Request \ {r} : pc'[s] = pc[s] /\ rq'[s] = rq[s]
             /\ appendOnly' = appendOnly
<1>1. SUFFICES (\E r \in Request : Kept(r)) \/ UNCHANGED <<appendOnly, slots>>
  <2>1. CASE UNCHANGED <<appendOnly, slots>>
    <3>1. \A s \in Request : InFlightAt(s)' /\ LateSaveHeldAt(s)'
      BY <1>0, <2>1, UntouchedSlot DEF slots
    <3> QED
      BY <3>1 DEF InFlight, LateSavesHeld
  <2>2. ASSUME NEW r \in Request, InFlightAt(r)', LateSaveHeldAt(r)',
               \A s \in Request \ {r} : pc'[s] = pc[s] /\ rq'[s] = rq[s],
               appendOnly' = appendOnly
        PROVE  InFlight' /\ LateSavesHeld'
    <3>1. \A s \in Request \ {r} : InFlightAt(s)' /\ LateSaveHeldAt(s)'
      BY <1>0, <2>2, UntouchedSlot
    <3> QED
      BY <2>2, <3>1 DEF InFlight, LateSavesHeld
  <2> QED
    BY <2>1, <2>2
<1>2. ASSUME NEW r \in Request, NEW c \in Client, NEW kind \in Kinds, NEW p \in Prefix,
             NEW o \in Targets(kind), NEW body \in Payloads(kind, o),
             Arrive(r, c, kind, p, o, body)
      PROVE  Kept(r)
  BY <1>2, ArrivedSlot DEF Arrive, SlotsTyped
<1>3. ASSUME NEW r \in Request, NEW x, Answer(r, x)
      PROVE  Kept(r)
  <2>1. pc'[r] = "done" /\ rq' = rq /\ appendOnly' = appendOnly
        /\ \A s \in Request \ {r} : pc'[s] = pc[s]
    BY <1>3 DEF Answer, Goto, SlotsTyped
  <2> QED
    BY <2>1, EndedSlot
<1>4. ASSUME NEW r \in Request, NEW step, Goto(r, step), UNCHANGED <<memVars, appendOnly, rq>>,
             \/ /\ pc[r] = "statConfig" /\ StatObjectErr(rq[r].p, Config) = "ErrNotFound"
                /\ step = "save"
             \/ pc[r] = "statRange" /\ step = "getRange"
      PROVE  Kept(r)
  <2>1. InFlightAt(r)' /\ LateSaveHeldAt(r)'
    BY <1>4, AdvancedSlot
  <2> QED
    BY <1>4, <2>1 DEF Goto, SlotsTyped
<1>5. ASSUME NEW r \in Request, Finish(r)
      PROVE  Kept(r)
  <2>1. pc'[r] = "idle"
    BY <1>5 DEF Finish, Goto, SlotsTyped
  <2> QED
    BY <1>5, <2>1, EndedSlot DEF Finish, Goto, SlotsTyped
<1>6. ASSUME NEW r \in Request, Handle(r)
      PROVE  \/ \E x : Answer(r, x)
             \/ \E step : /\ Goto(r, step) /\ UNCHANGED <<memVars, appendOnly, rq>>
                          /\ \/ /\ pc[r] = "statConfig"
                                /\ StatObjectErr(rq[r].p, Config) = "ErrNotFound"
                                /\ step = "save"
                             \/ pc[r] = "statRange" /\ step = "getRange"
             \/ Finish(r)
  <2>1. CASE StatConfig(r)
    BY <2>1 DEF StatConfig
  <2>2. ASSUME NEW offset, NEW wanted, StatRange(r, offset, wanted)
        PROVE  \/ \E x : Answer(r, x)
               \/ /\ Goto(r, "getRange") /\ UNCHANGED <<memVars, appendOnly, rq>>
                  /\ pc[r] = "statRange"
    BY <2>2 DEF StatRange
  <2>3. CASE Save(r) \/ CallDeleteBlob(r) \/ CallCreateRepo(r) \/ CallDeleteRepo(r)
             \/ CallReadObject(r) \/ CallListBlobs(r) \/ GetRange(r)
    BY <2>3 DEF Save, CallDeleteBlob, CallCreateRepo, CallDeleteRepo, CallReadObject,
                CallListBlobs, GetRange
  <2> QED
    BY <1>6, <2>1, <2>2, <2>3 DEF Handle
<1>7. ASSUME NEW r \in Request, UploadFails(r) PROVE Answer(r, Status(500))
  BY <1>7 DEF UploadFails
<1>8. ASSUME NEW p \in Prefix, NEW b \in Lock, UIDeleteLock(p, b)
      PROVE  UNCHANGED <<appendOnly, slots>>
  BY <1>8 DEF UIDeleteLock
<1>9. ASSUME NEW r \in Request, Handle(r) \/ UploadFails(r)
      PROVE  Kept(r)
  <2> HIDE DEF Kept
  <2>1. CASE \E x : Answer(r, x)
    BY <2>1, <1>3
  <2>2. CASE \E step : /\ Goto(r, step) /\ UNCHANGED <<memVars, appendOnly, rq>>
                       /\ \/ /\ pc[r] = "statConfig"
                             /\ StatObjectErr(rq[r].p, Config) = "ErrNotFound"
                             /\ step = "save"
                          \/ pc[r] = "statRange" /\ step = "getRange"
    BY <2>2, <1>4
  <2>3. CASE Finish(r)
    BY <2>3, <1>5
  <2> QED
    BY <1>9, <1>6, <1>7, <2>1, <2>2, <2>3
<1>10. CASE \E r \in Request, c \in Client, kind \in Kinds, p \in Prefix :
              \E o \in Targets(kind) : \E body \in Payloads(kind, o) :
                Arrive(r, c, kind, p, o, body)
  <2> HIDE DEF Kept
  <2> QED
    BY <1>10, <1>2
<1>11. CASE \E p \in Prefix, b \in Lock : UIDeleteLock(p, b)
  BY <1>11, <1>8
<1> QED
  BY <1>9, <1>10, <1>11 DEF Next

-----------------------------------------------------------------------------
ApiInv == MemInv /\ SlotsTyped /\ InFlight /\ LateSavesHeld

\* ApiInv is inductive.
LEMMA ApiInvStep == ApiInv /\ [Next]_vars => ApiInv'
<1> SUFFICES ASSUME ApiInv, [Next]_vars PROVE ApiInv'
  OBVIOUS
<1> USE DEF ApiInv
<1>1. CASE Next
  <2>1. MemInv'
    BY <1>1, StepsAreMethods, MemInvStep
  <2>2. SlotsTyped'
    BY <1>1, SlotsTypedStep DEF MemInv
  <2>3. InFlight' /\ LateSavesHeld'
    BY <1>1, InFlightStep
  <2> QED
    BY <2>1, <2>2, <2>3
<1>2. CASE UNCHANGED vars
  <2>1. MemInv'
    BY <1>2, MemInvStep DEF vars, memVars
  <2>2. SlotsTyped'
    BY <1>2 DEF vars, slots, SlotsTyped
  <2>3. InFlight' /\ LateSavesHeld'
    BY <1>2 DEF vars, slots, InFlight, InFlightAt, LateSavesHeld, LateSaveHeldAt,
                ConfigPinned, Refused
  <2> QED
    BY <2>1, <2>2, <2>3
<1> QED
  BY <1>1, <1>2

\* The server starts in it.
LEMMA ApiInvInit == Init => ApiInv
<1> SUFFICES ASSUME Init PROVE ApiInv
  OBVIOUS
<1>1. MemInv
  BY MemInitInv DEF Init
<1>2. NoRequest \in RequestType /\ NoRange \in RangeType /\ NoResponse \in ResponseType
  BY DEF NoRequest, RequestType, NoRange, RangeType, NoResponse, Response, ResponseType
<1>3. SlotsTyped
  BY <1>2 DEF Init, SlotsTyped, Steps
<1>4. InFlight /\ LateSavesHeld
  BY DEF Init, InFlight, InFlightAt, LateSavesHeld, LateSaveHeldAt
<1> QED
  BY <1>1, <1>3, <1>4 DEF ApiInv

\* The invariant that every result below rests on.
THEOREM ApiInvariant == Spec => []ApiInv
BY ApiInvInit, ApiInvStep, PTL DEF Spec

\* The handlers' state always has its type.
THEOREM ApiTyped == Spec => []TypeOK
<1>1. ApiInv => TypeOK
  BY DEF ApiInv, MemInv, SlotsTyped, TypeOK, RequestType, RangeType, ResponseType, Steps
<1> QED
  BY <1>1, ApiInvariant, PTL

\* The handlers drive the backend by its methods alone: what they do together is a behaviour
\* of the backend, so that whatever holds of it holds under them.
THEOREM ApiRefines == Spec => MemSpec
<1>1. Init => MemInit
  BY DEF Init
<1>2. ApiInv /\ [Next]_vars => [MemNext]_memVars
  BY StepsAreMethods DEF ApiInv, vars, memVars
<1> QED
  BY <1>1, <1>2, ApiInvariant, PTL DEF Spec, MemSpec

\* So the handlers together, too, are an atomic object store.
THEOREM ApiImplements == Spec => MemImplementsStore
BY ApiRefines, MemImplements

\* Whatever handlers run concurrently, the backend's byte counter stays exact and
\* within the limit.
THEOREM ApiQuota == Spec => [](AccountingExact /\ QuotaRespected)
<1>1. ApiInv => AccountingExact /\ QuotaRespected
  BY DEF ApiInv, MemInv
<1> QED
  BY <1>1, ApiInvariant, PTL

\* Every change to a repository is made by a request on it whose client's level
\* permits that change, or is the web UI deleting a lock.
THEOREM ApiChangesAuthorised == Spec => ChangesAuthorised
<1> DEFINE A == \A p \in Prefix, o \in Object : data'[p][o] # data[p][o] =>
       \/ \E r \in Request :
            /\ Moves(r) /\ rq[r].p = p
            /\ Level[rq[r].client][p] >=
                 IF data'[p][o] = Nil /\ o \notin Lock THEN FullAccess ELSE AppendOnly
       \/ o \in Lock /\ data'[p][o] = Nil /\ UNCHANGED slots
<1>1. ApiInv /\ [Next]_vars => [A]_vars
  <2> SUFFICES ASSUME ApiInv, Next, NEW p \in Prefix, NEW o \in Object,
                      data'[p][o] # data[p][o],
                      ~(o \in Lock /\ data'[p][o] = Nil /\ UNCHANGED slots)
               PROVE  \E r \in Request :
                        /\ Moves(r) /\ rq[r].p = p
                        /\ Level[rq[r].client][p] >=
                             IF data'[p][o] = Nil /\ o \notin Lock THEN FullAccess ELSE AppendOnly
    BY DEF vars
  <2>1. PICK r \in Request : rq[r].p = p /\ ChangedBy(r, p, o)
    BY ChangeHasCause DEF ApiInv, MemInv
  <2>2. Moves(r)
    BY <2>1 DEF ApiInv, SlotsTyped, ChangedBy, Save, CallDeleteBlob, CallDeleteRepo, Calls,
                Answer, Goto, Moves
  <2>3. Level[rq[r].client][p] >=
          IF data'[p][o] = Nil /\ o \notin Lock THEN FullAccess ELSE AppendOnly
    BY <2>1, CauseIsAllowed DEF ApiInv
  <2> QED
    BY <2>1, <2>2, <2>3
<1>2. ChangesAuthorised <=> [][A]_vars
  BY DEF ChangesAuthorised
<1> QED
  BY <1>1, <1>2, ApiInvariant, PTL DEF Spec

\* With append_only set, nothing but a lock ever disappears.
THEOREM ApiKeepsData == Spec => AppendOnlyKeepsData
<1> DEFINE A == appendOnly => \A p \in Prefix, o \in Object \ Lock :
                  data[p][o] # Nil => data'[p][o] # Nil
<1>1. ApiInv /\ [Next]_vars => [A]_vars
  <2> SUFFICES ASSUME ApiInv, Next, appendOnly, NEW p \in Prefix, NEW o \in Object \ Lock,
                      data[p][o] # Nil, data'[p][o] = Nil
               PROVE  FALSE
    BY DEF vars
  <2>1. PICK r \in Request : rq[r].p = p /\ ChangedBy(r, p, o)
    BY ChangeHasCause DEF ApiInv, MemInv
  <2> QED
    BY <2>1, CauseIsAllowed DEF ApiInv
<1>2. AppendOnlyKeepsData <=> [][A]_vars
  BY DEF AppendOnlyKeepsData
<1> QED
  BY <1>1, <1>2, ApiInvariant, PTL DEF Spec

\* Where append-only is in force for everyone, a config save that arrives after
\* the config never replaces it.
THEOREM ApiLateSaveRefused == Spec => LateConfigSaveRefused
<1> DEFINE A == \A r \in Request, p \in Prefix :
       /\ Moves(r) /\ rq[r].p = p /\ rq[r].kind = "SaveConfig"
       /\ ConfigPinned(p) /\ rq[r].late
       => data'[p][Config] = data[p][Config]
<1>1. ApiInv /\ [Next]_vars => [A]_vars
  <2> SUFFICES ASSUME ApiInv, Next, NEW r \in Request, NEW p \in Prefix,
                      Moves(r), rq[r].p = p, rq[r].kind = "SaveConfig",
                      ConfigPinned(p), rq[r].late, data'[p][Config] # data[p][Config]
               PROVE  FALSE
    BY DEF vars
  <2>1. Config \in Object /\ Config \notin Lock
    BY ConfigAssumption, LockAssumption DEF Object
  <2>2. PICK s \in Request : rq[s].p = p /\ ChangedBy(s, p, Config)
    BY <2>1, ChangeHasCause DEF ApiInv, MemInv
  <2>3. s = r
    BY <2>2 DEF ApiInv, SlotsTyped, ChangedBy, Save, CallDeleteBlob, CallDeleteRepo,
                Answer, Goto, Moves
  <2>4. pc[r] = "save"
    BY <2>2, <2>3 DEF ChangedBy, Save, CallDeleteBlob, CallDeleteRepo, Calls
  <2> QED
    BY <2>4 DEF ApiInv, LateSavesHeld, LateSaveHeldAt
<1>2. LateConfigSaveRefused <=> [][A]_vars
  BY DEF LateConfigSaveRefused
<1> QED
  BY <1>1, <1>2, ApiInvariant, PTL DEF Spec

-----------------------------------------------------------------------------
(***************************************************************************)
(* Range requests: what is announced from the first call fits what the     *)
(* second one finds, because a blob that is stored again has the same      *)
(* length.                                                                 *)
(***************************************************************************)
\* A blob's name fixes the length of its body, as restic's names do, which are hashes of
\* the bodies, and integers count the bytes of every body.
LengthsFixed ==
  /\ \A b \in Blob : \A c, d \in Bodies[b] : Size[c] = Size[d]
  /\ \A c \in Content : Size[c] <= MaxInt

\* Only bodies that clients send for an object are stored for it.
BodiesKept == \A p \in Prefix, o \in Object : data[p][o] \in Bodies[o] \cup {Nil}

\* The range that was announced lies within the body that the name stands for, or ends at
\* the largest integer.
RangeFitsAt(r) ==
  pc[r] = "getRange" =>
    \A c \in Bodies[rq[r].o] :
       /\ rng[r].offset < Size[c] /\ rng[r].length > 0
       /\ \/ rng[r].offset + rng[r].length <= Size[c]
          \/ rng[r].offset > 0 /\ rng[r].offset + rng[r].length = MaxInt + 1

RangeInv == BodiesKept /\ \A r \in Request : RangeFitsAt(r) /\ RangeAnsweredAt(r)

\* The clamped length, for every header and every size.
LEMMA Clamped ==
  ASSUME NEW offset \in 0 .. MaxInt, NEW wanted \in parseRange(offset),
         NEW size \in 0 .. MaxInt, offset < size
  PROVE  LET length == IF wanted <= 0 \/ Plus(offset, wanted) > size THEN size - offset ELSE wanted
         IN /\ length > 0
            /\ offset + length <= size \/ (offset > 0 /\ offset + length = MaxInt + 1)
<1>1. CASE wanted = 0
  BY <1>1, MaxIntAssumption
<1>2. ASSUME NEW end \in offset .. MaxInt, wanted = Plus(end - offset, 1)
      PROVE  LET length == IF wanted <= 0 \/ Plus(offset, wanted) > size
                           THEN size - offset ELSE wanted
             IN /\ length > 0
                /\ offset + length <= size \/ (offset > 0 /\ offset + length = MaxInt + 1)
  <2>1. CASE end - offset + 1 > MaxInt
    <3>1. wanted = 0 - MaxInt - 1
      BY <1>2, <2>1, MaxIntAssumption DEF Plus
    <3> QED BY <3>1, MaxIntAssumption
  <2>2. CASE end - offset + 1 <= MaxInt
    <3>1. wanted = end - offset + 1 /\ wanted > 0 /\ offset + wanted = end + 1
      BY <1>2, <2>2, MaxIntAssumption DEF Plus
    <3>2. CASE end < MaxInt
      <4>1. Plus(offset, wanted) = end + 1
        BY <3>1, <3>2, MaxIntAssumption DEF Plus
      <4> QED BY <3>1, <3>2, <4>1, MaxIntAssumption
    <3>3. CASE end = MaxInt
      <4>1. Plus(offset, wanted) = 0 - MaxInt - 1
        BY <3>1, <3>3, MaxIntAssumption DEF Plus
      <4>2. offset > 0
        BY <2>2, <3>3, MaxIntAssumption
      <4> QED BY <3>1, <3>3, <4>1, <4>2, MaxIntAssumption
    <3> QED BY <3>2, <3>3, MaxIntAssumption
  <2> QED BY <2>1, <2>2, MaxIntAssumption
<1> QED BY <1>1, <1>2 DEF parseRange

\* A window within the body has the announced length.
LEMMA Streams ==
  ASSUME NEW size \in 0 .. MaxInt, NEW offset \in Nat, NEW length \in Nat,
         length > 0, offset + length <= size
  PROVE  /\ Plus(offset, length) >= offset
         /\ Cardinality(GetObjectWindow(size, offset, length, Plus(offset, length))) = length
<1>1. Plus(offset, length) = offset + length
  BY MaxIntAssumption DEF Plus
<1>2. GetObjectWindow(size, offset, length, offset + length) = offset .. (offset + length - 1)
  BY MaxIntAssumption DEF GetObjectWindow
<1>3. Cardinality(offset .. (offset + length - 1)) = length
  BY FS_Interval
<1> QED BY <1>1, <1>2, <1>3

\* A range that ends at the largest integer wraps around.
LEMMA Wraps ==
  ASSUME NEW offset \in Nat, NEW length \in Nat, offset + length = MaxInt + 1
  PROVE  Plus(offset, length) < offset
BY MaxIntAssumption DEF Plus

\* The size that a range request works with is the one its name stands for.
LEMMA NamedSize ==
  ASSUME LengthsFixed, ApiInv, BodiesKept, NEW r \in Request,
         pc[r] \in {"statRange", "getRange"}, StatObjectErr(rq[r].p, rq[r].o) = "ok"
  PROVE  /\ SizeAt(rq[r].p, rq[r].o) \in 0 .. MaxInt
         /\ rq[r].o \in Blob /\ Bodies[rq[r].o] # {}
         /\ \A c \in Bodies[rq[r].o] : Size[c] = SizeAt(rq[r].p, rq[r].o)
<1>1. rq[r].p \in Prefix /\ rq[r].o \in Blob /\ rq[r].o \in Object
  BY DEF ApiInv, InFlight, InFlightAt, Targets, Object
<1>2. data[rq[r].p][rq[r].o] # Nil
  BY DEF StatObjectErr
<1>3. data[rq[r].p][rq[r].o] \in Bodies[rq[r].o]
  BY <1>1, <1>2 DEF BodiesKept
<1>4. data[rq[r].p][rq[r].o] \in Content
  BY <1>1, <1>3, BodiesAssumption
<1>5. SizeAt(rq[r].p, rq[r].o) = Size[data[rq[r].p][rq[r].o]]
  BY <1>2 DEF SizeAt
<1>6. SizeAt(rq[r].p, rq[r].o) \in 0 .. MaxInt
  BY <1>4, <1>5, ContentAssumption, MaxIntAssumption DEF LengthsFixed
<1> QED BY <1>1, <1>3, <1>5, <1>6 DEF LengthsFixed

\* Every step keeps it of the stored bodies.
LEMMA BodiesStep ==
  ASSUME ApiInv, BodiesKept, Next
  PROVE  BodiesKept'
<1> SUFFICES ASSUME NEW p \in Prefix, NEW o \in Object, data'[p][o] # data[p][o], data'[p][o] # Nil
             PROVE  data'[p][o] \in Bodies[o]
  BY DEF BodiesKept
<1>1. PICK r \in Request : rq[r].p = p /\ ChangedBy(r, p, o)
  BY ChangeHasCause DEF ApiInv, MemInv
<1>2. Save(r) /\ rq[r].o = o
  BY <1>1 DEF ChangedBy
<1>3. rq[r].body \in Bodies[o]
  BY <1>2 DEF ApiInv, InFlight, InFlightAt, Save, Payloads
<1>4. data' = [data EXCEPT ![p][o] = rq[r].body]
  BY <1>1, <1>2 DEF Save, SaveObject
<1>5. data'[p][o] = rq[r].body
  BY <1>4 DEF ApiInv, MemInv, MemTypeOK
<1> QED BY <1>3, <1>5

\* The first call of a range request.
LEMMA StatRangeFits ==
  ASSUME LengthsFixed, ApiInv, BodiesKept, NEW r \in Request, NEW offset \in 0 .. MaxInt,
         NEW wanted \in parseRange(offset), StatRange(r, offset, wanted)
  PROVE  RangeFitsAt(r)' /\ RangeAnsweredAt(r)'
<1>1. /\ pc[r] = "statRange" /\ rq' = rq
      /\ DOMAIN pc = Request /\ DOMAIN rng = Request /\ DOMAIN resp = Request
  BY DEF StatRange, Answer, ApiInv, SlotsTyped
<1>2. ASSUME NEW code \in {404, 416}, Answer(r, Status(code))
      PROVE  RangeFitsAt(r)' /\ RangeAnsweredAt(r)'
  BY <1>1, <1>2 DEF Answer, Goto, Status, Response, RangeFitsAt, RangeAnsweredAt
<1>3. ASSUME StatObjectErr(rq[r].p, rq[r].o) = "ok", offset < SizeAt(rq[r].p, rq[r].o),
             Goto(r, "getRange"),
             rng' = [rng EXCEPT ![r] =
               [offset |-> offset,
                length |-> IF wanted <= 0 \/ Plus(offset, wanted) > SizeAt(rq[r].p, rq[r].o)
                           THEN SizeAt(rq[r].p, rq[r].o) - offset ELSE wanted]]
      PROVE  RangeFitsAt(r)' /\ RangeAnsweredAt(r)'
  <2>1. PICK size \in 0 .. MaxInt : /\ size = SizeAt(rq[r].p, rq[r].o)
                                    /\ \A c \in Bodies[rq[r].o] : Size[c] = size
    BY <1>1, <1>3, NamedSize
  <2>2. /\ rng'[r].offset = offset /\ offset < size /\ pc'[r] = "getRange"
        /\ rng'[r].length = IF wanted <= 0 \/ Plus(offset, wanted) > size
                            THEN size - offset ELSE wanted
    BY <1>1, <1>3, <2>1 DEF Goto
  <2>3. /\ rng'[r].length > 0
        /\ \/ offset + rng'[r].length <= size
           \/ offset > 0 /\ offset + rng'[r].length = MaxInt + 1
    BY <2>2, Clamped
  <2> QED BY <1>1, <2>1, <2>2, <2>3 DEF RangeFitsAt, RangeAnsweredAt
<1> QED BY <1>2, <1>3 DEF StatRange

\* The second one.
LEMMA GetRangeStreams ==
  ASSUME LengthsFixed, ApiInv, BodiesKept, NEW r \in Request, RangeFitsAt(r), GetRange(r)
  PROVE  RangeFitsAt(r)' /\ RangeAnsweredAt(r)'
<1>1. /\ pc[r] = "getRange" /\ rq' = rq /\ rng' = rng
      /\ DOMAIN pc = Request /\ DOMAIN resp = Request
      /\ rng[r].offset \in Nat /\ rng[r].length \in Nat
  BY DEF GetRange, Answer, ApiInv, SlotsTyped, RangeType
<1>2. ASSUME NEW x, Answer(r, x)
      PROVE  pc'[r] = "done" /\ resp'[r] = x
  BY <1>1, <1>2 DEF Answer, Goto
<1>3. CASE StatObjectErr(rq[r].p, rq[r].o) # "ok"
  <2>1. Answer(r, Status(404))
    BY <1>3 DEF GetRange
  <2> QED BY <1>2, <2>1 DEF Status, Response, RangeFitsAt, RangeAnsweredAt
<1>4. CASE StatObjectErr(rq[r].p, rq[r].o) = "ok"
  <2>1. PICK size \in 0 .. MaxInt, c \in Bodies[rq[r].o] :
          size = SizeAt(rq[r].p, rq[r].o) /\ Size[c] = size
    BY <1>1, <1>4, NamedSize
  <2>2. PICK offset \in Nat, length \in Nat : offset = rng[r].offset /\ length = rng[r].length
    BY <1>1
  <2>3. /\ offset < size /\ length > 0
        /\ offset + length <= size \/ (offset > 0 /\ offset + length = MaxInt + 1)
    BY <1>1, <2>1, <2>2 DEF RangeFitsAt
  <2>4. LET sum == Plus(offset, length)
            panics == offset < size /\ length > 0 /\ sum < offset
        IN \/ panics /\ Answer(r, Status(500))
           \/ ~panics /\ Answer(r, Response(206, Cardinality(GetObjectWindow(size, offset, length, sum)), {}))
    BY <1>4, <2>1, <2>2 DEF GetRange
  <2>5. CASE offset + length <= size
    <3>1. /\ ~(Plus(offset, length) < offset)
          /\ Cardinality(GetObjectWindow(size, offset, length, Plus(offset, length))) = length
      <4>1. Plus(offset, length) \in Int
        BY MaxIntAssumption DEF Plus
      <4> QED BY <2>3, <2>5, <4>1, Streams
    <3>2. Answer(r, Response(206, length, {}))
      BY <2>4, <3>1
    <3> QED BY <1>1, <1>2, <2>2, <3>2 DEF Response, RangeFitsAt, RangeAnsweredAt
  <2>6. CASE offset > 0 /\ offset + length = MaxInt + 1
    <3>1. Plus(offset, length) < offset
      BY <2>6, Wraps
    <3>2. Answer(r, Status(500))
      BY <2>3, <2>4, <3>1
    <3> QED BY <1>1, <1>2, <2>2, <2>6, <3>2 DEF Status, Response, RangeFitsAt, RangeAnsweredAt
  <2> QED BY <2>3, <2>5, <2>6
<1> QED BY <1>3, <1>4

\* What a slot says of its range depends on nothing but the slot.
LEMMA RangeSlotKept ==
  ASSUME NEW s \in Request, RangeFitsAt(s), RangeAnsweredAt(s),
         pc'[s] = pc[s], rq'[s] = rq[s], rng'[s] = rng[s], resp'[s] = resp[s]
  PROVE  RangeFitsAt(s)' /\ RangeAnsweredAt(s)'
BY DEF RangeFitsAt, RangeAnsweredAt

\* The steps of the other requests' handlers.
LEMMA OthersRange ==
  ASSUME ApiInv, NEW r \in Request,
         \/ StatConfig(r) \/ Save(r) \/ CallDeleteBlob(r) \/ CallCreateRepo(r)
         \/ CallDeleteRepo(r) \/ CallReadObject(r) \/ CallListBlobs(r) \/ Finish(r)
         \/ UploadFails(r)
  PROVE  RangeFitsAt(r)' /\ RangeAnsweredAt(r)'
<1>1. DOMAIN pc = Request /\ InFlightAt(r)
  BY DEF ApiInv, SlotsTyped, InFlight
<1>2. CASE Finish(r)
  <2>1. pc'[r] = "idle"
    BY <1>1, <1>2 DEF Finish, Goto
  <2> QED BY <2>1 DEF RangeFitsAt, RangeAnsweredAt
<1>3. CASE ~Finish(r)
  <2>1. rq[r].kind # "RangeBlob"
    BY <1>1, <1>3 DEF StatConfig, Save, CallDeleteBlob, CallCreateRepo, CallDeleteRepo,
                      CallReadObject, CallListBlobs, UploadFails, Calls, InFlightAt
  <2>2. rq' = rq
    BY <1>3 DEF StatConfig, Save, CallDeleteBlob, CallCreateRepo, CallDeleteRepo,
                CallReadObject, CallListBlobs, UploadFails, Answer
  <2>3. pc'[r] \in {"save", "done"}
    BY <1>1, <1>3 DEF StatConfig, Save, CallDeleteBlob, CallCreateRepo, CallDeleteRepo,
                CallReadObject, CallListBlobs, UploadFails, Answer, Goto
  <2> QED BY <2>1, <2>2, <2>3 DEF RangeFitsAt, RangeAnsweredAt
<1> QED BY <1>2, <1>3

\* A request that arrives has no range yet.
LEMMA ArriveRange ==
  ASSUME ApiInv, NEW r \in Request, NEW c \in Client, NEW kind \in Kinds, NEW p \in Prefix,
         NEW o \in Targets(kind), NEW body \in Payloads(kind, o), Arrive(r, c, kind, p, o, body)
  PROVE  RangeFitsAt(r)' /\ RangeAnsweredAt(r)'
<1>1. DOMAIN pc = Request /\ DOMAIN resp = Request
  BY DEF ApiInv, SlotsTyped
<1>2. \A ao : FirstStep(kind, o, ao) \in {"statConfig", "save", "statRange", "call"}
  BY DEF FirstStep
<1>3. \/ pc'[r] \in {"statConfig", "save", "statRange", "call"}
      \/ pc'[r] = "done" /\ resp'[r].status = 403
  BY <1>1, <1>2 DEF Arrive, Response
<1> QED BY <1>3 DEF RangeFitsAt, RangeAnsweredAt

\* RangeInv is inductive on top of ApiInv.
LEMMA RangeInvStep ==
  ASSUME LengthsFixed
  PROVE  ApiInv /\ RangeInv /\ [Next]_vars => RangeInv'
<1> SUFFICES ASSUME ApiInv, RangeInv, [Next]_vars PROVE RangeInv'
  OBVIOUS
<1>0. /\ DOMAIN pc = Request /\ DOMAIN rq = Request /\ DOMAIN rng = Request
      /\ DOMAIN resp = Request /\ BodiesKept
      /\ \A s \in Request : RangeFitsAt(s) /\ RangeAnsweredAt(s)
  BY DEF ApiInv, SlotsTyped, RangeInv
<1>1. CASE UNCHANGED vars
  <2>1. \A s \in Request : RangeFitsAt(s)' /\ RangeAnsweredAt(s)'
    BY <1>0, <1>1, RangeSlotKept DEF vars, slots
  <2> QED BY <1>0, <1>1, <2>1 DEF vars, RangeInv, BodiesKept
<1>2. CASE Next
  <2>1. BodiesKept'
    BY <1>0, <1>2, BodiesStep
  <2>2. ASSUME NEW r \in Request, RangeFitsAt(r)' /\ RangeAnsweredAt(r)',
               \A s \in Request \ {r} : /\ pc'[s] = pc[s] /\ rq'[s] = rq[s]
                                        /\ rng'[s] = rng[s] /\ resp'[s] = resp[s]
        PROVE  RangeInv'
    <3>1. \A s \in Request \ {r} : RangeFitsAt(s)' /\ RangeAnsweredAt(s)'
      BY <1>0, <2>2, RangeSlotKept
    <3> QED BY <2>1, <2>2, <3>1 DEF RangeInv
  <2>3. ASSUME NEW r \in Request, Handle(r) \/ UploadFails(r) PROVE RangeInv'
    <3>1. RangeFitsAt(r)' /\ RangeAnsweredAt(r)'
      BY <1>0, <2>3, OthersRange, StatRangeFits, GetRangeStreams DEF Handle
    <3>2. \A s \in Request \ {r} : /\ pc'[s] = pc[s] /\ rq'[s] = rq[s]
                                   /\ rng'[s] = rng[s] /\ resp'[s] = resp[s]
      BY <1>0, <2>3 DEF Handle, StatConfig, Save, CallDeleteBlob, CallCreateRepo, CallDeleteRepo,
         CallReadObject, CallListBlobs, UploadFails, StatRange, GetRange, Finish, Answer, Goto
    <3> QED BY <2>2, <3>1, <3>2
  <2>4. ASSUME NEW r \in Request, NEW c \in Client, NEW kind \in Kinds, NEW p \in Prefix,
               NEW o \in Targets(kind), NEW body \in Payloads(kind, o),
               Arrive(r, c, kind, p, o, body)
        PROVE  RangeInv'
    <3>1. RangeFitsAt(r)' /\ RangeAnsweredAt(r)'
      BY <2>4, ArriveRange
    <3>2. \A s \in Request \ {r} : /\ pc'[s] = pc[s] /\ rq'[s] = rq[s]
                                   /\ rng'[s] = rng[s] /\ resp'[s] = resp[s]
      BY <1>0, <2>4 DEF Arrive
    <3> QED BY <2>2, <3>1, <3>2
  <2>5. ASSUME NEW p \in Prefix, NEW b \in Lock, UIDeleteLock(p, b) PROVE RangeInv'
    <3>1. \A s \in Request : RangeFitsAt(s)' /\ RangeAnsweredAt(s)'
      BY <1>0, <2>5, RangeSlotKept DEF UIDeleteLock, slots
    <3> QED BY <2>1, <3>1 DEF RangeInv
  <2> QED BY <1>2, <2>3, <2>4, <2>5 DEF Next
<1> QED BY <1>1, <1>2

\* Wherever a blob's name fixes the length of its body, a range response announces
\* exactly what it streams, whatever is deleted and stored again between the handler's
\* two calls; and only a range that ends at the largest integer makes it fail.
THEOREM ApiRanges == ASSUME LengthsFixed PROVE Spec => []RangeHeadersMatchBody
<1>1. Init => RangeInv
  BY DEF Init, MemInit, RangeInv, BodiesKept, RangeFitsAt, RangeAnsweredAt
<1>2. ApiInv /\ RangeInv /\ [Next]_vars => RangeInv'
  BY RangeInvStep
<1>3. RangeInv => RangeHeadersMatchBody
  BY DEF RangeInv, RangeHeadersMatchBody
<1> QED BY <1>1, <1>2, <1>3, ApiInvariant, PTL DEF Spec
=============================================================================
