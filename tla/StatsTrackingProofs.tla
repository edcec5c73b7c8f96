------------------------ MODULE StatsTrackingProofs ------------------------
(***************************************************************************)
(* Proofs about the traffic statistics, for every number of repositories,  *)
(* blobs and concurrent calls.  Between a call on the backend and its      *)
(* record the row is behind; what it is behind by, Owed, is kept as a set  *)
(* of cells (one for each event or byte that a slot has yet to record), so *)
(* that a call adds a part to it and a record takes that part away, and no *)
(* sum over the slots is needed.  The set of slots need not be finite.     *)
(***************************************************************************)
EXTENDS StatsTracking, FiniteSetTheorems, TLAPS

Counter == {"writeCount", "readCount", "deleteCount", "bytesWritten", "bytesRead", "bytesDeleted"}
Events == {"writeCount", "readCount", "deleteCount"}

\* The record that moves counter c, and what it adds to it.
StepOf(c) ==
  IF c \in {"writeCount", "bytesWritten"} THEN "recordWrite"
  ELSE IF c \in {"readCount", "bytesRead"} THEN "recordRead" ELSE "recordDelete"
Gain(c, bytes) == IF c \in Events THEN 1 ELSE bytes

Part(r, w) == {r} \X (1 .. w)
Owes(r, k, c) == pc[r] = StepOf(c) /\ MyKey(r) = k
Owed(k, c) == {x \in Request \X Nat : Owes(x[1], k, c) /\ x[2] \in 1 .. Gain(c, n[x[1]])}

\* A row and what is owed to it come to at most what has happened, and to exactly
\* that as long as the database has not failed.  A deletion may owe too little: its
\* size was looked up before.
Accounted(k, c) ==
  /\ IsFiniteSet(Owed(k, c))
  /\ rows[k][c] + Cardinality(Owed(k, c)) <= Happened(k, c)
  /\ ~lost /\ c # "bytesDeleted" => rows[k][c] + Cardinality(Owed(k, c)) = true[k][c]
SizesLooked == \A r \in Request : pc[r] \in {"look", "delete"} => n[r] <= MySize(r)
StatInv == TypeOK /\ SizesLooked /\ \A k \in Key, c \in Counter : Accounted(k, c)

LEMMA Counters == DOMAIN NoTraffic = Counter /\ NoTraffic \in [Counter -> Nat]
BY DEF NoTraffic, Counter

\* An upsert adds to its own counters and leaves the others.
LEMMA RecordAdds ==
  ASSUME NEW t \in [Counter -> Nat], NEW bytes \in Nat
  PROVE  /\ RecordWrite(t, bytes) \in [Counter -> Nat]
         /\ RecordRead(t, bytes) \in [Counter -> Nat]
         /\ RecordDelete(t, bytes) \in [Counter -> Nat]
         /\ \A c \in Counter :
              /\ RecordWrite(t, bytes)[c] =
                   IF StepOf(c) = "recordWrite" THEN t[c] + Gain(c, bytes) ELSE t[c]
              /\ RecordRead(t, bytes)[c] =
                   IF StepOf(c) = "recordRead" THEN t[c] + Gain(c, bytes) ELSE t[c]
              /\ RecordDelete(t, bytes)[c] =
                   IF StepOf(c) = "recordDelete" THEN t[c] + Gain(c, bytes) ELSE t[c]
<1>1. /\ RecordWrite(t, bytes) \in [Counter -> Nat]
      /\ \A c \in Counter : RecordWrite(t, bytes)[c] =
           IF StepOf(c) = "recordWrite" THEN t[c] + Gain(c, bytes) ELSE t[c]
  <2>1. RecordWrite(t, bytes) =
          [c \in Counter |-> IF c = "writeCount" THEN t[c] + 1
                            ELSE IF c = "bytesWritten" THEN t[c] + bytes ELSE t[c]]
    BY DEF RecordWrite, Counter
  <2>2. \A c \in Counter :
          IF c = "writeCount" THEN StepOf(c) = "recordWrite" /\ Gain(c, bytes) = 1
          ELSE IF c = "bytesWritten" THEN StepOf(c) = "recordWrite" /\ Gain(c, bytes) = bytes
          ELSE StepOf(c) # "recordWrite"
    BY DEF Counter, StepOf, Gain, Events
  <2> QED BY <2>1, <2>2
<1>2. /\ RecordRead(t, bytes) \in [Counter -> Nat]
      /\ \A c \in Counter : RecordRead(t, bytes)[c] =
           IF StepOf(c) = "recordRead" THEN t[c] + Gain(c, bytes) ELSE t[c]
  <2>1. RecordRead(t, bytes) =
          [c \in Counter |-> IF c = "readCount" THEN t[c] + 1
                            ELSE IF c = "bytesRead" THEN t[c] + bytes ELSE t[c]]
    BY DEF RecordRead, Counter
  <2>2. \A c \in Counter :
          IF c = "readCount" THEN StepOf(c) = "recordRead" /\ Gain(c, bytes) = 1
          ELSE IF c = "bytesRead" THEN StepOf(c) = "recordRead" /\ Gain(c, bytes) = bytes
          ELSE StepOf(c) # "recordRead"
    BY DEF Counter, StepOf, Gain, Events
  <2> QED BY <2>1, <2>2
<1>3. /\ RecordDelete(t, bytes) \in [Counter -> Nat]
      /\ \A c \in Counter : RecordDelete(t, bytes)[c] =
           IF StepOf(c) = "recordDelete" THEN t[c] + Gain(c, bytes) ELSE t[c]
  <2>1. RecordDelete(t, bytes) =
          [c \in Counter |-> IF c = "deleteCount" THEN t[c] + 1
                            ELSE IF c = "bytesDeleted" THEN t[c] + bytes ELSE t[c]]
    BY DEF RecordDelete, Counter
  <2>2. \A c \in Counter :
          IF c = "deleteCount" THEN StepOf(c) = "recordDelete" /\ Gain(c, bytes) = 1
          ELSE IF c = "bytesDeleted" THEN StepOf(c) = "recordDelete" /\ Gain(c, bytes) = bytes
          ELSE StepOf(c) # "recordDelete"
    BY DEF Counter, StepOf, Gain, Events
  <2> QED BY <2>1, <2>2
<1> QED BY <1>1, <1>2, <1>3

LEMMA PartCount ==
  ASSUME NEW r, NEW w \in Nat
  PROVE  IsFiniteSet(Part(r, w)) /\ Cardinality(Part(r, w)) = w
<1>1. IsFiniteSet({r}) /\ Cardinality({r}) = 1
  BY FS_Singleton
<1>2. IsFiniteSet(1 .. w) /\ Cardinality(1 .. w) = w
  BY FS_Interval
<1>3. /\ IsFiniteSet({r} \X (1 .. w))
      /\ Cardinality({r} \X (1 .. w)) = Cardinality({r}) * Cardinality(1 .. w)
  BY <1>1, <1>2, FS_Product, Zenon
<1> QED BY <1>1, <1>2, <1>3 DEF Part

LEMMA PartAdded ==
  ASSUME NEW S, IsFiniteSet(S), NEW r, NEW w \in Nat, S \cap Part(r, w) = {}
  PROVE  /\ IsFiniteSet(S \cup Part(r, w))
         /\ Cardinality(S \cup Part(r, w)) = Cardinality(S) + w
<1>1. Cardinality(S) \in Nat
  BY FS_CardinalityType
<1> QED BY <1>1, PartCount, FS_Union, FS_EmptySet

LEMMA PartDropped ==
  ASSUME NEW S, IsFiniteSet(S), NEW r, NEW w \in Nat, Part(r, w) \subseteq S
  PROVE  /\ IsFiniteSet(S \ Part(r, w))
         /\ Cardinality(S \ Part(r, w)) = Cardinality(S) - w
<1>1. IsFiniteSet(S \ Part(r, w)) /\ Cardinality(S \ Part(r, w)) \in Nat
  BY FS_Difference, FS_CardinalityType
<1>2. (S \ Part(r, w)) \cap Part(r, w) = {} /\ (S \ Part(r, w)) \cup Part(r, w) = S
  OBVIOUS
<1>3. Cardinality(S) = Cardinality(S \ Part(r, w)) + w
  BY <1>1, <1>2, PartAdded
<1> QED BY <1>1, <1>3

-----------------------------------------------------------------------------
\* How what is owed changes when slot r moves on.

LEMMA OwedStays ==
  ASSUME TypeOK, NEW r \in Request, NEW step,
         pc' = [pc EXCEPT ![r] = step], ~Recording(r),
         step \notin {"recordWrite", "recordRead", "recordDelete"},
         \A t \in Request \ {r} : rq'[t] = rq[t] /\ n'[t] = n[t]
  PROVE  \A k, c : Owed(k, c)' = Owed(k, c)
<1>1. ASSUME NEW k, NEW c, NEW t \in Request, NEW i
      PROVE  (Owes(t, k, c) /\ i \in 1 .. Gain(c, n[t]))'
             <=> (Owes(t, k, c) /\ i \in 1 .. Gain(c, n[t]))
  <2>1. StepOf(c) \in {"recordWrite", "recordRead", "recordDelete"}
    BY DEF StepOf
  <2>2. CASE t = r
    BY <2>1, <2>2 DEF TypeOK, Recording, Owes
  <2>3. CASE t # r
    BY <2>1, <2>3 DEF TypeOK, Owes, MyKey
  <2> QED BY <2>2, <2>3
<1> QED BY <1>1 DEF Owed

LEMMA OwedGrows ==
  ASSUME NEW r \in Request, ~Recording(r), rq' = rq, n'[r] \in Nat,
         \A t \in Request \ {r} : pc'[t] = pc[t] /\ n'[t] = n[t],
         NEW k, NEW c
  PROVE  /\ Owed(k, c) \cap Part(r, Gain(c, n'[r])) = {}
         /\ MyKey(r) = k /\ StepOf(c) = pc'[r] =>
              Owed(k, c)' = Owed(k, c) \cup Part(r, Gain(c, n'[r]))
         /\ ~(MyKey(r) = k /\ StepOf(c) = pc'[r]) => Owed(k, c)' = Owed(k, c)
<1>1. StepOf(c) \in {"recordWrite", "recordRead", "recordDelete"} /\ Gain(c, n'[r]) \in Nat
  BY DEF StepOf, Gain
<1>2. ~Owes(r, k, c)
  BY <1>1 DEF Recording, Owes
<1>3. Owed(k, c) \cap Part(r, Gain(c, n'[r])) = {}
  BY <1>2 DEF Owed, Part
<1>4. Owes(r, k, c)' <=> (MyKey(r) = k /\ StepOf(c) = pc'[r])
  BY DEF Owes, MyKey
<1>5. \A t \in Request \ {r} : (Owes(t, k, c)' <=> Owes(t, k, c)) /\ n'[t] = n[t]
  BY DEF Owes, MyKey
<1>6. Owed(k, c)' = {x \in Request \X Nat : Owes(x[1], k, c)' /\ x[2] \in 1 .. Gain(c, n'[x[1]])}
  BY DEF Owed, Gain
<1>7. ASSUME MyKey(r) = k, StepOf(c) = pc'[r]
      PROVE  Owed(k, c)' = Owed(k, c) \cup Part(r, Gain(c, n'[r]))
  <2>1. ASSUME NEW t, NEW i
        PROVE  <<t, i>> \in Owed(k, c)' <=> <<t, i>> \in Owed(k, c) \cup Part(r, Gain(c, n'[r]))
    <3>1. CASE t = r
      BY <1>1, <1>2, <1>4, <1>6, <1>7, <3>1 DEF Owed, Part
    <3>2. CASE t # r
      BY <1>5, <1>6, <3>2 DEF Owed, Part
    <3> QED BY <3>1, <3>2
  <2>2. /\ Owed(k, c)' \subseteq Request \X Nat
        /\ Owed(k, c) \cup Part(r, Gain(c, n'[r])) \subseteq Request \X Nat
    BY <1>1, <1>6 DEF Owed, Part
  <2> QED BY <2>1, <2>2
<1>8. ASSUME ~(MyKey(r) = k /\ StepOf(c) = pc'[r]) PROVE Owed(k, c)' = Owed(k, c)
  BY <1>2, <1>4, <1>5, <1>6, <1>8 DEF Owed
<1> QED BY <1>3, <1>7, <1>8

LEMMA OwedShrinks ==
  ASSUME TypeOK, NEW r \in Request, pc' = [pc EXCEPT ![r] = "idle"], rq' = rq,
         n' = [n EXCEPT ![r] = 0], NEW k, NEW c
  PROVE  IF Owes(r, k, c)
         THEN /\ Part(r, Gain(c, n[r])) \subseteq Owed(k, c)
              /\ Owed(k, c)' = Owed(k, c) \ Part(r, Gain(c, n[r]))
         ELSE Owed(k, c)' = Owed(k, c)
<1>1. StepOf(c) \in {"recordWrite", "recordRead", "recordDelete"} /\ Gain(c, n[r]) \in Nat
  BY DEF StepOf, Gain, TypeOK
<1>2. ~Owes(r, k, c)'
  BY <1>1 DEF Owes, TypeOK
<1>3. \A t \in Request \ {r} : (Owes(t, k, c)' <=> Owes(t, k, c)) /\ n'[t] = n[t]
  BY DEF Owes, MyKey, TypeOK
<1>4. Owed(k, c)' = {x \in Request \X Nat : Owes(x[1], k, c)' /\ x[2] \in 1 .. Gain(c, n'[x[1]])}
  BY DEF Owed, Gain
<1>5. CASE Owes(r, k, c)
  <2>1. Part(r, Gain(c, n[r])) \subseteq Owed(k, c)
    BY <1>1, <1>5 DEF Owed, Part
  <2>2. ASSUME NEW t, NEW i
        PROVE  <<t, i>> \in Owed(k, c)' <=> <<t, i>> \in Owed(k, c) \ Part(r, Gain(c, n[r]))
    <3>1. CASE t = r
      BY <1>2, <1>4, <3>1 DEF Owed, Part
    <3>2. CASE t # r
      BY <1>3, <1>4, <3>2 DEF Owed, Part
    <3> QED BY <3>1, <3>2
  <2>3. Owed(k, c)' \subseteq Request \X Nat /\ Owed(k, c) \subseteq Request \X Nat
    BY <1>4 DEF Owed
  <2>4. Owed(k, c)' = Owed(k, c) \ Part(r, Gain(c, n[r]))
    BY <2>2, <2>3
  <2> QED BY <1>5, <2>1, <2>4
<1>6. CASE ~Owes(r, k, c)
  <2>1. Owed(k, c)' = Owed(k, c)
    BY <1>2, <1>3, <1>4, <1>6 DEF Owed
  <2> QED BY <1>6, <2>1
<1> QED BY <1>5, <1>6
-----------------------------------------------------------------------------
LEMMA KeyTyped == ASSUME TypeOK, NEW r \in Request PROVE MyKey(r) \in Key /\ MySize(r) \in Nat
BY SizeAssumption DEF TypeOK, MyKey, MySize, Key

LEMMA StatInitInv == Init => StatInv
<1> SUFFICES ASSUME Init PROVE StatInv
  OBVIOUS
<1>1. NoCall \in [p : Prefix, b : Blob]
  BY KeyAssumption, BlobAssumption DEF NoCall
<1>2. TypeOK
  <2>1. rows \in [Key -> [DOMAIN NoTraffic -> Nat]] /\ true \in [Key -> [DOMAIN NoTraffic -> Nat]]
    BY Counters DEF Init
  <2>2. calls \in 0 .. MaxCalls
    BY CallsAssumption DEF Init
  <2>3. lost \in BOOLEAN
    BY DEF Init
  <2>4. rq \in [Request -> [p : Prefix, b : Blob]] /\ n \in [Request -> Nat]
        /\ vain \in [Key -> Nat]
    BY <1>1 DEF Init
  <2> QED BY <2>1, <2>2, <2>3, <2>4 DEF Init, TypeOK
<1>3. ASSUME NEW k \in Key, NEW c \in Counter PROVE Accounted(k, c)
  <2>1. Owed(k, c) = {}
    BY DEF Init, Owed, Owes, StepOf
  <2>2. rows[k][c] = 0 /\ true[k][c] = 0 /\ vain[k] = 0
    BY <1>3 DEF Init, NoTraffic, Counter
  <2> QED BY <2>1, <2>2, FS_EmptySet DEF Accounted, Happened
<1> QED BY <1>2, <1>3 DEF StatInv, SizesLooked, Init

\* A step that touches neither rows nor history nor the slots that owe.
LEMMA NothingOwed ==
  ASSUME StatInv, UNCHANGED <<rows, true, vain, lost>>, \A k, c : Owed(k, c)' = Owed(k, c)
  PROVE  \A k \in Key, c \in Counter : Accounted(k, c)'
BY DEF StatInv, Accounted, Happened

\* The bytes owed are at most those that passed, and differ for a deletion only.
LEMMA GainGrows ==
  ASSUME NEW c \in Counter, NEW bytes \in Nat, NEW real \in Nat, bytes <= real,
         bytes = real \/ StepOf(c) = "recordDelete"
  PROVE  /\ Gain(c, bytes) \in Nat /\ Gain(c, real) \in Nat /\ Gain(c, bytes) <= Gain(c, real)
         /\ c # "bytesDeleted" => Gain(c, bytes) = Gain(c, real)
<1>1. CASE c \in Events
  BY <1>1 DEF Gain
<1>2. CASE c \notin Events
  <2>1. c # "bytesDeleted" => bytes = real
    BY <1>2 DEF StepOf, Events, Counter
  <2> QED BY <1>2, <2>1 DEF Gain
<1> QED BY <1>1, <1>2

\* A call of the backend that succeeds: the history and what is owed grow alike.
LEMMA CallAccounted ==
  ASSUME StatInv, NEW r \in Request, ~Recording(r), rq' = rq, rows' = rows, lost' = lost,
         \A t \in Request \ {r} : pc'[t] = pc[t] /\ n'[t] = n[t],
         NEW real \in Nat, n'[r] \in Nat, n'[r] <= real, n'[r] = real \/ pc'[r] = "recordDelete",
         NEW k \in Key, NEW c \in Counter,
         Happened(k, c)' = IF MyKey(r) = k /\ StepOf(c) = pc'[r]
                           THEN Happened(k, c) + Gain(c, real) ELSE Happened(k, c),
         c # "bytesDeleted" => true'[k][c] = Happened(k, c)'
  PROVE  Accounted(k, c)'
<1>1. TypeOK /\ Accounted(k, c) /\ Cardinality(Owed(k, c)) \in Nat
  BY FS_CardinalityType DEF StatInv, Accounted
<1>2. /\ rows[k][c] \in Nat /\ Happened(k, c) \in Nat
      /\ c # "bytesDeleted" => true[k][c] = Happened(k, c)
  BY <1>1, Counters DEF TypeOK, Happened
<1>3. /\ Owed(k, c) \cap Part(r, Gain(c, n'[r])) = {}
      /\ MyKey(r) = k /\ StepOf(c) = pc'[r] =>
           Owed(k, c)' = Owed(k, c) \cup Part(r, Gain(c, n'[r]))
      /\ ~(MyKey(r) = k /\ StepOf(c) = pc'[r]) => Owed(k, c)' = Owed(k, c)
  BY OwedGrows
<1>4. CASE MyKey(r) = k /\ StepOf(c) = pc'[r]
  <2>1. /\ Gain(c, n'[r]) \in Nat /\ Gain(c, real) \in Nat /\ Gain(c, n'[r]) <= Gain(c, real)
        /\ c # "bytesDeleted" => Gain(c, n'[r]) = Gain(c, real)
    BY <1>4, GainGrows
  <2>2. /\ IsFiniteSet(Owed(k, c)')
        /\ Cardinality(Owed(k, c)') = Cardinality(Owed(k, c)) + Gain(c, n'[r])
    <3>1. IsFiniteSet(Owed(k, c))
      BY <1>1 DEF Accounted
    <3> QED BY <1>3, <1>4, <2>1, <3>1, PartAdded
  <2>3. Happened(k, c)' = Happened(k, c) + Gain(c, real)
    BY <1>4
  <2>4. /\ rows[k][c] + Cardinality(Owed(k, c)) <= Happened(k, c)
        /\ ~lost /\ c # "bytesDeleted" => rows[k][c] + Cardinality(Owed(k, c)) = Happened(k, c)
    BY <1>1, <1>2 DEF Accounted
  <2>5. Cardinality(Owed(k, c)) \in Nat
    BY <1>1
  <2>6. PICK o, g, h : o = Cardinality(Owed(k, c)) /\ g = Gain(c, n'[r]) /\ h = Happened(k, c)
    OBVIOUS
  <2>7. /\ o \in Nat /\ g \in Nat /\ h \in Nat /\ rows[k][c] \in Nat
        /\ Gain(c, real) \in Nat /\ g <= Gain(c, real)
    BY <1>2, <2>1, <2>5, <2>6
  <2>8. rows[k][c] + o <= h /\ (~lost /\ c # "bytesDeleted" => rows[k][c] + o = h)
    BY <2>4, <2>6
  <2>9. Cardinality(Owed(k, c)') = o + g
    BY <2>2, <2>6
  <2>10. Happened(k, c)' = h + Gain(c, real)
    BY <2>3, <2>6
  <2>11. rows'[k][c] = rows[k][c]
    OBVIOUS
  <2>12. rows'[k][c] + Cardinality(Owed(k, c)') <= Happened(k, c)'
    BY <2>7, <2>8, <2>9, <2>10, <2>11
  <2>13. ~lost /\ c # "bytesDeleted" => rows'[k][c] + Cardinality(Owed(k, c)') = true'[k][c]
    BY <2>1, <2>6, <2>7, <2>8, <2>9, <2>10, <2>11
  <2> QED BY <2>2, <2>12, <2>13 DEF Accounted
<1>5. CASE ~(MyKey(r) = k /\ StepOf(c) = pc'[r])
  <2>1. Owed(k, c)' = Owed(k, c) /\ Happened(k, c)' = Happened(k, c)
    BY <1>3, <1>5
  <2> QED BY <1>1, <1>2, <2>1 DEF Accounted
<1> QED BY <1>4, <1>5

\* Types, step by step; the counters by RecordAdds.
LEMMA RowTyped ==
  ASSUME TypeOK, NEW k \in Key
  PROVE  rows[k] \in [Counter -> Nat] /\ true[k] \in [Counter -> Nat]
BY Counters DEF TypeOK

LEMMA BeginStat ==
  ASSUME StatInv, NEW r \in Request, NEW step \in {"save", "get", "stat"}, NEW p \in Prefix,
         NEW b \in Blob, Begin(r, step, p, b)
  PROVE  StatInv'
<1>1. TypeOK'
  BY CallsAssumption DEF StatInv, Begin, Goto, TypeOK
<1>2. \A k, c : Owed(k, c)' = Owed(k, c)
  BY OwedStays DEF StatInv, Begin, Goto, TypeOK, Recording
<1>3. SizesLooked'
  BY DEF StatInv, SizesLooked, Begin, Goto, TypeOK, MySize
<1> QED BY <1>1, <1>2, <1>3, NothingOwed DEF StatInv, Begin

LEMMA QuietStat ==
  ASSUME StatInv, NEW r \in Request,
         SaveFails(r) \/ StatForDelete(r) \/ LookForDelete(r) \/ CallFails(r)
  PROVE  StatInv'
<1>1. MySize(r) \in Nat /\ TypeOK /\ rq[r] \in [p : Prefix, b : Blob]
  BY KeyTyped DEF StatInv, TypeOK
<1>2. /\ UNCHANGED <<rows, true, vain, rq, calls, lost>> /\ ~Recording(r)
      /\ stored' \in {stored, StoredWith(r), StoredWithout(r)}
      /\ \E step \in {"idle", "look", "delete"} : pc' = [pc EXCEPT ![r] = step]
      /\ \/ n' = n /\ (pc' = [pc EXCEPT ![r] = "idle"] \/ pc[r] = "look")
         \/ \E m \in {0, MySize(r)} : n' = [n EXCEPT ![r] = m]
  <2>1. CASE SaveFails(r)
    BY <2>1 DEF SaveFails, Goto, Recording
  <2>2. CASE StatForDelete(r)
    BY <2>2 DEF StatForDelete, Goto, Recording
  <2>3. CASE LookForDelete(r)
    BY <2>3 DEF LookForDelete, Goto, Recording
  <2>4. CASE CallFails(r)
    BY <2>4 DEF CallFails, Goto, Recording
  <2> QED BY <2>1, <2>2, <2>3, <2>4
<1>3. TypeOK'
  <2>1. /\ StoredWith(r) \in [Prefix -> SUBSET Blob] /\ StoredWithout(r) \in [Prefix -> SUBSET Blob]
    BY <1>1 DEF TypeOK, StoredWith, StoredWithout
  <2>2. stored' \in [Prefix -> SUBSET Blob]
    BY <1>1, <1>2, <2>1 DEF TypeOK
  <2> QED BY <1>1, <1>2, <2>2 DEF TypeOK
<1>4. \A k, c : Owed(k, c)' = Owed(k, c)
  <2>1. \A t \in Request \ {r} : rq'[t] = rq[t] /\ n'[t] = n[t]
    BY <1>1, <1>2 DEF TypeOK
  <2> QED BY <1>1, <1>2, <2>1, OwedStays
<1>5. SizesLooked'
  BY <1>1, <1>2 DEF StatInv, SizesLooked, TypeOK, MySize
<1> QED BY <1>2, <1>3, <1>4, <1>5, NothingOwed DEF StatInv

\* A save or a download: what is owed is what has passed.
LEMMA PassStat ==
  ASSUME StatInv, NEW r \in Request, Save(r) \/ Get(r)
  PROVE  StatInv'
<1>1. TypeOK /\ MyKey(r) \in Key /\ MySize(r) \in Nat /\ true[MyKey(r)] \in [Counter -> Nat]
      /\ rq[r] \in [p : Prefix, b : Blob]
  BY KeyTyped, RowTyped DEF StatInv, TypeOK
<1>2. PICK read \in 0 .. MySize(r), step \in {"recordWrite", "recordRead"} :
        Passes(r, step, read, IF step = "recordWrite" THEN RecordWrite(true[MyKey(r)], read)
                              ELSE RecordRead(true[MyKey(r)], read))
  <2>1. CASE Save(r)
    <3>1. PICK read \in 0 .. MySize(r) :
            Passes(r, "recordWrite", read, RecordWrite(true[MyKey(r)], read))
      BY <1>1, <2>1 DEF Save
    <3> QED BY <3>1
  <2>2. CASE Get(r)
    <3>1. PICK read \in 0 .. MySize(r) :
            Passes(r, "recordRead", read, RecordRead(true[MyKey(r)], read))
      BY <2>2 DEF Get
    <3> QED BY <3>1
  <2> QED BY <2>1, <2>2
<1>3. ~Recording(r) /\ stored' \in [Prefix -> SUBSET Blob]
  BY <1>1 DEF Save, Get, StoredWith, TypeOK, Recording
<1> DEFINE t == IF step = "recordWrite" THEN RecordWrite(true[MyKey(r)], read)
                ELSE RecordRead(true[MyKey(r)], read)
<1>4. read \in Nat /\ read <= read
  BY <1>1
<1>5. /\ t \in [Counter -> Nat]
      /\ \A c \in Counter : t[c] = IF StepOf(c) = step
                                   THEN true[MyKey(r)][c] + Gain(c, read)
                                   ELSE true[MyKey(r)][c]
  BY <1>1, <1>4, RecordAdds
<1>6. /\ true' = [true EXCEPT ![MyKey(r)] = t]
      /\ pc' = [pc EXCEPT ![r] = step] /\ rq' = rq /\ n' = [n EXCEPT ![r] = read]
      /\ UNCHANGED <<rows, vain, lost, calls>>
  BY <1>2 DEF Passes, Goto
<1> HIDE DEF t
<1>7. ASSUME NEW k \in Key, NEW c \in Counter PROVE Accounted(k, c)'
  <2>1. true'[k][c] = IF MyKey(r) = k /\ StepOf(c) = step
                      THEN true[k][c] + Gain(c, read) ELSE true[k][c]
    BY <1>1, <1>5, <1>6 DEF TypeOK
  <2>2. /\ pc'[r] = step /\ n'[r] = read
        /\ \A q \in Request \ {r} : pc'[q] = pc[q] /\ n'[q] = n[q]
    BY <1>1, <1>6 DEF TypeOK
  <2>3. /\ n'[r] \in Nat /\ n'[r] <= read /\ (n'[r] = read \/ pc'[r] = "recordDelete")
        /\ rq' = rq /\ rows' = rows /\ lost' = lost
    BY <1>4, <1>6, <2>2
  <2>4. /\ Happened(k, c)' = IF MyKey(r) = k /\ StepOf(c) = pc'[r]
                             THEN Happened(k, c) + Gain(c, read) ELSE Happened(k, c)
        /\ c # "bytesDeleted" => true'[k][c] = Happened(k, c)'
    <3>1. step # "recordDelete" /\ StepOf("bytesDeleted") = "recordDelete"
      BY DEF StepOf
    <3>2. vain'[k] = vain[k] /\ vain[k] \in Nat /\ true[k][c] \in Nat /\ Gain(c, read) \in Nat
      BY <1>1, <1>4, <1>6, RowTyped DEF TypeOK, Gain
    <3> QED BY <2>1, <2>2, <3>1, <3>2 DEF Happened
  <2> QED BY <1>3, <1>4, <2>2, <2>3, <2>4, CallAccounted
<1>8. TypeOK'
  <2>1. true' \in [Key -> [DOMAIN NoTraffic -> Nat]]
    BY <1>1, <1>5, <1>6, Counters DEF TypeOK
  <2> QED BY <1>1, <1>3, <1>4, <1>6, <2>1 DEF TypeOK
<1>9. SizesLooked'
  BY <1>1, <1>6 DEF StatInv, SizesLooked, TypeOK, MySize
<1> QED BY <1>7, <1>8, <1>9 DEF StatInv

\* The size owed was looked up earlier and may be 0, but is not more than the blob's,
\* whether the blob is still there or not.
LEMMA DeleteStat ==
  ASSUME StatInv, NEW r \in Request, Delete(r) \/ DeleteInVain(r)
  PROVE  StatInv'
<1>1. TypeOK /\ MyKey(r) \in Key /\ MySize(r) \in Nat /\ true[MyKey(r)] \in [Counter -> Nat]
      /\ rq[r] \in [p : Prefix, b : Blob] /\ vain[MyKey(r)] \in Nat
  BY KeyTyped, RowTyped DEF StatInv, TypeOK
<1>2. PICK removed \in {0, MySize(r)} :
        /\ true' = [true EXCEPT ![MyKey(r)] = RecordDelete(@, removed)]
        /\ vain' = [vain EXCEPT ![MyKey(r)] = @ + (MySize(r) - removed)]
  <2>1. CASE Delete(r)
    BY <1>1, <2>1 DEF Delete, TypeOK
  <2>2. CASE DeleteInVain(r)
    <3>1. MySize(r) - 0 = MySize(r)
      BY <1>1
    <3> QED BY <2>2, <3>1 DEF DeleteInVain
  <2> QED BY <2>1, <2>2
<1> DEFINE t == RecordDelete(true[MyKey(r)], removed)
<1>3. /\ t \in [Counter -> Nat]
      /\ \A c \in Counter : t[c] = IF StepOf(c) = "recordDelete"
                                   THEN true[MyKey(r)][c] + Gain(c, removed)
                                   ELSE true[MyKey(r)][c]
  <2>1. removed \in Nat
    BY <1>1
  <2> QED BY <1>1, <2>1, RecordAdds
<1>4. true' = [true EXCEPT ![MyKey(r)] = t]
  BY <1>1, <1>2 DEF TypeOK
<1> HIDE DEF t
<1>5. /\ pc' = [pc EXCEPT ![r] = "recordDelete"] /\ ~Recording(r) /\ rq' = rq
      /\ n[r] \in Nat /\ n[r] <= MySize(r)
      /\ UNCHANGED <<rows, lost, calls, n>>
      /\ stored' \in {stored, StoredWithout(r)}
  BY <1>1 DEF Delete, DeleteInVain, Goto, Recording, StatInv, SizesLooked, TypeOK
<1>6. ASSUME NEW k \in Key, NEW c \in Counter PROVE Accounted(k, c)'
  <2>1. true'[k][c] = IF MyKey(r) = k /\ StepOf(c) = "recordDelete"
                      THEN true[k][c] + Gain(c, removed) ELSE true[k][c]
    BY <1>1, <1>3, <1>4 DEF TypeOK
  <2>2. /\ pc'[r] = "recordDelete" /\ n'[r] = n[r]
        /\ \A q \in Request \ {r} : pc'[q] = pc[q] /\ n'[q] = n[q]
    BY <1>1, <1>5 DEF TypeOK
  <2>3. /\ n'[r] \in Nat /\ n'[r] <= MySize(r) /\ rq' = rq /\ rows' = rows /\ lost' = lost
    BY <1>5, <2>2
  <2>4. vain'[k] = (IF MyKey(r) = k THEN vain[k] + (MySize(r) - removed) ELSE vain[k])
        /\ vain[k] \in Nat /\ true[k][c] \in Nat
    BY <1>1, <1>2, RowTyped DEF TypeOK
  <2>5. /\ Happened(k, c)' = IF MyKey(r) = k /\ StepOf(c) = pc'[r]
                             THEN Happened(k, c) + Gain(c, MySize(r)) ELSE Happened(k, c)
        /\ c # "bytesDeleted" => true'[k][c] = Happened(k, c)'
    <3>1. CASE c = "bytesDeleted"
      <4>1. Gain(c, removed) = removed /\ Gain(c, MySize(r)) = MySize(r)
            /\ StepOf(c) = "recordDelete"
        BY <3>1 DEF Gain, Events, StepOf
      <4> QED BY <1>1, <2>1, <2>2, <2>4, <3>1, <4>1 DEF Happened
    <3>2. CASE c # "bytesDeleted"
      <4>1. StepOf(c) = "recordDelete" => Gain(c, removed) = Gain(c, MySize(r))
        BY <3>2 DEF Gain, Events, StepOf, Counter
      <4> QED BY <2>1, <2>2, <3>2, <4>1 DEF Happened
    <3> QED BY <3>1, <3>2
  <2> QED BY <1>1, <1>5, <2>2, <2>3, <2>5, CallAccounted
<1>7. TypeOK'
  <2>1. true' \in [Key -> [DOMAIN NoTraffic -> Nat]] /\ vain' \in [Key -> Nat]
    BY <1>1, <1>2, <1>3, <1>4, Counters DEF TypeOK
  <2>2. stored' \in [Prefix -> SUBSET Blob]
    BY <1>1, <1>5 DEF TypeOK, StoredWithout
  <2> QED BY <1>1, <1>5, <2>1, <2>2 DEF TypeOK
<1>8. SizesLooked'
  BY <1>1, <1>5 DEF StatInv, SizesLooked, TypeOK, MySize
<1> QED BY <1>6, <1>7, <1>8 DEF StatInv

\* A record pays exactly what its slot owes; one that is lost leaves the row behind
\* for good.
LEMMA RecordStat ==
  ASSUME StatInv, NEW r \in Request, Record(r) \/ RecordFails(r)
  PROVE  StatInv'
<1>1. TypeOK /\ MyKey(r) \in Key /\ rows[MyKey(r)] \in [Counter -> Nat] /\ n[r] \in Nat
  BY KeyTyped, RowTyped DEF StatInv, TypeOK
<1>2. /\ pc' = [pc EXCEPT ![r] = "idle"] /\ rq' = rq /\ n' = [n EXCEPT ![r] = 0] /\ Recording(r)
      /\ UNCHANGED <<stored, true, vain, calls>>
  BY DEF Record, RecordFails, Goto
<1> DEFINE t == Recorded(r)
<1>3. /\ t \in [Counter -> Nat]
      /\ \A c \in Counter : t[c] = IF StepOf(c) = pc[r]
                                   THEN rows[MyKey(r)][c] + Gain(c, n[r])
                                   ELSE rows[MyKey(r)][c]
  <2>1. CASE pc[r] = "recordWrite"
    BY <1>1, <2>1, RecordAdds DEF Recorded
  <2>2. CASE pc[r] = "recordRead"
    BY <1>1, <2>2, RecordAdds DEF Recorded
  <2>3. CASE pc[r] = "recordDelete"
    BY <1>1, <2>3, RecordAdds DEF Recorded
  <2> QED BY <1>2, <2>1, <2>2, <2>3 DEF Recording
<1>4. \/ rows' = [rows EXCEPT ![MyKey(r)] = t] /\ lost' = lost
      \/ rows' = rows /\ lost' = TRUE
  BY DEF Record, RecordFails
<1> HIDE DEF t
<1>5. ASSUME NEW k \in Key, NEW c \in Counter PROVE Accounted(k, c)'
  <2>1. Accounted(k, c) /\ Cardinality(Owed(k, c)) \in Nat /\ true'[k][c] = true[k][c]
        /\ Happened(k, c)' = Happened(k, c)
    BY <1>2, FS_CardinalityType DEF StatInv, Accounted, Happened
  <2>2. rows[k][c] \in Nat /\ true[k][c] \in Nat /\ Gain(c, n[r]) \in Nat
        /\ Happened(k, c) \in Nat
    <3>1. rows[k][c] \in Nat /\ true[k][c] \in Nat /\ vain[k] \in Nat
      BY <1>1, RowTyped DEF TypeOK
    <3>2. Gain(c, n[r]) \in Nat
      BY <1>1 DEF Gain
    <3>3. Happened(k, c) \in Nat
      BY <3>1 DEF Happened
    <3> QED BY <3>1, <3>2, <3>3
  <2>3. CASE Owes(r, k, c)
    <3>1. /\ IsFiniteSet(Owed(k, c)')
          /\ Cardinality(Owed(k, c)') = Cardinality(Owed(k, c)) - Gain(c, n[r])
      <4>1. /\ Part(r, Gain(c, n[r])) \subseteq Owed(k, c)
            /\ Owed(k, c)' = Owed(k, c) \ Part(r, Gain(c, n[r]))
        BY <1>1, <1>2, <2>3, OwedShrinks
      <4> QED BY <2>1, <2>2, <4>1, PartDropped DEF Accounted
    <3>2. \/ rows'[k][c] = rows[k][c] + Gain(c, n[r]) /\ lost' = lost
          \/ rows'[k][c] = rows[k][c] /\ lost' = TRUE
      BY <1>1, <1>3, <1>4, <2>3 DEF Owes, TypeOK
    <3> QED BY <2>1, <2>2, <3>1, <3>2 DEF Accounted
  <2>4. CASE ~Owes(r, k, c)
    <3>1. Owed(k, c)' = Owed(k, c)
      BY <1>1, <1>2, <2>4, OwedShrinks
    <3>2. rows'[k][c] = rows[k][c]
      BY <1>1, <1>3, <1>4, <2>4 DEF Owes, TypeOK
    <3>3. lost' = lost \/ lost' = TRUE
      BY <1>4
    <3> QED BY <2>1, <3>1, <3>2, <3>3 DEF Accounted
  <2> QED BY <2>3, <2>4
<1>6. TypeOK'
  BY <1>1, <1>2, <1>3, <1>4, Counters DEF TypeOK
<1>7. SizesLooked'
  BY <1>1, <1>2 DEF StatInv, SizesLooked, TypeOK, MySize
<1> QED BY <1>5, <1>6, <1>7 DEF StatInv

LEMMA StatStep == StatInv /\ [Next]_vars => StatInv'
<1> SUFFICES ASSUME StatInv, [Next]_vars PROVE StatInv'
  OBVIOUS
<1>1. CASE UNCHANGED vars
  <2>1. \A k, c : Owed(k, c)' = Owed(k, c)
    BY <1>1 DEF vars, Owed, Owes, MyKey, Gain
  <2> QED BY <1>1, <2>1, NothingOwed DEF vars, StatInv, TypeOK, SizesLooked, MySize
<1>2. ASSUME NEW p \in Prefix, DeleteRepo(p) PROVE StatInv'
  <2>1. \A k, c : Owed(k, c)' = Owed(k, c)
    BY <1>2 DEF DeleteRepo, Owed, Owes, MyKey, Gain
  <2>2. TypeOK'
    BY <1>2 DEF DeleteRepo, StatInv, TypeOK
  <2> QED BY <1>2, <2>1, <2>2, NothingOwed DEF DeleteRepo, StatInv, SizesLooked, MySize
<1> QED BY <1>1, <1>2, BeginStat, PassStat, QuietStat, DeleteStat, RecordStat DEF Next

LEMMA StatInvariant == Spec => []StatInv
<1> QED BY StatInitInv, StatStep, PTL DEF Spec

-----------------------------------------------------------------------------
\* Type correctness of the statistics.
THEOREM StatTyped == Spec => []TypeOK
<1>1. StatInv => TypeOK
  BY DEF StatInv
<1> QED BY <1>1, StatInvariant, PTL

\* For any number of calls in any order, the counters never run ahead of what has
\* happened, and failures of the database only make them lag.  The bytes deleted are
\* ahead of what left the storage by deletions that succeeded in vain, and no more.
THEOREM StatNeverOver == Spec => []NeverOvercounted
<1>1. StatInv => NeverOvercounted
  <2> SUFFICES ASSUME StatInv, NEW k \in Key, NEW c \in Counter
               PROVE  rows[k][c] <= Happened(k, c)
    BY Counters DEF NeverOvercounted
  <2>1. Accounted(k, c) /\ Cardinality(Owed(k, c)) \in Nat
    BY FS_CardinalityType DEF StatInv, Accounted
  <2>2. rows[k][c] \in Nat /\ Happened(k, c) \in Nat
    BY RowTyped DEF StatInv, TypeOK, Happened
  <2> QED BY <2>1, <2>2 DEF Accounted
<1> QED BY <1>1, StatInvariant, PTL

\* A row for which no record is under way is exact, but for the bytes deleted, as
\* long as the database has not failed.
THEOREM StatExact == Spec => []CountsExact
<1>1. StatInv => CountsExact
  <2> SUFFICES ASSUME StatInv, ~lost, NEW k \in Key, ~Busy(k),
                      NEW c \in Counter \ {"bytesDeleted"}
               PROVE  rows[k][c] = true[k][c]
    BY Counters DEF CountsExact
  <2>1. Owed(k, c) = {}
    BY DEF Owed, Owes, Busy, Recording, StepOf
  <2>2. Cardinality(Owed(k, c)) = 0
    BY <2>1, FS_EmptySet
  <2>3. rows[k][c] \in Nat /\ true[k][c] \in Nat
    BY RowTyped DEF StatInv
  <2> QED BY <2>2, <2>3 DEF StatInv, Accounted
<1> QED BY <1>1, StatInvariant, PTL
=============================================================================
