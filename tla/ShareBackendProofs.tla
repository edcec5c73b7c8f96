------------------------- MODULE ShareBackendProofs -------------------------
(***************************************************************************)
(* Proofs about the NFS and SMB backends, for every set of repositories,   *)
(* blobs and bodies and any sequence of failures of the network.           *)
(***************************************************************************)
EXTENDS ShareBackend, TLAPS

\* Which operation is at which call, and that its request is a proper one.
KindsAt(step) ==
  CASE step \in {"look", "lookFlat"} -> {"SaveBlob"}
    [] step \in {"body", "mkdir", "create", "write", "rename", "clean"} -> {"SaveBlob", "SaveConfig"}
    [] step \in {"remove", "removeFlat"} -> {"DeleteBlob"}
    [] step \in {"read", "readFlat"} -> {"Read"}
    [] step \in {"list", "listShard"} -> {"ListBlobs"}
    [] step = "mkdirRepo" -> {"CreateRepo"}
    [] step \in {"statRepo", "removeAll"} -> {"DeleteRepo"}
    [] OTHER -> Kinds

Placed ==
  /\ pc # "idle" => Routed /\ rq.kind \in KindsAt(pc)
  /\ pc \in {"lookFlat", "removeFlat", "readFlat", "listShard"} => rq.o \in Sharded
  /\ pc \in {"dial", "mount"} => conn = "nil"

\* The temporary file holds bytes of its object only; more than those of the present
\* save if an earlier one has left it behind; and what is renamed is whole.
TempHolds ==
  /\ \A p \in Prefix, o \in Object : tmp[p][o] # Nil => tmp[p][o].of \subseteq Bodies[o]
  /\ pc \in {"write", "rename"} =>
       tmp[rq.p][rq.o] \in Temp /\ tmp[rq.p][rq.o].of \subseteq Bodies[rq.o]
  /\ pc = "write" => tmp[rq.p][rq.o].of = {} \/ <<"clean", rq.p, rq.o>> \in blame
  /\ pc = "rename" => \/ tmp[rq.p][rq.o].is \in Bodies[rq.o]
                      \/ rq.o = Config /\ <<"clean", rq.p, rq.o>> \in blame

\* A save that is past its looks will write no second copy that nothing excuses.
Looked ==
  pc \in {"mkdir", "create", "write", "rename"} /\ rq.o \in Sharded =>
    \/ conn = "lost" \/ <<"look", rq.p, rq.o>> \in blame \/ ~Exists(rq.p, Flat(rq.o))

\* The parts of TypeOK.
OnShare ==
  /\ dirs \subseteq Prefix \X {"root", "data", "type", "shard"}
  /\ file \in [Prefix -> [Paths -> Content \cup {Nil, Torn}]]
  /\ tmp \in [Prefix -> [Object -> Temp \cup {Nil}]]
InProcess ==
  /\ conn \in {"nil", "up", "lost"} /\ pc \in Steps
  /\ rq = NoRequest \/ Routed
  /\ ans.err \in {"none", "ok", "error", "ErrNotFound", "ErrRepoNotFound"}
Noted == links \in Nat /\ mistaken \in BOOLEAN

\* Said of a step: where the file comes to be written and to be renamed.
Entered ==
  /\ pc' = "write" => CreateTemp /\ Answered /\ UNCHANGED <<rq, blame>>
  /\ pc' = "rename" => WriteTemp /\ UNCHANGED <<rq, blame>>

\* The two parts of LeftoversBlamed.
TempsBlamed ==
  \A p \in Prefix, o \in Object :
    tmp[p][o] # Nil => \/ <<"clean", p, o>> \in blame
                       \/ pc \in {"write", "rename", "clean"} /\ rq.p = p /\ rq.o = o
CopiesBlamed ==
  \A p \in Prefix, o \in Sharded :
    Exists(p, Final(o)) /\ Exists(p, Flat(o)) => <<"look", p, o>> \in blame

ShareInv == TypeOK /\ Placed /\ OneConnection /\ TempHolds /\ WholeObjects /\ Looked
            /\ LeftoversBlamed

-----------------------------------------------------------------------------
LEMMA ShareFacts ==
  /\ \A o \in Object : Final(o) \in Paths /\ Final(o)[1] = o
  /\ \A o \in Sharded : Flat(o) \in Paths /\ Flat(o)[1] = o /\ o \in Blob
  /\ \A o, q : Final(o) # Flat(q) /\ (Final(o) = Final(q) => o = q) /\ (Flat(o) = Flat(q) => o = q)
  /\ \A x \in Paths : x[1] \in Object
  /\ \A o \in Blob : o \in Object /\ o # Config
  /\ Config \in Object
BY ShareObjectAssumption DEF Paths, Final, Flat, Object

LEMMA ShareBodies ==
  ASSUME NEW o \in Object
  PROVE  Bodies[o] \subseteq Content /\ Nil \notin Bodies[o] /\ Torn \notin Bodies[o]
BY ShareNilAssumption DEF Content

\* Every operation makes its own calls, on what the request was about.
LEMMA PlacedStep ==
  ASSUME Placed, Next
  PROVE  Placed'
<1> USE DEF net, share, Routed, Kinds
<1>0. ASSUME NEW kind \in Kinds, NEW p \in Prefix, NEW o \in Targets(kind),
             NEW body \in Payloads(kind, o), Begin(kind, p, o, body)
      PROVE  Placed'
  <2>1. rq' = [kind |-> kind, p |-> p, o |-> o, body |-> body] /\ pc' \in {"ensure", "body"}
    BY <1>0 DEF Begin
  <2>2. pc' = "body" => kind \in {"SaveBlob", "SaveConfig"}
    BY <1>0 DEF Begin, Payloads
  <2>3. Routed'
    BY <2>1
  <2>4. kind \in KindsAt(pc')
    BY <2>1, <2>2 DEF KindsAt
  <2> QED BY <2>1, <2>3, <2>4 DEF Placed
<1>1. CASE ReadBody
  BY <1>1 DEF Placed, KindsAt, ReadBody, Goto, Return, Quiet, Kept, Answered, Failed, ReplyLost
<1>2. CASE Healthy
  BY <1>2 DEF Placed, KindsAt, Healthy, Goto, Return, Quiet, Kept, Answered, Failed, ReplyLost,
              FirstCall
<1>3. CASE Disconnect
  BY <1>3 DEF Placed, KindsAt, Disconnect, Goto, Return, Quiet, Kept, Answered, Failed,
              ReplyLost, FirstCall
<1>23. CASE Dial
  BY <1>23 DEF Placed, KindsAt, Dial, Goto, Return, Quiet, Kept, Answered, Failed, ReplyLost,
               FirstCall
<1>24. CASE Mount
  BY <1>24 DEF Placed, KindsAt, Mount, Goto, Return, Quiet, Kept, Answered, Failed, ReplyLost,
               FirstCall
<1>4. CASE MkdirRepo
  BY <1>4 DEF Placed, KindsAt, MkdirRepo, Goto, Return, Quiet, Kept, Answered, Failed, ReplyLost,
              MkdirAll
<1>5. CASE Mkdir
  BY <1>5 DEF Placed, KindsAt, Mkdir, Goto, Return, Quiet, Kept, Answered, Failed, ReplyLost,
              MkdirAll
<1>6. CASE Look
  BY <1>6 DEF Placed, KindsAt, Look, Goto, Return, Quiet, Kept, Answered, Failed, ReplyLost, Unseen
<1>7. CASE LookFlat
  BY <1>7 DEF Placed, KindsAt, LookFlat, Goto, Return, Quiet, Kept, Answered, Failed, ReplyLost,
              Unseen
<1>8. CASE CreateTemp
  BY <1>8 DEF Placed, KindsAt, CreateTemp, Goto, Return, Quiet, Kept, Answered, Failed,
              ReplyLost, Littered
<1>9. CASE WriteTemp
  BY <1>9 DEF Placed, KindsAt, WriteTemp, Goto, Return, Quiet, Kept, Answered, Failed, ReplyLost
<1>10. CASE RenameTemp
  BY <1>10 DEF Placed, KindsAt, RenameTemp, Goto, Return, Quiet, Kept, Answered, Failed, ReplyLost
<1>11. CASE Clean
  BY <1>11 DEF Placed, KindsAt, Clean, Goto, Return, Quiet, Kept, Answered, Failed, ReplyLost,
               Littered
<1>12. CASE Remove
  BY <1>12 DEF Placed, KindsAt, Remove, Removal, Missing, Goto, Return, Quiet, Kept, Answered,
               Failed, ReplyLost
<1>13. CASE RemoveFlat
  BY <1>13 DEF Placed, KindsAt, RemoveFlat, Removal, Missing, Goto, Return, Quiet, Kept,
               Answered, Failed, ReplyLost
<1>14. CASE Read
  BY <1>14 DEF Placed, KindsAt, Read, ReadFile, Missing, Goto, Return, Quiet, Kept, Answered,
               Failed, ReplyLost
<1>15. CASE ReadFlat
  BY <1>15 DEF Placed, KindsAt, ReadFlat, ReadFile, Missing, Goto, Return, Quiet, Kept, Answered,
               Failed, ReplyLost
<1>16. CASE List
  BY <1>16 DEF Placed, KindsAt, List, ListDir, Goto, Return, Quiet, Kept, Answered, Failed,
               ReplyLost
<1>25. CASE ListShard
  BY <1>25 DEF Placed, KindsAt, ListShard, ListDir, Goto, Return, Quiet, Kept, Answered, Failed,
               ReplyLost
<1>17. CASE StatRepo
  BY <1>17 DEF Placed, KindsAt, StatRepo, Goto, Return, Quiet, Kept, Answered, Failed, ReplyLost
<1>18. CASE RemoveEntry
  BY <1>18 DEF Placed, KindsAt, RemoveEntry, Goto, Return, Quiet, Kept, Answered, Failed, ReplyLost
<1>19. CASE RemoveEnds
  BY <1>19 DEF Placed, KindsAt, RemoveEnds, Goto, Return, Quiet, Kept, Answered, Failed, ReplyLost
<1>20. CASE Finish
  BY <1>20 DEF Placed, KindsAt, Finish
<1>21. CASE Break
  BY <1>21 DEF Placed, KindsAt, Break
<1>22. CASE Crash
  BY <1>22 DEF Placed, KindsAt, Crash, Littered
<1> QED
  BY <1>0, <1>1, <1>2, <1>3, <1>4, <1>5, <1>6, <1>7, <1>8, <1>9, <1>10, <1>11, <1>12, <1>13,
     <1>14, <1>15, <1>16, <1>17, <1>18, <1>19, <1>20, <1>21, <1>22, <1>23, <1>24, <1>25 DEF Next

\* Connections do not add up, and no call is made without one.
LEMMA ConnectionStep ==
  ASSUME Placed, OneConnection, Next
  PROVE  OneConnection'
<1> USE DEF net, share, Routed, Kinds
<1>0. ASSUME NEW kind \in Kinds, NEW p \in Prefix, NEW o \in Targets(kind),
             NEW body \in Payloads(kind, o), Begin(kind, p, o, body)
      PROVE  OneConnection'
  BY <1>0 DEF Placed, OneConnection, Begin
<1>1. CASE ReadBody
  BY <1>1 DEF Placed, OneConnection, ReadBody, Goto, Return, Quiet, Kept, Answered, Failed,
              ReplyLost
<1>2. CASE Healthy
  BY <1>2 DEF Placed, OneConnection, Healthy, Goto, Return, Quiet, Kept, Answered, Failed,
              ReplyLost, FirstCall
<1>3. CASE Disconnect
  BY <1>3 DEF Placed, OneConnection, Disconnect, Goto, Return, Quiet, Kept, Answered, Failed,
              ReplyLost, FirstCall
<1>23. CASE Dial
  BY <1>23 DEF Placed, OneConnection, Dial, Goto, Return, Quiet, Kept, Answered, Failed,
               ReplyLost, FirstCall
<1>24. CASE Mount
  BY <1>24 DEF Placed, OneConnection, Mount, Goto, Return, Quiet, Kept, Answered, Failed,
               ReplyLost, FirstCall
<1>4. CASE MkdirRepo
  BY <1>4 DEF Placed, OneConnection, MkdirRepo, Goto, Return, Quiet, Kept, Answered, Failed,
              ReplyLost, MkdirAll
<1>5. CASE Mkdir
  BY <1>5 DEF Placed, OneConnection, Mkdir, Goto, Return, Quiet, Kept, Answered, Failed,
              ReplyLost, MkdirAll
<1>6. CASE Look
  BY <1>6 DEF Placed, OneConnection, Look, Goto, Return, Quiet, Kept, Answered, Failed,
              ReplyLost, Unseen
<1>7. CASE LookFlat
  BY <1>7 DEF Placed, OneConnection, LookFlat, Goto, Return, Quiet, Kept, Answered, Failed,
              ReplyLost, Unseen
<1>8. CASE CreateTemp
  BY <1>8 DEF Placed, OneConnection, CreateTemp, Goto, Return, Quiet, Kept, Answered, Failed,
              ReplyLost, Littered
<1>9. CASE WriteTemp
  BY <1>9 DEF Placed, OneConnection, WriteTemp, Goto, Return, Quiet, Kept, Answered, Failed,
              ReplyLost
<1>10. CASE RenameTemp
  BY <1>10 DEF Placed, OneConnection, RenameTemp, Goto, Return, Quiet, Kept, Answered, Failed,
               ReplyLost
<1>11. CASE Clean
  BY <1>11 DEF Placed, OneConnection, Clean, Goto, Return, Quiet, Kept, Answered, Failed,
               ReplyLost, Littered
<1>12. CASE Remove
  BY <1>12 DEF Placed, OneConnection, Remove, Removal, Missing, Goto, Return, Quiet, Kept,
               Answered, Failed, ReplyLost
<1>13. CASE RemoveFlat
  BY <1>13 DEF Placed, OneConnection, RemoveFlat, Removal, Missing, Goto, Return, Quiet, Kept,
               Answered, Failed, ReplyLost
<1>14. CASE Read
  BY <1>14 DEF Placed, OneConnection, Read, ReadFile, Missing, Goto, Return, Quiet, Kept,
               Answered, Failed, ReplyLost
<1>15. CASE ReadFlat
  BY <1>15 DEF Placed, OneConnection, ReadFlat, ReadFile, Missing, Goto, Return, Quiet, Kept,
               Answered, Failed, ReplyLost
<1>16. CASE List
  BY <1>16 DEF Placed, OneConnection, List, ListDir, Goto, Return, Quiet, Kept, Answered, Failed,
               ReplyLost
<1>25. CASE ListShard
  BY <1>25 DEF Placed, OneConnection, ListShard, ListDir, Goto, Return, Quiet, Kept, Answered,
               Failed, ReplyLost
<1>17. CASE StatRepo
  BY <1>17 DEF Placed, OneConnection, StatRepo, Goto, Return, Quiet, Kept, Answered, Failed,
               ReplyLost
<1>18. CASE RemoveEntry
  BY <1>18 DEF Placed, OneConnection, RemoveEntry, Goto, Return, Quiet, Kept, Answered, Failed,
               ReplyLost
<1>19. CASE RemoveEnds
  BY <1>19 DEF Placed, OneConnection, RemoveEnds, Goto, Return, Quiet, Kept, Answered, Failed,
               ReplyLost
<1>20. CASE Finish
  BY <1>20 DEF Placed, OneConnection, Finish
<1>21. CASE Break
  BY <1>21 DEF Placed, OneConnection, Break
<1>22. CASE Crash
  BY <1>22 DEF Placed, OneConnection, Crash, Littered
<1> QED
  BY <1>0, <1>1, <1>2, <1>3, <1>4, <1>5, <1>6, <1>7, <1>8, <1>9, <1>10, <1>11, <1>12, <1>13,
     <1>14, <1>15, <1>16, <1>17, <1>18, <1>19, <1>20, <1>21, <1>22, <1>23, <1>24, <1>25 DEF Next

\* What a request that has reached its calls is about.
LEMMA Requested ==
  ASSUME Routed
  PROVE  /\ rq.p \in Prefix
         /\ rq.kind \in {"SaveConfig", "SaveBlob"} => rq.o \in Object /\ rq.body \in Bodies[rq.o]
         /\ rq.kind \in {"SaveBlob", "DeleteBlob", "ListBlobs"} => rq.o \in Blob
         /\ rq.kind = "Read" => rq.o \in Object
BY DEF Routed, Kinds, Targets, Payloads, Object

LEMMA ChainTyped ==
  ASSUME NEW p \in Prefix, NEW d \in {"root", "data", "type", "shard"}
  PROVE  Chain(p, d) \subseteq Prefix \X {"root", "data", "type", "shard"}
BY ShareObjectAssumption DEF Chain, Parents

\* What a step notes about the network.
LEMMA NotedStep ==
  ASSUME OneConnection', mistaken \in BOOLEAN, Next
  PROVE  Noted'
<1>1. links' \in Nat
  BY DEF OneConnection
<1>2. mistaken' = mistaken \/ mistaken' = TRUE \/ mistaken' = FALSE
  BY DEF Next, Begin, ReadBody, Healthy, Disconnect, Dial, Mount, MkdirRepo, Mkdir, Look, LookFlat,
         CreateTemp, WriteTemp, RenameTemp, Clean, Remove, RemoveFlat, Removal, Read, ReadFlat,
         ReadFile, Missing, List, ListShard, ListDir, StatRepo, RemoveEntry, RemoveEnds, Finish,
         Break, Crash, Quiet
<1>3. mistaken' \in BOOLEAN
  BY <1>2
<1> QED BY <1>1, <1>3 DEF Noted

\* The types of what the process keeps.
LEMMA ProcessStep ==
  ASSUME InProcess, Placed, Next
  PROVE  InProcess'
<1> USE DEF net, share, Routed, Steps
<1>0. ASSUME NEW kind \in Kinds, NEW p \in Prefix, NEW o \in Targets(kind),
             NEW body \in Payloads(kind, o), Begin(kind, p, o, body)
      PROVE  InProcess'
  BY <1>0 DEF InProcess, Placed, Kinds, NoAnswer, Begin
<1>1. CASE ReadBody
  BY <1>1 DEF InProcess, Placed, Kinds, NoAnswer, ReadBody, Goto, Return, Quiet, Kept, Answered,
              Failed, ReplyLost
<1>2. CASE Healthy
  BY <1>2 DEF InProcess, Placed, Kinds, NoAnswer, Healthy, Goto, Return, Quiet, Kept, Answered,
              Failed, ReplyLost, FirstCall
<1>3. CASE Disconnect
  BY <1>3 DEF InProcess, Placed, Kinds, NoAnswer, Disconnect, Goto, Return, Quiet, Kept,
              Answered, Failed, ReplyLost, FirstCall
<1>23. CASE Dial
  BY <1>23 DEF InProcess, Placed, Kinds, NoAnswer, Dial, Goto, Return, Quiet, Kept, Answered,
               Failed, ReplyLost, FirstCall
<1>24. CASE Mount
  BY <1>24 DEF InProcess, Placed, Kinds, NoAnswer, Mount, Goto, Return, Quiet, Kept, Answered,
               Failed, ReplyLost, FirstCall
<1>4. CASE MkdirRepo
  BY <1>4 DEF InProcess, Placed, Kinds, NoAnswer, MkdirRepo, Goto, Return, Quiet, Kept, Answered,
              Failed, ReplyLost, MkdirAll
<1>5. CASE Mkdir
  BY <1>5 DEF InProcess, Placed, Kinds, NoAnswer, Mkdir, Goto, Return, Quiet, Kept, Answered,
              Failed, ReplyLost, MkdirAll
<1>6. CASE Look
  BY <1>6 DEF InProcess, Placed, Kinds, NoAnswer, Look, Goto, Return, Quiet, Kept, Answered,
              Failed, ReplyLost, Unseen
<1>7. CASE LookFlat
  BY <1>7 DEF InProcess, Placed, Kinds, NoAnswer, LookFlat, Goto, Return, Quiet, Kept, Answered,
              Failed, ReplyLost, Unseen
<1>8. CASE CreateTemp
  BY <1>8 DEF InProcess, Placed, Kinds, NoAnswer, CreateTemp, Goto, Return, Quiet, Kept,
              Answered, Failed, ReplyLost, Littered
<1>9. CASE WriteTemp
  BY <1>9 DEF InProcess, Placed, Kinds, NoAnswer, WriteTemp, Goto, Return, Quiet, Kept, Answered,
              Failed, ReplyLost
<1>10. CASE RenameTemp
  BY <1>10 DEF InProcess, Placed, Kinds, NoAnswer, RenameTemp, Goto, Return, Quiet, Kept,
               Answered, Failed, ReplyLost
<1>11. CASE Clean
  BY <1>11 DEF InProcess, Placed, Kinds, NoAnswer, Clean, Goto, Return, Quiet, Kept, Answered,
               Failed, ReplyLost, Littered
<1>12. CASE Remove
  BY <1>12 DEF InProcess, Placed, Kinds, NoAnswer, Remove, Removal, Missing, Goto, Return, Quiet,
               Kept, Answered, Failed, ReplyLost
<1>13. CASE RemoveFlat
  BY <1>13 DEF InProcess, Placed, Kinds, NoAnswer, RemoveFlat, Removal, Missing, Goto, Return,
               Quiet, Kept, Answered, Failed, ReplyLost
<1>14. CASE Read
  BY <1>14 DEF InProcess, Placed, Kinds, NoAnswer, Read, ReadFile, Missing, Goto, Return, Quiet,
               Kept, Answered, Failed, ReplyLost
<1>15. CASE ReadFlat
  BY <1>15 DEF InProcess, Placed, Kinds, NoAnswer, ReadFlat, ReadFile, Missing, Goto, Return,
               Quiet, Kept, Answered, Failed, ReplyLost
<1>16. CASE List
  BY <1>16 DEF InProcess, Placed, Kinds, NoAnswer, List, ListDir, Goto, Return, Quiet, Kept,
               Answered, Failed, ReplyLost
<1>25. CASE ListShard
  BY <1>25 DEF InProcess, Placed, Kinds, NoAnswer, ListShard, ListDir, Goto, Return, Quiet, Kept,
               Answered, Failed, ReplyLost
<1>17. CASE StatRepo
  BY <1>17 DEF InProcess, Placed, Kinds, NoAnswer, StatRepo, Goto, Return, Quiet, Kept, Answered,
               Failed, ReplyLost
<1>18. CASE RemoveEntry
  BY <1>18 DEF InProcess, Placed, Kinds, NoAnswer, RemoveEntry, Goto, Return, Quiet, Kept,
               Answered, Failed, ReplyLost
<1>19. CASE RemoveEnds
  BY <1>19 DEF InProcess, Placed, Kinds, NoAnswer, RemoveEnds, Goto, Return, Quiet, Kept,
               Answered, Failed, ReplyLost
<1>20. CASE Finish
  BY <1>20 DEF InProcess, Placed, Kinds, NoAnswer, Finish
<1>21. CASE Break
  BY <1>21 DEF InProcess, Placed, Kinds, NoAnswer, Break
<1>22. CASE Crash
  BY <1>22 DEF InProcess, Placed, Kinds, NoAnswer, Crash, Littered
<1> QED
  BY <1>0, <1>1, <1>2, <1>3, <1>4, <1>5, <1>6, <1>7, <1>8, <1>9, <1>10, <1>11, <1>12, <1>13,
     <1>14, <1>15, <1>16, <1>17, <1>18, <1>19, <1>20, <1>21, <1>22, <1>23, <1>24, <1>25 DEF Next

\* What a save writes to its temporary file is of the right type, and its own.
LEMMA TempTypes ==
  ASSUME NEW o \in Object, NEW b \in Bodies[o], NEW t \in Temp, t.of \subseteq Bodies[o]
  PROVE  /\ \A u \in Partly(t, b) \cup Written(t, b) : u \in Temp /\ u.of \subseteq Bodies[o]
         /\ \A u \in Written(t, b) : u.is = b \/ ~(t.of \subseteq {b})
<1>1. b \in Content /\ t.of \cup {b} \subseteq Content
  BY ShareBodies
<1> QED BY <1>1 DEF Partly, Written, Temp

LEMMA EmptyTyped == Empty \in Temp /\ Empty.of = {}
BY DEF Empty, Temp

\* The request of a save that has come to its file.
LEMMA Saves ==
  ASSUME Placed, pc \in {"body", "mkdir", "create", "write", "rename", "clean"}
  PROVE  rq.p \in Prefix /\ rq.o \in Object /\ rq.body \in Bodies[rq.o]
BY Requested DEF Placed, KindsAt

\* One temporary file, or one file, is changed and no other.
LEMMA TmpSet ==
  ASSUME OnShare, NEW p \in Prefix, NEW o \in Object, NEW u \in Temp \cup {Nil},
         tmp' = [tmp EXCEPT ![p][o] = u]
  PROVE  /\ tmp' \in [Prefix -> [Object -> Temp \cup {Nil}]]
         /\ \A q \in Prefix, v \in Object :
              tmp'[q][v] = IF q = p /\ v = o THEN u ELSE tmp[q][v]
BY DEF OnShare

LEMMA FileSet ==
  ASSUME OnShare, NEW p \in Prefix, NEW x \in Paths, NEW u \in Content \cup {Nil, Torn},
         file' = [file EXCEPT ![p][x] = u]
  PROVE  /\ file' \in [Prefix -> [Paths -> Content \cup {Nil, Torn}]]
         /\ \A q \in Prefix, y \in Paths :
              file'[q][y] = IF q = p /\ y = x THEN u ELSE file[q][y]
BY DEF OnShare

\* What each action that touches the share does to it.
LEMMA CreateEffect ==
  ASSUME OnShare, Placed, CreateTemp
  PROVE  /\ UNCHANGED <<dirs, file>>
         /\ \/ UNCHANGED tmp
            \/ \E u \in {Empty, tmp[rq.p][rq.o]} :
                 u \in Temp /\ (tmp[rq.p][rq.o] = Nil => u = Empty)
                 /\ tmp' = [tmp EXCEPT ![rq.p][rq.o] = u]
<1>1. rq.p \in Prefix /\ rq.o \in Object
  BY Saves DEF CreateTemp
<1>2. tmp[rq.p][rq.o] \in Temp \cup {Nil}
  BY <1>1 DEF OnShare
<1>3. \A u \in Create(tmp[rq.p][rq.o]) :
        u \in {Empty, tmp[rq.p][rq.o]} /\ u \in Temp /\ (tmp[rq.p][rq.o] = Nil => u = Empty)
  BY <1>2, EmptyTyped DEF Create
<1> QED BY <1>3 DEF CreateTemp, SetTmp

LEMMA WriteEffect ==
  ASSUME OnShare, Placed, TempHolds, WriteTemp
  PROVE  /\ UNCHANGED <<dirs, file>>
         /\ \/ UNCHANGED tmp /\ pc' = "clean"
            \/ \E u \in Temp :
                 /\ tmp' = [tmp EXCEPT ![rq.p][rq.o] = u] /\ u.of \subseteq Bodies[rq.o]
                 /\ pc' = "rename" => u.is = rq.body \/ ~(tmp[rq.p][rq.o].of \subseteq {rq.body})
<1> DEFINE t == tmp[rq.p][rq.o]
<1>1. rq.p \in Prefix /\ rq.o \in Object /\ rq.body \in Bodies[rq.o]
  BY Saves DEF WriteTemp
<1>2. t \in Temp /\ t.of \subseteq Bodies[rq.o]
  BY DEF TempHolds, WriteTemp
<1>3. /\ \A u \in Partly(t, rq.body) \cup Written(t, rq.body) : u \in Temp /\ u.of \subseteq Bodies[rq.o]
      /\ \A u \in Written(t, rq.body) : u.is = rq.body \/ ~(t.of \subseteq {rq.body})
  BY <1>1, <1>2, TempTypes
<1>4. \/ UNCHANGED tmp /\ pc' = "clean"
      \/ \E u \in Partly(t, rq.body) \cup Written(t, rq.body) :
           /\ tmp' = [tmp EXCEPT ![rq.p][rq.o] = u]
           /\ pc' = "rename" => u \in Written(t, rq.body)
  BY DEF WriteTemp, SetTmp, Goto
<1>5. UNCHANGED <<dirs, file>>
  BY DEF WriteTemp
<1> QED BY <1>3, <1>4, <1>5

LEMMA RenameEffect ==
  ASSUME OnShare, Placed, TempHolds, RenameTemp
  PROVE  /\ UNCHANGED <<dirs, blame>>
         /\ \/ UNCHANGED <<file, tmp>>
            \/ /\ conn = "up"
               /\ file' = [file EXCEPT ![rq.p][Final(rq.o)] = tmp[rq.p][rq.o].is]
               /\ tmp' = [tmp EXCEPT ![rq.p][rq.o] = Nil]
               /\ tmp[rq.p][rq.o].is \in Content \cup {Torn}
<1>1. tmp[rq.p][rq.o] \in Temp
  BY DEF TempHolds, RenameTemp
<1>2. tmp[rq.p][rq.o].is \in Content \cup {Torn}
  BY <1>1 DEF Temp
<1> QED BY <1>2 DEF RenameTemp, Publish, SetTmp, Quiet, Kept, Answered, ReplyLost

LEMMA CleanEffect ==
  ASSUME Clean
  PROVE  /\ UNCHANGED <<dirs, file>>
         /\ \/ tmp' = [tmp EXCEPT ![rq.p][rq.o] = Nil] /\ UNCHANGED blame
            \/ UNCHANGED tmp /\ blame' = blame \cup {<<"clean", rq.p, rq.o>>}
BY DEF Clean, SetTmp, Littered

\* Removals of any kind: one file goes, or one temporary file, or a directory.
LEMMA RemoveEffect ==
  ASSUME OnShare, Placed, Remove \/ RemoveFlat \/ RemoveEntry
  PROVE  /\ UNCHANGED blame
         /\ \/ /\ UNCHANGED <<file, tmp>> /\ dirs' \subseteq dirs
            \/ /\ \E q \in Prefix, x \in Paths : file' = [file EXCEPT ![q][x] = Nil]
               /\ UNCHANGED <<dirs, tmp>>
            \/ /\ \E q \in Prefix, o \in Object : tmp' = [tmp EXCEPT ![q][o] = Nil]
               /\ UNCHANGED <<dirs, file>>
<1>1. CASE Remove
  <2>1. rq.p \in Prefix /\ Final(rq.o) \in Paths
    BY <1>1, Requested, ShareFacts DEF Placed, KindsAt, Remove
  <2> QED BY <1>1, <2>1 DEF Remove, Removal, Unlink, Goto, Return, Kept
<1>2. CASE RemoveFlat
  <2>1. rq.p \in Prefix /\ Flat(rq.o) \in Paths
    BY <1>2, Requested, ShareFacts DEF Placed, KindsAt, RemoveFlat
  <2> QED BY <1>2, <2>1 DEF RemoveFlat, Removal, Unlink, Return, Kept
<1>3. CASE RemoveEntry
  <2>1. Within(rq.p) \subseteq Prefix
    BY <1>3, Requested DEF Placed, Within, RemoveEntry
  <2> QED BY <1>3, <2>1 DEF RemoveEntry, Unlink, Quiet, Kept
<1> QED BY <1>1, <1>2, <1>3

LEMMA MkdirEffect ==
  ASSUME OnShare, Placed, MkdirRepo \/ Mkdir
  PROVE  UNCHANGED <<file, tmp, blame>> /\ dirs' \subseteq Prefix \X {"root", "data", "type", "shard"}
<1>1. rq.p \in Prefix
  BY Requested DEF Placed, MkdirRepo, Mkdir
<1>2. \A d \in {"root", "data", "type", "shard"} :
        Chain(rq.p, d) \subseteq Prefix \X {"root", "data", "type", "shard"}
  BY <1>1, ChainTyped
<1>3. DirOf(rq.o) \in {"root", "data", "type", "shard"}
  BY DEF DirOf
<1>4. CASE MkdirRepo
  <2> DEFINE S == Chain(rq.p, "type") \cup Chain(rq.p, "shard")
  <2>1. S \subseteq Prefix \X {"root", "data", "type", "shard"}
    BY <1>2
  <2>2. \E T \in SUBSET S : dirs' = dirs \cup T
    BY <1>4 DEF MkdirRepo, MkdirAll
  <2> QED BY <1>4, <2>1, <2>2 DEF MkdirRepo, OnShare, Quiet, Kept
<1>5. CASE Mkdir
  <2> DEFINE S == Chain(rq.p, DirOf(rq.o))
  <2>1. S \subseteq Prefix \X {"root", "data", "type", "shard"}
    BY <1>2, <1>3
  <2>2. \E T \in SUBSET S : dirs' = dirs \cup T
    BY <1>5 DEF Mkdir, MkdirAll
  <2> QED BY <1>5, <2>1, <2>2 DEF Mkdir, OnShare, Quiet, Kept
<1> QED BY <1>4, <1>5

\* The actions that touch the share, and what no action takes back.
LEMMA ShareTouched ==
  ASSUME Next
  PROVE  /\ blame \subseteq blame'
         /\ \/ UNCHANGED share \/ MkdirRepo \/ Mkdir \/ CreateTemp \/ WriteTemp \/ RenameTemp
            \/ Clean \/ Remove \/ RemoveFlat \/ RemoveEntry
<1> USE DEF net, share
<1>0. ASSUME NEW kind \in Kinds, NEW p \in Prefix, NEW o \in Targets(kind),
             NEW body \in Payloads(kind, o), Begin(kind, p, o, body)
      PROVE  /\ blame \subseteq blame'
         /\ \/ UNCHANGED share \/ MkdirRepo \/ Mkdir \/ CreateTemp \/ WriteTemp \/ RenameTemp
            \/ Clean \/ Remove \/ RemoveFlat \/ RemoveEntry
  BY <1>0 DEF Begin
<1>1. CASE ReadBody
  BY <1>1 DEF ReadBody, Goto, Return, Quiet, Kept, Answered, Failed, ReplyLost
<1>2. CASE Healthy
  BY <1>2 DEF Healthy, Goto, Return, Quiet, Kept, Answered, Failed, ReplyLost, FirstCall
<1>3. CASE Disconnect
  BY <1>3 DEF Disconnect, Goto, Return, Quiet, Kept, Answered, Failed, ReplyLost, FirstCall
<1>23. CASE Dial
  BY <1>23 DEF Dial, Goto, Return, Quiet, Kept, Answered, Failed, ReplyLost, FirstCall
<1>24. CASE Mount
  BY <1>24 DEF Mount, Goto, Return, Quiet, Kept, Answered, Failed, ReplyLost, FirstCall
<1>4. CASE MkdirRepo
  BY <1>4 DEF MkdirRepo, Goto, Return, Quiet, Kept, Answered, Failed, ReplyLost, MkdirAll
<1>5. CASE Mkdir
  BY <1>5 DEF Mkdir, Goto, Return, Quiet, Kept, Answered, Failed, ReplyLost, MkdirAll
<1>6. CASE Look
  BY <1>6 DEF Look, Goto, Return, Quiet, Kept, Answered, Failed, ReplyLost, Unseen
<1>7. CASE LookFlat
  BY <1>7 DEF LookFlat, Goto, Return, Quiet, Kept, Answered, Failed, ReplyLost, Unseen
<1>8. CASE CreateTemp
  BY <1>8 DEF CreateTemp, Goto, Return, Quiet, Kept, Answered, Failed, ReplyLost, Littered
<1>9. CASE WriteTemp
  BY <1>9 DEF WriteTemp, Goto, Return, Quiet, Kept, Answered, Failed, ReplyLost
<1>10. CASE RenameTemp
  BY <1>10 DEF RenameTemp, Goto, Return, Quiet, Kept, Answered, Failed, ReplyLost
<1>11. CASE Clean
  BY <1>11 DEF Clean, Goto, Return, Quiet, Kept, Answered, Failed, ReplyLost, Littered
<1>12. CASE Remove
  BY <1>12 DEF Remove, Removal, Missing, Goto, Return, Quiet, Kept, Answered, Failed, ReplyLost
<1>13. CASE RemoveFlat
  BY <1>13 DEF RemoveFlat, Removal, Missing, Goto, Return, Quiet, Kept, Answered, Failed, ReplyLost
<1>14. CASE Read
  BY <1>14 DEF Read, ReadFile, Missing, Goto, Return, Quiet, Kept, Answered, Failed, ReplyLost
<1>15. CASE ReadFlat
  BY <1>15 DEF ReadFlat, ReadFile, Missing, Goto, Return, Quiet, Kept, Answered, Failed, ReplyLost
<1>16. CASE List
  BY <1>16 DEF List, ListDir, Goto, Return, Quiet, Kept, Answered, Failed, ReplyLost
<1>25. CASE ListShard
  BY <1>25 DEF ListShard, ListDir, Goto, Return, Quiet, Kept, Answered, Failed, ReplyLost
<1>17. CASE StatRepo
  BY <1>17 DEF StatRepo, Goto, Return, Quiet, Kept, Answered, Failed, ReplyLost
<1>18. CASE RemoveEntry
  BY <1>18 DEF RemoveEntry, Goto, Return, Quiet, Kept, Answered, Failed, ReplyLost
<1>19. CASE RemoveEnds
  BY <1>19 DEF RemoveEnds, Goto, Return, Quiet, Kept, Answered, Failed, ReplyLost
<1>20. CASE Finish
  BY <1>20 DEF Finish
<1>21. CASE Break
  BY <1>21 DEF Break
<1>22. CASE Crash
  BY <1>22 DEF Crash, Littered
<1> QED
  BY <1>0, <1>1, <1>2, <1>3, <1>4, <1>5, <1>6, <1>7, <1>8, <1>9, <1>10, <1>11, <1>12, <1>13,
     <1>14, <1>15, <1>16, <1>17, <1>18, <1>19, <1>20, <1>21, <1>22, <1>23, <1>24, <1>25 DEF Next

\* Types on the share are kept.
LEMMA OnShareStep ==
  ASSUME OnShare, Placed, TempHolds, Next
  PROVE  OnShare'
<1>1. CASE UNCHANGED share
  BY <1>1 DEF OnShare, share
<1>2. CASE MkdirRepo \/ Mkdir
  BY <1>2, MkdirEffect DEF OnShare
<1>3. CASE CreateTemp
  BY <1>3, Saves, CreateEffect, TmpSet DEF OnShare, CreateTemp
<1>4. CASE WriteTemp
  BY <1>4, Saves, WriteEffect, TmpSet DEF OnShare, WriteTemp
<1>5. CASE RenameTemp
  <2>1. rq.p \in Prefix /\ rq.o \in Object /\ Final(rq.o) \in Paths
    BY <1>5, Saves, ShareFacts DEF RenameTemp
  <2>2. CASE UNCHANGED <<file, tmp>>
    BY <1>5, <2>2, RenameEffect DEF OnShare
  <2>3. CASE ~UNCHANGED <<file, tmp>>
    <3>1. /\ file' = [file EXCEPT ![rq.p][Final(rq.o)] = tmp[rq.p][rq.o].is]
          /\ tmp' = [tmp EXCEPT ![rq.p][rq.o] = Nil] /\ UNCHANGED dirs
          /\ tmp[rq.p][rq.o].is \in Content \cup {Nil, Torn}
      BY <1>5, <2>3, RenameEffect
    <3>2. file' \in [Prefix -> [Paths -> Content \cup {Nil, Torn}]]
      BY <2>1, <3>1, FileSet
    <3>3. tmp' \in [Prefix -> [Object -> Temp \cup {Nil}]]
      BY <2>1, <3>1, TmpSet
    <3> QED BY <3>1, <3>2, <3>3 DEF OnShare
  <2> QED BY <2>2, <2>3
<1>6. CASE Clean
  BY <1>6, Saves, CleanEffect, TmpSet DEF OnShare, Clean
<1>7. CASE Remove \/ RemoveFlat \/ RemoveEntry
  BY <1>7, RemoveEffect, TmpSet, FileSet DEF OnShare
<1> QED BY <1>1, <1>2, <1>3, <1>4, <1>5, <1>6, <1>7, ShareTouched

\* Whatever is published is whole; everything else only takes files away.
LEMMA WholeStep ==
  ASSUME OnShare, Placed, TempHolds, WholeObjects, Next
  PROVE  WholeObjects'
<1>0. blame \subseteq blame'
  BY ShareTouched
<1>1. CASE UNCHANGED file
  BY <1>0, <1>1 DEF WholeObjects
<1>2. CASE RenameTemp /\ ~UNCHANGED file
  <2>1. rq.p \in Prefix /\ rq.o \in Object /\ Final(rq.o) \in Paths /\ Final(rq.o)[1] = rq.o
    BY <1>2, Saves, ShareFacts DEF RenameTemp
  <2>2. /\ tmp[rq.p][rq.o].is \in Bodies[rq.o] \/ (rq.o = Config /\ <<"clean", rq.p, rq.o>> \in blame)
    BY <1>2 DEF TempHolds, RenameTemp
  <2>3. \A q \in Prefix, y \in Paths :
          file'[q][y] = IF q = rq.p /\ y = Final(rq.o) THEN tmp[rq.p][rq.o].is ELSE file[q][y]
    <3>1. /\ file' = [file EXCEPT ![rq.p][Final(rq.o)] = tmp[rq.p][rq.o].is]
          /\ tmp[rq.p][rq.o].is \in Content \cup {Nil, Torn}
      BY <1>2, RenameEffect
    <3> QED BY <2>1, <3>1, FileSet
  <2> QED BY <1>0, <2>1, <2>2, <2>3, ShareFacts DEF WholeObjects
<1>3. CASE (Remove \/ RemoveFlat \/ RemoveEntry) /\ ~UNCHANGED file
  <2>1. PICK q \in Prefix, x \in Paths : file' = [file EXCEPT ![q][x] = Nil]
    BY <1>3, RemoveEffect
  <2>2. \A r \in Prefix, y \in Paths : file'[r][y] = file[r][y] \/ file'[r][y] = Nil
    BY <2>1, FileSet
  <2> QED BY <1>0, <2>2, ShareFacts DEF WholeObjects
<1> QED
  BY <1>1, <1>2, <1>3, ShareTouched, MkdirEffect, CreateEffect, WriteEffect, CleanEffect DEF share

\* The file is opened, and renamed, only by a save that has done what comes before.
LEMMA WriteEntered ==
  ASSUME Placed, Next
  PROVE  Entered
<1> USE DEF net, share
<1>0. ASSUME NEW kind \in Kinds, NEW p \in Prefix, NEW o \in Targets(kind),
             NEW body \in Payloads(kind, o), Begin(kind, p, o, body)
      PROVE  Entered
  BY <1>0 DEF Entered, Begin
<1>1. CASE ReadBody
  BY <1>1 DEF Entered, ReadBody, Goto, Return, Quiet, Kept, Answered, Failed, ReplyLost
<1>2. CASE Healthy
  BY <1>2 DEF Entered, Placed, Routed, Kinds, Healthy, FirstCall, Goto, Return
<1>3. CASE Disconnect
  BY <1>3 DEF Entered, Placed, Routed, Kinds, Disconnect, FirstCall, Goto, Return
<1>23. CASE Dial
  BY <1>23 DEF Entered, Placed, Routed, Kinds, Dial, FirstCall, Goto, Return
<1>24. CASE Mount
  BY <1>24 DEF Entered, Placed, Routed, Kinds, Mount, FirstCall, Goto, Return
<1>4. CASE MkdirRepo
  BY <1>4 DEF Entered, MkdirRepo, Goto, Return, Quiet, Kept, Answered, Failed, ReplyLost, MkdirAll
<1>5. CASE Mkdir
  BY <1>5 DEF Entered, Mkdir, Goto, Return, Quiet, Kept, Answered, Failed, ReplyLost, MkdirAll
<1>6. CASE Look
  BY <1>6 DEF Entered, Look, Goto, Return, Quiet, Kept, Answered, Failed, ReplyLost, Unseen
<1>7. CASE LookFlat
  BY <1>7 DEF Entered, LookFlat, Goto, Return, Quiet, Kept, Answered, Failed, ReplyLost, Unseen
<1>8. CASE CreateTemp
  BY <1>8 DEF Entered, CreateTemp, Goto, Return, Quiet, Kept, Answered, Failed, ReplyLost, Littered
<1>9. CASE WriteTemp
  BY <1>9 DEF Entered, WriteTemp, Goto, Return, Quiet, Kept, Answered, Failed, ReplyLost
<1>10. CASE RenameTemp
  BY <1>10 DEF Entered, RenameTemp, Goto, Return, Quiet, Kept, Answered, Failed, ReplyLost
<1>11. CASE Clean
  BY <1>11 DEF Entered, Clean, Goto, Return, Quiet, Kept, Answered, Failed, ReplyLost, Littered
<1>12. CASE Remove
  BY <1>12 DEF Entered, Remove, Removal, Missing, Goto, Return, Quiet, Kept, Answered, Failed,
               ReplyLost
<1>13. CASE RemoveFlat
  BY <1>13 DEF Entered, RemoveFlat, Removal, Missing, Goto, Return, Quiet, Kept, Answered,
               Failed, ReplyLost
<1>14. CASE Read
  BY <1>14 DEF Entered, Read, ReadFile, Missing, Goto, Return, Quiet, Kept, Answered, Failed,
               ReplyLost
<1>15. CASE ReadFlat
  BY <1>15 DEF Entered, ReadFlat, ReadFile, Missing, Goto, Return, Quiet, Kept, Answered, Failed,
               ReplyLost
<1>16. CASE List
  BY <1>16 DEF Entered, List, ListDir, Goto, Return, Quiet, Kept, Answered, Failed, ReplyLost
<1>25. CASE ListShard
  BY <1>25 DEF Entered, ListShard, ListDir, Goto, Return, Quiet, Kept, Answered, Failed, ReplyLost
<1>17. CASE StatRepo
  BY <1>17 DEF Entered, StatRepo, Goto, Return, Quiet, Kept, Answered, Failed, ReplyLost
<1>18. CASE RemoveEntry
  BY <1>18 DEF Entered, RemoveEntry, Goto, Return, Quiet, Kept, Answered, Failed, ReplyLost
<1>19. CASE RemoveEnds
  BY <1>19 DEF Entered, RemoveEnds, Goto, Return, Quiet, Kept, Answered, Failed, ReplyLost
<1>20. CASE Finish
  BY <1>20 DEF Entered, Finish
<1>21. CASE Break
  BY <1>21 DEF Entered, Break
<1>22. CASE Crash
  BY <1>22 DEF Entered, Crash, Littered
<1> QED
  BY <1>0, <1>1, <1>2, <1>3, <1>4, <1>5, <1>6, <1>7, <1>8, <1>9, <1>10, <1>11, <1>12, <1>13,
     <1>14, <1>15, <1>16, <1>17, <1>18, <1>19, <1>20, <1>21, <1>22, <1>23, <1>24, <1>25 DEF Next

\* The bytes of the temporary files stay those of their objects, and what is to be
\* renamed is the body of the save.
LEMMA TempStep ==
  ASSUME OnShare, Placed, TempHolds, LeftoversBlamed, Next
  PROVE  TempHolds'
<1>1. \A p \in Prefix, o \in Object : tmp'[p][o] # Nil => tmp'[p][o].of \subseteq Bodies[o]
  <2>0. \A p \in Prefix, o \in Object : tmp[p][o] # Nil => tmp[p][o].of \subseteq Bodies[o]
    BY DEF TempHolds
  <2>1. CASE UNCHANGED tmp
    BY <2>0, <2>1
  <2>2. CASE CreateTemp /\ ~UNCHANGED tmp
    <3>1. PICK u \in {Empty, tmp[rq.p][rq.o]} : /\ u \in Temp /\ (tmp[rq.p][rq.o] = Nil => u = Empty)
                                               /\ tmp' = [tmp EXCEPT ![rq.p][rq.o] = u]
      BY <2>2, CreateEffect
    <3>2. rq.p \in Prefix /\ rq.o \in Object
      BY <2>2, Saves DEF CreateTemp
    <3>3. u.of \subseteq Bodies[rq.o]
      BY <2>0, <3>1, <3>2, EmptyTyped
    <3>4. \A q \in Prefix, v \in Object :
            tmp'[q][v] = IF q = rq.p /\ v = rq.o THEN u ELSE tmp[q][v]
      BY <3>1, <3>2, TmpSet
    <3> QED BY <2>0, <3>3, <3>4
  <2>3. CASE WriteTemp /\ ~UNCHANGED tmp
    <3>1. PICK u \in Temp : tmp' = [tmp EXCEPT ![rq.p][rq.o] = u] /\ u.of \subseteq Bodies[rq.o]
      BY <2>3, WriteEffect
    <3>2. rq.p \in Prefix /\ rq.o \in Object
      BY <2>3, Saves DEF WriteTemp
    <3>3. \A q \in Prefix, v \in Object :
            tmp'[q][v] = IF q = rq.p /\ v = rq.o THEN u ELSE tmp[q][v]
      BY <3>1, <3>2, TmpSet
    <3> QED BY <2>0, <3>1, <3>3
  <2>4. CASE /\ RenameTemp \/ Clean \/ Remove \/ RemoveFlat \/ RemoveEntry
             /\ ~UNCHANGED tmp
    <3>1. PICK p \in Prefix, o \in Object : tmp' = [tmp EXCEPT ![p][o] = Nil]
      BY <2>4, Saves, RenameEffect, CleanEffect, RemoveEffect DEF RenameTemp, Clean
    <3>2. \A q \in Prefix, v \in Object : tmp'[q][v] \in {Nil, tmp[q][v]}
      BY <3>1, TmpSet
    <3> QED BY <2>0, <3>2
  <2> QED BY <2>1, <2>2, <2>3, <2>4, ShareTouched, MkdirEffect DEF share
<1>2. ASSUME pc' = "write"
      PROVE  /\ tmp'[rq'.p][rq'.o] \in Temp /\ tmp'[rq'.p][rq'.o].of \subseteq Bodies[rq'.o]
             /\ tmp'[rq'.p][rq'.o].of = {} \/ <<"clean", rq'.p, rq'.o>> \in blame'
  <2>1. CreateTemp /\ Answered /\ UNCHANGED <<rq, blame>>
    BY <1>2, WriteEntered DEF Entered
  <2>2. PICK u \in Create(tmp[rq.p][rq.o]) : tmp' = [tmp EXCEPT ![rq.p][rq.o] = u]
    BY <1>2, <2>1 DEF CreateTemp, SetTmp, Return
  <2>3. rq.p \in Prefix /\ rq.o \in Object
    BY <2>1, Saves DEF CreateTemp
  <2>4. tmp[rq.p][rq.o] \in Temp \cup {Nil}
    BY <2>3 DEF OnShare
  <2>5. u \in Temp /\ (u = Empty \/ (u = tmp[rq.p][rq.o] /\ u # Nil))
    BY <2>2, <2>4, EmptyTyped DEF Create
  <2>6. tmp'[rq.p][rq.o] = u
    BY <2>2, <2>3, <2>5, TmpSet
  <2>7. u = Empty \/ (u.of \subseteq Bodies[rq.o] /\ <<"clean", rq.p, rq.o>> \in blame)
    BY <2>1, <2>3, <2>5 DEF TempHolds, LeftoversBlamed, CreateTemp
  <2> QED BY <2>1, <2>5, <2>6, <2>7, EmptyTyped
<1>3. ASSUME pc' = "rename"
      PROVE  /\ tmp'[rq'.p][rq'.o] \in Temp /\ tmp'[rq'.p][rq'.o].of \subseteq Bodies[rq'.o]
             /\ \/ tmp'[rq'.p][rq'.o].is \in Bodies[rq'.o]
                \/ rq'.o = Config /\ <<"clean", rq'.p, rq'.o>> \in blame'
  <2>1. WriteTemp /\ UNCHANGED <<rq, blame>>
    BY <1>3, WriteEntered DEF Entered
  <2>2. PICK u \in Temp : /\ tmp' = [tmp EXCEPT ![rq.p][rq.o] = u] /\ u.of \subseteq Bodies[rq.o]
                          /\ u.is = rq.body \/ ~(tmp[rq.p][rq.o].of \subseteq {rq.body})
    BY <1>3, <2>1, WriteEffect
  <2>3. rq.p \in Prefix /\ rq.o \in Object /\ rq.body \in Bodies[rq.o]
    BY <2>1, Saves DEF WriteTemp
  <2>4. tmp'[rq.p][rq.o] = u
    BY <2>2, <2>3, TmpSet
  <2>5. /\ tmp[rq.p][rq.o].of \subseteq Bodies[rq.o]
        /\ tmp[rq.p][rq.o].of = {} \/ <<"clean", rq.p, rq.o>> \in blame
    BY <2>1 DEF TempHolds, WriteTemp
  <2>6. CASE u.is = rq.body
    BY <2>1, <2>2, <2>3, <2>4, <2>6
  <2>7. CASE ~(tmp[rq.p][rq.o].of \subseteq {rq.body})
    <3>1. rq.o \notin Blob
      BY <2>3, <2>5, <2>7, ContentAddressed
    <3> QED BY <2>1, <2>2, <2>3, <2>4, <2>5, <2>7, <3>1 DEF Object
  <2> QED BY <2>2, <2>6, <2>7
<1> QED BY <1>1, <1>2, <1>3 DEF TempHolds

\* A temporary file that stays behind is blamed on the clean-up that failed.
LEMMA TempLeft ==
  ASSUME OnShare, Placed, TempHolds, TempsBlamed, Next
  PROVE  TempsBlamed'
<1> USE DEF net, share
<1>0. ASSUME NEW kind \in Kinds, NEW p \in Prefix, NEW o \in Targets(kind),
             NEW body \in Payloads(kind, o), Begin(kind, p, o, body)
      PROVE  TempsBlamed'
  BY <1>0 DEF TempsBlamed, Begin
<1>1. CASE ReadBody
  BY <1>1 DEF TempsBlamed, ReadBody, Goto, Return, Quiet, Kept, Answered, Failed, ReplyLost
<1>2. CASE Healthy
  BY <1>2 DEF TempsBlamed, Healthy, Goto, Return, Quiet, Kept, Answered, Failed, ReplyLost,
              FirstCall
<1>3. CASE Disconnect
  BY <1>3 DEF TempsBlamed, Disconnect, Goto, Return, Quiet, Kept, Answered, Failed, ReplyLost,
              FirstCall
<1>23. CASE Dial
  BY <1>23 DEF TempsBlamed, Dial, Goto, Return, Quiet, Kept, Answered, Failed, ReplyLost, FirstCall
<1>24. CASE Mount
  BY <1>24 DEF TempsBlamed, Mount, Goto, Return, Quiet, Kept, Answered, Failed, ReplyLost, FirstCall
<1>4. CASE MkdirRepo
  BY <1>4 DEF TempsBlamed, MkdirRepo, Goto, Return, Quiet, Kept, Answered, Failed, ReplyLost,
              MkdirAll
<1>5. CASE Mkdir
  BY <1>5 DEF TempsBlamed, Mkdir, Goto, Return, Quiet, Kept, Answered, Failed, ReplyLost, MkdirAll
<1>6. CASE Look
  BY <1>6 DEF TempsBlamed, Look, Goto, Return, Quiet, Kept, Answered, Failed, ReplyLost, Unseen
<1>7. CASE LookFlat
  BY <1>7 DEF TempsBlamed, LookFlat, Goto, Return, Quiet, Kept, Answered, Failed, ReplyLost, Unseen
<1>8. CASE CreateTemp
  <2>1. rq.p \in Prefix /\ rq.o \in Object
    BY <1>8, Saves DEF CreateTemp
  <2>2. \A q \in Prefix, v \in Object : ~(q = rq.p /\ v = rq.o) => tmp'[q][v] = tmp[q][v]
    BY <1>8, <2>1, CreateEffect, TmpSet
  <2> QED BY <1>8, <2>1, <2>2 DEF TempsBlamed, CreateTemp, Goto, Return, Littered
<1>9. CASE WriteTemp
  <2>1. rq.p \in Prefix /\ rq.o \in Object
    BY <1>9, Saves DEF WriteTemp
  <2>2. \A q \in Prefix, v \in Object : ~(q = rq.p /\ v = rq.o) => tmp'[q][v] = tmp[q][v]
    <3>1. UNCHANGED tmp \/ \E u \in Temp \cup {Nil} : tmp' = [tmp EXCEPT ![rq.p][rq.o] = u]
      BY <1>9, WriteEffect
    <3>2. CASE UNCHANGED tmp
      BY <3>2
    <3>3. ASSUME NEW u \in Temp \cup {Nil}, tmp' = [tmp EXCEPT ![rq.p][rq.o] = u]
          PROVE  \A q \in Prefix, v \in Object : ~(q = rq.p /\ v = rq.o) => tmp'[q][v] = tmp[q][v]
      BY <2>1, <3>3, TmpSet
    <3> QED BY <3>1, <3>2, <3>3
  <2> QED BY <1>9, <2>1, <2>2 DEF TempsBlamed, WriteTemp, Goto, Quiet, Kept
<1>10. CASE RenameTemp
  <2>1. rq.p \in Prefix /\ rq.o \in Object
    BY <1>10, Saves DEF RenameTemp
  <2>2. \A q \in Prefix, v \in Object : ~(q = rq.p /\ v = rq.o) => tmp'[q][v] = tmp[q][v]
    BY <1>10, <2>1, RenameEffect, TmpSet
  <2>3. pc' = "clean" \/ tmp'[rq.p][rq.o] = Nil
    BY <1>10, <2>1, TmpSet DEF RenameTemp, Publish, SetTmp, Goto
  <2> QED BY <1>10, <2>1, <2>2, <2>3 DEF TempsBlamed, RenameTemp, Goto, Return, Quiet, Kept
<1>11. CASE Clean
  <2>1. rq.p \in Prefix /\ rq.o \in Object
    BY <1>11, Saves DEF Clean
  <2>2. \A q \in Prefix, v \in Object : ~(q = rq.p /\ v = rq.o) => tmp'[q][v] = tmp[q][v]
    BY <1>11, <2>1, CleanEffect, TmpSet
  <2>3. tmp'[rq.p][rq.o] = Nil \/ <<"clean", rq.p, rq.o>> \in blame'
    BY <1>11, <2>1, CleanEffect, TmpSet
  <2> QED BY <1>11, <2>1, <2>2, <2>3, CleanEffect DEF TempsBlamed, Clean, Return
<1>12. CASE Remove
  BY <1>12 DEF TempsBlamed, Remove, Removal, Missing, Goto, Return, Quiet, Kept, Answered,
               Failed, ReplyLost
<1>13. CASE RemoveFlat
  BY <1>13 DEF TempsBlamed, RemoveFlat, Removal, Missing, Goto, Return, Quiet, Kept, Answered,
               Failed, ReplyLost
<1>14. CASE Read
  BY <1>14 DEF TempsBlamed, Read, ReadFile, Missing, Goto, Return, Quiet, Kept, Answered, Failed,
               ReplyLost
<1>15. CASE ReadFlat
  BY <1>15 DEF TempsBlamed, ReadFlat, ReadFile, Missing, Goto, Return, Quiet, Kept, Answered,
               Failed, ReplyLost
<1>16. CASE List
  BY <1>16 DEF TempsBlamed, List, ListDir, Goto, Return, Quiet, Kept, Answered, Failed, ReplyLost
<1>25. CASE ListShard
  BY <1>25 DEF TempsBlamed, ListShard, ListDir, Goto, Return, Quiet, Kept, Answered, Failed,
               ReplyLost
<1>17. CASE StatRepo
  BY <1>17 DEF TempsBlamed, StatRepo, Goto, Return, Quiet, Kept, Answered, Failed, ReplyLost
<1>18. CASE RemoveEntry
  <2>1. \A q \in Prefix, v \in Object : tmp'[q][v] \in {Nil, tmp[q][v]}
    BY <1>18, RemoveEffect, TmpSet
  <2> QED BY <1>18, <2>1 DEF TempsBlamed, RemoveEntry, Quiet, Kept
<1>19. CASE RemoveEnds
  BY <1>19 DEF TempsBlamed, RemoveEnds, Goto, Return, Quiet, Kept, Answered, Failed, ReplyLost
<1>20. CASE Finish
  BY <1>20 DEF TempsBlamed, Finish
<1>21. CASE Break
  BY <1>21 DEF TempsBlamed, Break
<1>22. CASE Crash
  BY <1>22 DEF TempsBlamed, Crash, Littered
<1> QED
  BY <1>0, <1>1, <1>2, <1>3, <1>4, <1>5, <1>6, <1>7, <1>8, <1>9, <1>10, <1>11, <1>12, <1>13,
     <1>14, <1>15, <1>16, <1>17, <1>18, <1>19, <1>20, <1>21, <1>22, <1>23, <1>24, <1>25 DEF Next

\* A save that goes on after its looks has seen no flat copy, or is excused, or is cut off.
LEMMA LookedStep ==
  ASSUME InProcess, OnShare, Placed, OneConnection, Looked, Next
  PROVE  Looked'
<1> USE DEF net, share
<1>0. ASSUME NEW kind \in Kinds, NEW p \in Prefix, NEW o \in Targets(kind),
             NEW body \in Payloads(kind, o), Begin(kind, p, o, body)
      PROVE  Looked'
  BY <1>0 DEF Looked, Exists, Begin
<1>1. CASE ReadBody
  BY <1>1, Saves DEF Looked, Exists, ReadBody, Goto, Return, Quiet, Kept, Answered, Failed,
                     ReplyLost
<1>2. CASE Healthy
  BY <1>2, Requested, ShareObjectAssumption DEF Looked, Placed, Routed, Kinds, Targets, Healthy,
                                                FirstCall, Goto, Return
<1>3. CASE Disconnect
  BY <1>3, Requested, ShareObjectAssumption DEF Looked, Placed, Routed, Kinds, Targets,
                                                Disconnect, FirstCall, Goto, Return
<1>23. CASE Dial
  BY <1>23, Requested, ShareObjectAssumption DEF Looked, Placed, Routed, Kinds, Targets, Dial,
                                                 FirstCall, Goto, Return
<1>24. CASE Mount
  BY <1>24, Requested, ShareObjectAssumption DEF Looked, Placed, Routed, Kinds, Targets, Mount,
                                                 FirstCall, Goto, Return
<1>4. CASE MkdirRepo
  BY <1>4 DEF Looked, Exists, MkdirRepo, Goto, Return, Quiet, Kept, Answered, Failed, ReplyLost,
              MkdirAll
<1>5. CASE Mkdir
  BY <1>5 DEF Looked, Exists, Mkdir, Goto, Return, Quiet, Kept, Answered, Failed, ReplyLost,
              MkdirAll
<1>6. CASE Look
  BY <1>6 DEF Looked, Exists, InProcess, OneConnection, Look, Goto, Return, Answered, Failed, Unseen
<1>7. CASE LookFlat
  BY <1>7 DEF Looked, Exists, InProcess, OneConnection, LookFlat, Goto, Return, Answered, Failed,
              Unseen
<1>8. CASE CreateTemp
  BY <1>8 DEF Looked, Exists, CreateTemp, Goto, Return, Quiet, Kept, Answered, Failed, ReplyLost,
              Littered
<1>9. CASE WriteTemp
  BY <1>9 DEF Looked, Exists, WriteTemp, Goto, Return, Quiet, Kept, Answered, Failed, ReplyLost
<1>10. CASE RenameTemp
  BY <1>10 DEF Looked, Exists, RenameTemp, Goto, Return, Quiet, Kept, Answered, Failed, ReplyLost
<1>11. CASE Clean
  BY <1>11 DEF Looked, Exists, Clean, Goto, Return, Quiet, Kept, Answered, Failed, ReplyLost,
               Littered
<1>12. CASE Remove
  BY <1>12 DEF Looked, Exists, Remove, Removal, Missing, Goto, Return, Quiet, Kept, Answered,
               Failed, ReplyLost
<1>13. CASE RemoveFlat
  BY <1>13 DEF Looked, Exists, RemoveFlat, Removal, Missing, Goto, Return, Quiet, Kept, Answered,
               Failed, ReplyLost
<1>14. CASE Read
  BY <1>14 DEF Looked, Exists, Read, ReadFile, Missing, Goto, Return, Quiet, Kept, Answered,
               Failed, ReplyLost
<1>15. CASE ReadFlat
  BY <1>15 DEF Looked, Exists, ReadFlat, ReadFile, Missing, Goto, Return, Quiet, Kept, Answered,
               Failed, ReplyLost
<1>16. CASE List
  BY <1>16 DEF Looked, Exists, List, ListDir, Goto, Return, Quiet, Kept, Answered, Failed, ReplyLost
<1>25. CASE ListShard
  BY <1>25 DEF Looked, Exists, ListShard, ListDir, Goto, Return, Quiet, Kept, Answered, Failed,
               ReplyLost
<1>17. CASE StatRepo
  BY <1>17 DEF Looked, Exists, StatRepo, Goto, Return, Quiet, Kept, Answered, Failed, ReplyLost
<1>18. CASE RemoveEntry
  BY <1>18 DEF Looked, Exists, RemoveEntry, Goto, Return, Quiet, Kept, Answered, Failed, ReplyLost
<1>19. CASE RemoveEnds
  BY <1>19 DEF Looked, Exists, RemoveEnds, Goto, Return, Quiet, Kept, Answered, Failed, ReplyLost
<1>20. CASE Finish
  BY <1>20 DEF Looked, Exists, Finish
<1>21. CASE Break
  BY <1>21 DEF Looked, Exists, Break
<1>22. CASE Crash
  BY <1>22 DEF Looked, Exists, Crash, Littered
<1> QED
  BY <1>0, <1>1, <1>2, <1>3, <1>4, <1>5, <1>6, <1>7, <1>8, <1>9, <1>10, <1>11, <1>12, <1>13,
     <1>14, <1>15, <1>16, <1>17, <1>18, <1>19, <1>20, <1>21, <1>22, <1>23, <1>24, <1>25 DEF Next

\* A second copy is written only by a save that is excused.
LEMMA CopiesStep ==
  ASSUME OnShare, Placed, TempHolds, Looked, CopiesBlamed, Next
  PROVE  CopiesBlamed'
<1>0. blame \subseteq blame'
  BY ShareTouched
<1>1. CASE UNCHANGED file
  BY <1>0, <1>1 DEF CopiesBlamed, Exists
<1>2. CASE RenameTemp /\ ~UNCHANGED file
  <2>1. rq.p \in Prefix /\ rq.o \in Object /\ Final(rq.o) \in Paths
    BY <1>2, Saves, ShareFacts DEF RenameTemp
  <2>2. conn = "up" /\ \A q \in Prefix, y \in Paths :
          ~(q = rq.p /\ y = Final(rq.o)) => file'[q][y] = file[q][y]
    <3>1. /\ file' = [file EXCEPT ![rq.p][Final(rq.o)] = tmp[rq.p][rq.o].is] /\ conn = "up"
          /\ tmp[rq.p][rq.o].is \in Content \cup {Nil, Torn}
      BY <1>2, RenameEffect
    <3> QED BY <2>1, <3>1, FileSet
  <2>3. rq.o \in Sharded => <<"look", rq.p, rq.o>> \in blame \/ ~Exists(rq.p, Flat(rq.o))
    BY <1>2, <2>2 DEF Looked, RenameTemp
  <2> QED BY <1>0, <2>1, <2>2, <2>3, ShareFacts DEF CopiesBlamed, Exists
<1>3. CASE (Remove \/ RemoveFlat \/ RemoveEntry) /\ ~UNCHANGED file
  <2>1. PICK q \in Prefix, x \in Paths : file' = [file EXCEPT ![q][x] = Nil]
    BY <1>3, RemoveEffect
  <2>2. \A r \in Prefix, y \in Paths : file'[r][y] = file[r][y] \/ file'[r][y] = Nil
    BY <2>1, FileSet
  <2> QED BY <1>0, <2>2, ShareFacts DEF CopiesBlamed, Exists
<1> QED
  BY <1>1, <1>2, <1>3, ShareTouched, MkdirEffect, CreateEffect, WriteEffect, CleanEffect DEF share

-----------------------------------------------------------------------------
\* The parts put together.
LEMMA ShareParts ==
  /\ TypeOK <=> OnShare /\ InProcess /\ Noted
  /\ LeftoversBlamed <=> TempsBlamed /\ CopiesBlamed
BY DEF TypeOK, OnShare, InProcess, Noted, LeftoversBlamed, TempsBlamed, CopiesBlamed

LEMMA ShareInitInv == Init => ShareInv
<1> SUFFICES ASSUME Init PROVE ShareInv
  OBVIOUS
<1>1. PICK L \in [Prefix -> SUBSET Legacy] :
        /\ file = [p \in Prefix |-> [x \in Paths |->
             IF x[2] = "flat" /\ x[1] \in L[p] THEN CHOOSE c \in Bodies[x[1]] : TRUE ELSE Nil]]
        /\ dirs = UNION {Chain(p, "data") : p \in {q \in Prefix : L[q] # {}}}
  BY DEF Init
<1>2. \A p \in Prefix, x \in Paths :
        /\ file[p][x] \in Bodies[x[1]] \cup {Nil}
        /\ x[2] # "flat" => file[p][x] = Nil
  <2>1. \A o \in Legacy : (CHOOSE c \in Bodies[o] : TRUE) \in Bodies[o]
    BY ShareObjectAssumption, ContentAddressed
  <2> QED BY <1>1, <2>1
<1>3. file \in [Prefix -> [Paths -> Content \cup {Nil, Torn}]]
  <2>1. ASSUME NEW p \in Prefix PROVE file[p] \in [Paths -> Content \cup {Nil, Torn}]
    <3>1. \A x \in Paths : file[p][x] \in Content \cup {Nil, Torn}
      BY <1>2, ShareFacts, ShareBodies
    <3>2. file[p] = [x \in Paths |-> file[p][x]]
      BY <1>1
    <3> QED BY <3>1, <3>2
  <2> QED BY <1>1, <2>1
<1>4. OnShare
  <2>1. \A p \in Prefix : Chain(p, "data") \subseteq Prefix \X {"root", "data", "type", "shard"}
    BY ChainTyped
  <2>2. dirs \subseteq Prefix \X {"root", "data", "type", "shard"}
    BY <1>1, <2>1
  <2>3. tmp \in [Prefix -> [Object -> Temp \cup {Nil}]]
    BY DEF Init
  <2> QED BY <1>3, <2>2, <2>3 DEF OnShare
<1>5. InProcess /\ Noted /\ Placed /\ OneConnection /\ Looked
  BY DEF Init, InProcess, Noted, Placed, OneConnection, Looked, Steps, NoAnswer
<1>6. TempHolds /\ TempsBlamed
  BY DEF Init, TempHolds, TempsBlamed
<1>7. WholeObjects /\ CopiesBlamed
  <2>1. \A o : Final(o)[2] = "final"
    BY DEF Final
  <2> QED BY <1>2, <2>1, ShareFacts DEF WholeObjects, CopiesBlamed, Exists
<1> QED BY <1>4, <1>5, <1>6, <1>7, ShareParts DEF ShareInv

\* The invariant is inductive.
LEMMA ShareStep == ShareInv /\ [Next]_vars => ShareInv'
<1> SUFFICES ASSUME ShareInv, [Next]_vars PROVE ShareInv'
  OBVIOUS
<1>1. /\ OnShare /\ InProcess /\ Noted /\ Placed /\ OneConnection /\ TempHolds
      /\ WholeObjects /\ Looked /\ LeftoversBlamed /\ TempsBlamed /\ CopiesBlamed
  BY ShareParts DEF ShareInv
<1>2. CASE Next
  <2>1. OnShare' /\ InProcess' /\ Placed' /\ OneConnection' /\ Noted'
    BY <1>1, <1>2, OnShareStep, ProcessStep, PlacedStep, ConnectionStep, NotedStep DEF Noted
  <2>2. TempHolds' /\ WholeObjects' /\ Looked'
    BY <1>1, <1>2, TempStep, WholeStep, LookedStep
  <2>3. TempsBlamed' /\ CopiesBlamed'
    BY <1>1, <1>2, TempLeft, CopiesStep
  <2>4. TypeOK' /\ LeftoversBlamed'
    BY <2>1, <2>3
    DEF TypeOK, OnShare, InProcess, Noted, LeftoversBlamed, TempsBlamed, CopiesBlamed
  <2> QED BY <2>1, <2>2, <2>4 DEF ShareInv
<1>3. CASE UNCHANGED vars
  <2> USE <1>3 DEF vars, net, share
  <2>1. TypeOK'
    BY DEF ShareInv, TypeOK, Routed
  <2>2. Placed' /\ OneConnection' /\ Looked'
    BY DEF ShareInv, Placed, OneConnection, Looked, Routed, Exists
  <2>3. TempHolds' /\ WholeObjects' /\ LeftoversBlamed'
    BY DEF ShareInv, TempHolds, WholeObjects, LeftoversBlamed, Exists
  <2> QED BY <2>1, <2>2, <2>3 DEF ShareInv
<1> QED BY <1>2, <1>3

LEMMA ShareInvariant == Spec => []ShareInv
<1> QED BY ShareInitInv, ShareStep, PTL DEF Spec

\* Type correctness of the share backends.
THEOREM ShareTyped == Spec => []TypeOK
<1>1. ShareInv => TypeOK
  BY DEF ShareInv
<1> QED BY <1>1, ShareInvariant, PTL

\* Reconnecting never makes a second connection, and no call goes without one.
THEOREM ShareOneConnection == Spec => []OneConnection
<1>1. ShareInv => OneConnection
  BY DEF ShareInv
<1> QED BY <1>1, ShareInvariant, PTL

\* However connections break, a blob that is there is whole.
THEOREM ShareWhole == Spec => []WholeObjects
<1>1. ShareInv => WholeObjects
  BY DEF ShareInv
<1> QED BY <1>1, ShareInvariant, PTL

\* Temporary files and second copies stay only where an error excuses them.
THEOREM ShareLeftovers == Spec => []LeftoversBlamed
<1>1. ShareInv => LeftoversBlamed
  BY DEF ShareInv
<1> QED BY <1>1, ShareInvariant, PTL

-----------------------------------------------------------------------------
\* Store is the instance of ObjectStore.  What can be seen of a blob is whole.
LEMMA ValueWhole ==
  ASSUME WholeObjects, NEW p \in Prefix, NEW o \in Blob
  PROVE  Value(p, o) \in Bodies[o] \cup {Nil}
BY ShareFacts DEF WholeObjects, Value, NotFoundFlat

LEMMA ShareStoreInit == ShareInv => Store!Init
<1> SUFFICES ASSUME ShareInv PROVE Store!Init
  OBVIOUS
<1>1. \A p \in Prefix, o \in Blob : Value(p, o) \in Bodies[o] \cup {Nil}
  BY ValueWhole DEF ShareInv
<1> QED BY <1>1 DEF Store!Init, Blobs

\* A blob is seen through its own two files only.
LEMMA ValueKept ==
  ASSUME NEW p \in Prefix, NEW o \in Blob, file'[p][Final(o)] = file[p][Final(o)],
         o \in Sharded => file'[p][Flat(o)] = file[p][Flat(o)]
  PROVE  Value(p, o)' = Value(p, o)
BY DEF Value, Exists, NotFoundFlat

LEMMA ShareStoreStep ==
  ASSUME ShareInv, ShareInv', Next
  PROVE  Blobs' = Blobs \/ Store!Next
<1>0. OnShare /\ Placed /\ TempHolds /\ WholeObjects /\ WholeObjects'
  BY ShareParts DEF ShareInv
<1>1. CASE UNCHANGED file
  <2>1. \A p \in Prefix, o \in Blob : Value(p, o)' = Value(p, o)
    BY <1>1, ValueKept
  <2> QED BY <2>1 DEF Blobs
<1>2. CASE RenameTemp /\ ~UNCHANGED file
  <2>1. PICK p \in Prefix, o \in Object, c \in Content \cup {Nil, Torn} :
          p = rq.p /\ o = rq.o /\ c = tmp[rq.p][rq.o].is /\ file' = [file EXCEPT ![p][Final(o)] = c]
    BY <1>0, <1>2, Saves, RenameEffect DEF RenameTemp
  <2>2. \A q \in Prefix, y \in Paths :
          file'[q][y] = IF q = p /\ y = Final(o) THEN c ELSE file[q][y]
    <3>1. PICK x \in Paths : x = Final(o)
      BY ShareFacts
    <3>2. file' = [file EXCEPT ![p][x] = c]
      BY <2>1, <3>1
    <3>3. \A q \in Prefix, y \in Paths : file'[q][y] = IF q = p /\ y = x THEN c ELSE file[q][y]
      BY <1>0, <3>2, FileSet
    <3> QED BY <3>1, <3>3
  <2>3. \A q \in Prefix, b \in Blob : ~(q = p /\ b = o) => Value(q, b)' = Value(q, b)
    BY <2>2, ValueKept, ShareFacts
  <2>4. CASE o \notin Blob
    BY <2>3, <2>4 DEF Blobs
  <2>5. CASE o \in Blob
    <3>1. c \in Bodies[o]
      BY <1>0, <1>2, <2>1, <2>5, ShareFacts DEF TempHolds, RenameTemp
    <3>2. Value(p, o)' = c
      BY <2>1, <2>2, <3>1, ShareBodies, ShareFacts DEF Value, Exists
    <3>3. Blobs' = [Blobs EXCEPT ![p][o] = c]
      BY <2>1, <2>3, <2>5, <3>2 DEF Blobs
    <3>4. Store!Put(p, o, c)
      BY <3>3 DEF Store!Put
    <3> QED BY <2>1, <2>5, <3>1, <3>4 DEF Store!Next
  <2> QED BY <2>4, <2>5
<1>3. CASE (Remove \/ RemoveFlat \/ RemoveEntry) /\ ~UNCHANGED file
  <2>1. PICK q \in Prefix, x \in Paths : file' = [file EXCEPT ![q][x] = Nil]
    BY <1>0, <1>3, RemoveEffect
  <2>2. \A r \in Prefix, y \in Paths : file'[r][y] = IF r = q /\ y = x THEN Nil ELSE file[r][y]
    BY <1>0, <2>1, FileSet
  <2>3. \A p \in Prefix, o \in Blob : ~(p = q /\ o = x[1]) => Value(p, o)' = Value(p, o)
    BY <2>2, ValueKept, ShareFacts
  <2>4. CASE x[1] \notin Blob
    BY <2>3, <2>4 DEF Blobs
  <2>5. CASE x[1] \in Blob
    <3>1. Value(q, x[1]) \in Bodies[x[1]] \cup {Nil} /\ Value(q, x[1])' \in Bodies[x[1]] \cup {Nil}
      BY <1>0, <2>5, ShareFacts DEF WholeObjects, Value, NotFoundFlat
    <3>2. Value(q, x[1]) = Nil => Value(q, x[1])' = Nil
      BY <2>2, <2>5, ShareFacts DEF Value, Exists, NotFoundFlat
    <3>3. Value(q, x[1])' \in {Nil, Value(q, x[1])}
      BY <2>5, <3>1, <3>2, ContentAddressed
    <3>4. CASE Value(q, x[1])' = Value(q, x[1])
      BY <2>3, <3>4 DEF Blobs
    <3>5. CASE Value(q, x[1])' = Nil
      <4>1. Blobs' = [Blobs EXCEPT ![q] = [o \in Blob |-> IF o \in {x[1]} THEN Nil ELSE Blobs[q][o]]]
        BY <2>3, <2>5, <3>5 DEF Blobs
      <4>2. Store!Drop(q, {x[1]})
        BY <4>1 DEF Store!Drop
      <4> QED BY <2>5, <4>2 DEF Store!Next
    <3> QED BY <3>3, <3>4, <3>5
  <2> QED BY <2>4, <2>5
<1> QED
  BY <1>0, <1>1, <1>2, <1>3, ShareTouched, MkdirEffect, CreateEffect, WriteEffect, CleanEffect
  DEF share

\* For the blobs, the share backends implement the atomic object store under any
\* failures of the network and crashes of the process.
THEOREM ShareImplements == Spec => ImplementsStore
<1>1. ShareInv /\ ShareInv' /\ [Next]_vars => [Store!Next]_Blobs
  <2>1. UNCHANGED vars => Blobs' = Blobs
    BY DEF vars, share, Blobs, Value, Exists, NotFoundFlat
  <2> QED BY <2>1, ShareStoreStep
<1>2. Spec => Store!Init /\ [][Store!Next]_Blobs
  BY <1>1, ShareStoreInit, ShareInitInv, ShareInvariant, PTL DEF Spec
<1> QED BY <1>2 DEF ImplementsStore, Store!Spec

-----------------------------------------------------------------------------
\* The steps of an operation before it has changed anything.
Early == {"body", "ensure", "dial", "mount", "look", "lookFlat", "mkdir", "create", "write",
          "rename", "remove", "removeFlat", "read", "readFlat", "list", "listShard"}

\* What an operation that has not answered yet knows: the object is as it was found, unless
\* it took the error of a removal that was carried out for "not found"; the flat path is
\* tried only after the other was found empty, or by such a mistake; a listing has what the
\* flat directory holds of the object, or nothing by a mistake; the file to be renamed holds the
\* body of this very request; and a failed rename has put it there or not.
Knows ==
  /\ pc \in Early /\ rq.o # Nil =>
       \/ before = Value(rq.p, rq.o)
       \/ pc = "removeFlat" /\ mistaken /\ Value(rq.p, rq.o) = Nil
  /\ pc \in {"removeFlat", "readFlat"} => ~Exists(rq.p, Final(rq.o)) \/ mistaken
  /\ pc = "listShard" => found = Entries(rq.p, Flat(rq.o)) \/ (found = {} /\ mistaken)
  /\ pc = "rename" => \/ tmp[rq.p][rq.o].is = rq.body
                      \/ rq.o = Config /\ <<"clean", rq.p, rq.o>> \in blame
  /\ pc = "clean" => \/ Value(rq.p, rq.o) \in {before, rq.body}
                     \/ rq.o = Config /\ <<"clean", rq.p, rq.o>> \in blame

\* Every file and every directory is in directories that exist, also the file that a save
\* is about to rename.
Homed ==
  /\ \A p \in Prefix, x \in Paths : Exists(p, x) => <<p, DirOfPath(x)>> \in dirs
  /\ \A e \in dirs : Parents(e[1], e[2]) \subseteq dirs
  /\ pc \in {"write", "rename"} => <<rq.p, DirOf(rq.o)>> \in dirs

-----------------------------------------------------------------------------
\* A request about an object has one.
LEMMA About ==
  ASSUME Routed
  PROVE  /\ rq.kind \in {"SaveConfig", "SaveBlob", "DeleteBlob", "Read", "ListBlobs"} =>
              rq.o \in Object /\ rq.o # Nil
         /\ rq.kind = "SaveConfig" => rq.o = Config /\ rq.o \notin Sharded
         /\ rq.kind \in {"SaveBlob", "DeleteBlob", "ListBlobs"} => rq.o \in Blob
         /\ rq.kind \in {"SaveBlob", "SaveConfig"} => rq.body \in Bodies[rq.o]
BY Requested, ShareFacts, ShareNilAssumption, ShareObjectAssumption DEF Routed, Targets

\* An object whose files are not touched is as before.
LEMMA ValueStays ==
  ASSUME UNCHANGED <<file, rq>>
  PROVE  Value(rq.p, rq.o)' = Value(rq.p, rq.o)
BY DEF Value, Exists, NotFoundFlat

\* So an operation that has changed nothing still has the object as it was found.
LEMMA SeenKept ==
  ASSUME Knows, pc \in Early \ {"removeFlat"}, UNCHANGED <<file, rq, before>>, rq.o # Nil
  PROVE  before' = Value(rq.p, rq.o)'
BY ValueStays DEF Knows

\* An operation that has changed nothing may end in an error.
LEMMA ErrorTrue ==
  ASSUME Placed, Knows, pc \in Early \ {"removeFlat"}, UNCHANGED <<file, rq, before>>,
         pc' = "done" => ans'.err = "error"
  PROVE  AnswersTrue'
<1> SUFFICES ASSUME pc' = "done" PROVE AnswersTrue'
  BY DEF AnswersTrue
<1>1. Routed
  BY DEF Placed, Early
<1>2. rq.kind \in {"SaveConfig", "SaveBlob", "DeleteBlob"} => before' = Value(rq.p, rq.o)'
  BY <1>1, About, SeenKept
<1>3. ans'.err = "error"
  OBVIOUS
<1> QED BY <1>2, <1>3 DEF AnswersTrue

\* What it knows, it still knows then, unless it goes on to where it must know more.
LEMMA KnowsOn ==
  ASSUME Knows, pc \in Early \ {"removeFlat"}, UNCHANGED <<file, rq, before>>,
         pc' \notin {"removeFlat", "readFlat", "listShard", "rename", "clean"}
  PROVE  Knows'
BY SeenKept DEF Knows

\* The blob is whole wherever it is seen.
LEMMA Whole ==
  ASSUME OnShare, WholeObjects, NEW p \in Prefix, NEW o \in Blob
  PROVE  \E c \in Content : /\ Bodies[o] = {c} /\ c # Nil
                            /\ file[p][Final(o)] \in {c, Nil}
                            /\ o \in Sharded => file[p][Flat(o)] \in {c, Nil}
BY ShareFacts, ShareNilAssumption, ContentAddressed DEF WholeObjects

\* The calls of an operation that change no file.
LEMMA QuietTrue ==
  ASSUME OnShare, Placed, WholeObjects, Knows, Homed,
         ReadBody \/ Healthy \/ Disconnect \/ Dial \/ Mount \/ MkdirRepo \/ Mkdir \/ CreateTemp
  PROVE  Knows' /\ AnswersTrue'
<1> USE DEF net, share
<1>1. UNCHANGED <<file, rq, before>>
  BY DEF ReadBody, Healthy, Disconnect, Dial, Mount, MkdirRepo, Mkdir, CreateTemp, Goto, Return,
         Quiet, Kept, MkdirAll
<1>2. CASE MkdirRepo
  <2>1. pc' = "done" /\ rq.kind = "CreateRepo"
    BY <1>2 DEF MkdirRepo, MkdirAll, Return, Placed, KindsAt
  <2>2. ans'.err \in {"ok", "error"}
    BY <1>2 DEF MkdirRepo, MkdirAll, Return
  <2>3. Knows'
    BY <2>1 DEF Knows, Early
  <2> QED BY <1>1, <2>1, <2>2, <2>3 DEF AnswersTrue
<1>3. CASE ~MkdirRepo
  <2>1. pc \in Early \ {"removeFlat"}
    BY <1>3 DEF Early, ReadBody, Healthy, Disconnect, Dial, Mount, Mkdir, CreateTemp
  <2>2. pc' = "done" => ans'.err = "error"
    BY <1>3 DEF ReadBody, Healthy, Disconnect, Dial, Mount, Mkdir, CreateTemp, Goto, Return,
                MkdirAll, FirstCall, Placed, Routed, Kinds
  <2>3. pc' \notin {"removeFlat", "readFlat", "listShard", "rename", "clean"}
    BY <1>3 DEF ReadBody, Healthy, Disconnect, Dial, Mount, Mkdir, CreateTemp, Goto, Return,
                MkdirAll, FirstCall, Placed, Routed, Kinds
  <2> QED BY <1>1, <2>1, <2>2, <2>3, ErrorTrue, KnowsOn
<1> QED BY <1>2, <1>3

\* SaveBlob's looks: a blob that is there has the body of the request.
LEMMA LookTrue ==
  ASSUME OnShare, Placed, WholeObjects, Knows, Look \/ LookFlat
  PROVE  Knows' /\ AnswersTrue'
<1> USE DEF net, share
<1>1. /\ UNCHANGED <<file, rq, before>> /\ pc \in Early \ {"removeFlat"}
      /\ pc' \in {"lookFlat", "mkdir", "done"}
      /\ rq.kind = "SaveBlob"
  BY DEF Look, LookFlat, Goto, Return, Early, Placed, KindsAt
<1>2. Knows'
  BY <1>1, KnowsOn
<1>3. Routed /\ rq.p \in Prefix /\ rq.o \in Blob /\ rq.body \in Bodies[rq.o]
  BY <1>1, Requested, About DEF Placed, Early
<1>4. PICK c \in Content : /\ Bodies[rq.o] = {c} /\ c # Nil
                           /\ file[rq.p][Final(rq.o)] \in {c, Nil}
                           /\ rq.o \in Sharded => file[rq.p][Flat(rq.o)] \in {c, Nil}
  BY <1>3, Whole
<1>5. ASSUME pc' = "done" PROVE AnswersTrue'
  <2>1. Exists(rq.p, Final(rq.o)) \/ (rq.o \in Sharded /\ Exists(rq.p, Flat(rq.o)))
    BY <1>5 DEF Look, LookFlat, Goto, Return, Placed
  <2>2. Value(rq.p, rq.o) = rq.body
    <3>0. Bodies[rq.o] = {c} /\ rq.body \in Bodies[rq.o]
      BY <1>3, <1>4
    <3>1. rq.body = c
      BY <3>0
    <3>2. CASE Exists(rq.p, Final(rq.o))
      BY <1>4, <3>1, <3>2 DEF Value, Exists
    <3>3. CASE ~Exists(rq.p, Final(rq.o))
      <4>1. ~NotFoundFlat(rq.p, rq.o) /\ file[rq.p][Flat(rq.o)] = c
        BY <1>4, <2>1, <3>3 DEF NotFoundFlat, Exists
      <4> QED BY <3>1, <3>3, <4>1 DEF Value
    <3> QED BY <3>2, <3>3
  <2>3. Value(rq.p, rq.o)' = rq'.body
    BY <1>1, <2>2, ValueStays
  <2>4. ans'.err = "ok" /\ rq'.kind = "SaveBlob"
    BY <1>1, <1>5 DEF Look, LookFlat, Goto, Return
  <2> QED BY <2>3, <2>4 DEF AnswersTrue
<1> QED BY <1>2, <1>5 DEF AnswersTrue

\* Writing the temporary file: what goes on to the rename is the body of the request.
LEMMA WriteTrue ==
  ASSUME OnShare, Placed, TempHolds, Knows, WriteTemp
  PROVE  Knows' /\ AnswersTrue'
<1> USE DEF net, share
<1>1. /\ UNCHANGED <<file, rq, before, blame>> /\ pc \in Early /\ pc' \in {"rename", "clean"}
      /\ pc = "write"
  BY DEF WriteTemp, Goto, Quiet, Kept, Early
<1>2. rq.p \in Prefix /\ rq.o \in Object /\ rq.body \in Bodies[rq.o]
  BY <1>1, Saves
<1>3. before' = Value(rq.p, rq.o)'
  BY <1>1, <1>2, ShareNilAssumption, SeenKept
<1>4. ASSUME pc' = "rename"
      PROVE  tmp'[rq.p][rq.o].is = rq.body \/ (rq.o = Config /\ <<"clean", rq.p, rq.o>> \in blame)
  <2>1. PICK u \in Temp : /\ tmp' = [tmp EXCEPT ![rq.p][rq.o] = u]
                          /\ u.of \subseteq Bodies[rq.o]
                          /\ u.is = rq.body \/ ~(tmp[rq.p][rq.o].of \subseteq {rq.body})
    BY <1>4, WriteEffect
  <2>2. tmp'[rq.p][rq.o] = u
    <3>1. tmp' = [tmp EXCEPT ![rq.p][rq.o] = u]
      BY <2>1
    <3> QED BY <1>2, <3>1, TmpSet
  <2>3. CASE u.is = rq.body
    BY <2>2, <2>3
  <2>4. CASE ~(tmp[rq.p][rq.o].of \subseteq {rq.body})
    <3>1. <<"clean", rq.p, rq.o>> \in blame
      BY <1>1, <2>4 DEF TempHolds
    <3>2. tmp[rq.p][rq.o].of \subseteq Bodies[rq.o]
      BY <1>1 DEF TempHolds
    <3>3. rq.o \in Blob => Bodies[rq.o] = {rq.body}
      BY <1>2, ContentAddressed
    <3>4. rq.o = Config
      BY <1>2, <2>4, <3>2, <3>3 DEF Object
    <3> QED BY <3>1, <3>4
  <2> QED BY <2>1, <2>3, <2>4
<1>5. Knows'
  BY <1>1, <1>3, <1>4 DEF Knows
<1> QED BY <1>1, <1>5 DEF AnswersTrue

\* The rename: it has put the body of the request in place or changed nothing.
LEMMA RenameTrue ==
  ASSUME OnShare, Placed, TempHolds, Knows, RenameTemp
  PROVE  Knows' /\ AnswersTrue'
<1> USE DEF net, share
<1>1. /\ UNCHANGED <<rq, before, blame>> /\ pc = "rename" /\ pc' \in {"clean", "done"}
      /\ rq.kind \in {"SaveBlob", "SaveConfig"} /\ Routed
  BY DEF RenameTemp, Goto, Return, Quiet, Kept, Placed, KindsAt
<1>2. rq.p \in Prefix /\ rq.o \in Object /\ rq.body \in Bodies[rq.o] /\ Final(rq.o) \in Paths
  BY <1>1, Saves, ShareFacts
<1> DEFINE excused == rq.o = Config /\ <<"clean", rq.p, rq.o>> \in blame
<1>3. CASE ~Publish
  <2>1. UNCHANGED file /\ pc' = "clean"
    BY <1>3 DEF RenameTemp, Goto, Return
  <2>2. before' = Value(rq.p, rq.o)'
    BY <1>1, <1>2, <2>1, ShareNilAssumption, SeenKept DEF Early
  <2> QED BY <1>1, <2>1, <2>2 DEF Knows, AnswersTrue, Early
<1>4. CASE Publish
  <2>1. /\ file' = [file EXCEPT ![rq.p][Final(rq.o)] = tmp[rq.p][rq.o].is]
        /\ tmp[rq.p][rq.o].is \in Content \cup {Torn}
    <3>1. tmp[rq.p][rq.o] \in Temp
      BY <1>1 DEF TempHolds
    <3> QED BY <1>4, <3>1 DEF Publish, Temp
  <2>2. file'[rq.p][Final(rq.o)] = tmp[rq.p][rq.o].is
    <3>1. PICK x \in Paths : x = Final(rq.o)
      BY <1>2
    <3>2. file' = [file EXCEPT ![rq.p][x] = tmp[rq.p][rq.o].is]
      BY <2>1, <3>1
    <3>3. tmp[rq.p][rq.o].is \in Content \cup {Nil, Torn}
      BY <2>1
    <3>4. file'[rq.p][x] = tmp[rq.p][rq.o].is
      BY <1>2, <3>2, <3>3, FileSet
    <3> QED BY <3>1, <3>4
  <2>3. Value(rq.p, rq.o)' = tmp[rq.p][rq.o].is
    <3>1. tmp[rq.p][rq.o].is # Nil
      BY <2>1, ShareNilAssumption
    <3> QED BY <1>1, <2>2, <3>1 DEF Value, Exists
  <2>4. Value(rq.p, rq.o)' = rq.body \/ excused
    BY <1>1, <2>3 DEF Knows
  <2>5. rq.kind = "SaveBlob" => Value(rq.p, rq.o)' = rq.body
    BY <1>1, <2>4, About, ShareObjectAssumption
  <2>6. rq.kind = "SaveConfig" => rq.o = Config
    BY <1>1, About
  <2>7. Knows'
    BY <1>1, <2>4 DEF Knows, Early
  <2>8. AnswersTrue'
    <3>1. pc' = "done" => ans'.err = "ok"
      BY DEF RenameTemp, Goto, Return
    <3> QED BY <1>1, <2>4, <2>5, <2>6, <3>1 DEF AnswersTrue
  <2> QED BY <2>7, <2>8
<1> QED BY <1>3, <1>4

\* After a failed write or rename.
LEMMA CleanTrue ==
  ASSUME Placed, Knows, Clean
  PROVE  Knows' /\ AnswersTrue'
<1> USE DEF net, share
<1>1. /\ UNCHANGED <<file, rq, before>> /\ pc = "clean" /\ pc' = "done" /\ ans'.err = "error"
      /\ rq.kind \in {"SaveBlob", "SaveConfig"} /\ Routed /\ blame \subseteq blame'
  BY DEF Clean, Return, Placed, KindsAt, Littered
<1>2. Value(rq.p, rq.o)' = Value(rq.p, rq.o)
  BY <1>1, ValueStays
<1>3. Value(rq.p, rq.o) \in {before, rq.body} \/ (rq.o = Config /\ <<"clean", rq.p, rq.o>> \in blame)
  BY <1>1 DEF Knows
<1>4. rq.kind = "SaveBlob" => rq.o # Config
  BY <1>1, About, ShareObjectAssumption
<1>5. Knows'
  BY <1>1 DEF Knows, Early
<1> QED BY <1>1, <1>2, <1>3, <1>4, <1>5 DEF AnswersTrue

\* DeleteBlob: what is taken away was there, and what answers "not found" was not, but for
\* the mistakes.
LEMMA RemoveTrue ==
  ASSUME OnShare, InProcess, Placed, WholeObjects, CopiesBlamed, Knows, Remove \/ RemoveFlat
  PROVE  Knows' /\ AnswersTrue'
<1> USE DEF net, share
<1> DEFINE final == file[rq.p][Final(rq.o)]
           flat == file[rq.p][Flat(rq.o)]
           was == Value(rq.p, rq.o)
           now == Value(rq.p, rq.o)'
<1>1. /\ UNCHANGED <<rq, before, blame>> /\ pc \in {"remove", "removeFlat"}
      /\ pc' \in {"removeFlat", "done"} /\ rq.kind = "DeleteBlob" /\ Routed
      /\ pc = "removeFlat" => rq.o \in Sharded
      /\ mistaken => mistaken'
  BY DEF Remove, RemoveFlat, Removal, Missing, Goto, Return, Kept, Placed, KindsAt
<1>2. rq.p \in Prefix /\ rq.o \in Blob /\ rq.o # Nil
  BY <1>1, Requested, About
<1>3. /\ before = was \/ (pc = "removeFlat" /\ mistaken /\ was = Nil)
      /\ pc = "removeFlat" => final = Nil \/ mistaken
  BY <1>1, <1>2 DEF Knows, Early, Exists
<1>4. PICK c \in Content : /\ Bodies[rq.o] = {c} /\ c # Nil /\ final \in {c, Nil}
                           /\ rq.o \in Sharded => flat \in {c, Nil}
  BY <1>2, Whole
<1>5. was = IF final # Nil \/ rq.o \notin Sharded \/ flat = Nil THEN final ELSE flat
  BY DEF Value, Exists, NotFoundFlat
<1>6. Final(rq.o) \in Paths /\ (rq.o \in Sharded => Flat(rq.o) \in Paths) /\ Final(rq.o) # Flat(rq.o)
  BY <1>2, ShareFacts
<1> DEFINE Gone(x) == file' = [file EXCEPT ![rq.p][x] = Nil]
<1>7. ASSUME Gone(Final(rq.o))
      PROVE  now = IF rq.o \in Sharded THEN flat ELSE Nil
  <2>1. file'[rq.p][Final(rq.o)] = Nil
    BY <1>2, <1>6, <1>7, FileSet
  <2>2. rq.o \in Sharded => file'[rq.p][Flat(rq.o)] = flat
    BY <1>2, <1>6, <1>7, FileSet
  <2> QED BY <1>1, <2>1, <2>2 DEF Value, Exists, NotFoundFlat
<1>8. ASSUME Gone(Flat(rq.o)), pc = "removeFlat"
      PROVE  now = final
  <2>1. file'[rq.p][Final(rq.o)] = final /\ file'[rq.p][Flat(rq.o)] = Nil
    BY <1>1, <1>2, <1>6, <1>8, FileSet
  <2> QED BY <1>1, <2>1 DEF Value, Exists, NotFoundFlat
<1>9. ASSUME UNCHANGED file PROVE now = was
  BY <1>1, <1>9, ValueStays
<1>10. rq.o \in Sharded /\ final # Nil /\ flat # Nil => <<"look", rq.p, rq.o>> \in blame
  BY <1>2 DEF CopiesBlamed, Exists
<1> HIDE DEF final, flat, was, now
<1>11. ASSUME pc = "remove" PROVE Knows' /\ AnswersTrue'
  <2>1. \/ final # Nil /\ Gone(Final(rq.o)) /\ pc' = "done" /\ ans'.err = "ok"
        \/ /\ \/ UNCHANGED file /\ (final = Nil \/ mistaken')
              \/ Gone(Final(rq.o)) /\ mistaken'
           /\ IF rq.o \in Sharded THEN pc' = "removeFlat" ELSE pc' = "done" /\ ans'.err = "ErrNotFound"
        \/ Gone(Final(rq.o)) /\ pc' = "done" /\ ans'.err = "error"
        \/ UNCHANGED file /\ pc' = "done" /\ ans'.err = "error"
    BY <1>11 DEF Remove, RemoveFlat, Removal, Missing, Unlink, Goto, Return, Exists, final
  <2> HIDE DEF Gone
  <2>a. before = was
    BY <1>3, <1>11
  <2>2. CASE final # Nil /\ Gone(Final(rq.o)) /\ pc' = "done" /\ ans'.err = "ok"
    <3>1. before # Nil
      BY <1>5, <2>2, <2>a
    <3>2. now = Nil \/ <<"look", rq.p, rq.o>> \in blame
      BY <1>7, <1>10, <2>2
    <3> QED BY <1>1, <2>2, <3>1, <3>2 DEF AnswersTrue, Knows, Early, now
  <2>3. CASE UNCHANGED file /\ (final = Nil \/ mistaken') /\ rq.o \in Sharded /\ pc' = "removeFlat"
    <3>1. before' = now /\ (~Exists(rq.p, Final(rq.o))' \/ mistaken')
      BY <1>1, <1>9, <2>3, <2>a DEF Exists, final
    <3> QED BY <1>1, <2>3, <3>1 DEF Knows, AnswersTrue, now
  <2>4. CASE UNCHANGED file /\ (final = Nil \/ mistaken') /\ rq.o \notin Sharded /\ pc' = "done"
             /\ ans'.err = "ErrNotFound"
    <3>1. (before = Nil \/ mistaken') /\ now = before
      BY <1>5, <1>9, <2>4, <2>a
    <3> QED BY <1>1, <2>4, <3>1 DEF Knows, AnswersTrue, Early, now
  <2>7. CASE Gone(Final(rq.o)) /\ mistaken' /\ rq.o \in Sharded /\ pc' = "removeFlat"
    <3>1. before' = now \/ now = Nil
      BY <1>1, <1>4, <1>5, <1>7, <2>7, <2>a
    <3> QED BY <1>1, <2>7, <3>1 DEF Knows, AnswersTrue, now
  <2>8. CASE Gone(Final(rq.o)) /\ mistaken' /\ rq.o \notin Sharded /\ pc' = "done"
             /\ ans'.err = "ErrNotFound"
    <3>1. now = Nil
      BY <1>7, <2>8
    <3> QED BY <1>1, <2>8, <3>1 DEF Knows, AnswersTrue, Early, now
  <2>5. CASE Gone(Final(rq.o)) /\ pc' = "done" /\ ans'.err = "error"
    <3>1. now \in {before, Nil}
      BY <1>4, <1>5, <1>7, <2>5, <2>a
    <3> QED BY <1>1, <2>5, <3>1 DEF Knows, AnswersTrue, Early, now
  <2>6. CASE UNCHANGED file /\ pc' = "done" /\ ans'.err = "error"
    BY <1>1, <1>9, <2>6, <2>a DEF Knows, AnswersTrue, Early, now
  <2> QED BY <2>1, <2>2, <2>3, <2>4, <2>5, <2>6, <2>7, <2>8
<1>12. ASSUME pc = "removeFlat" PROVE Knows' /\ AnswersTrue'
  <2>1. /\ pc' = "done"
        /\ \/ flat # Nil /\ Gone(Flat(rq.o)) /\ ans'.err = "ok"
           \/ (flat = Nil \/ mistaken') /\ UNCHANGED file /\ ans'.err = "ErrNotFound"
           \/ mistaken' /\ Gone(Flat(rq.o)) /\ ans'.err = "ErrNotFound"
           \/ Gone(Flat(rq.o)) /\ ans'.err = "error"
           \/ UNCHANGED file /\ ans'.err = "error"
    BY <1>12 DEF Remove, RemoveFlat, Removal, Missing, Unlink, Goto, Return, Exists, flat
  <2>2. (final = Nil \/ mistaken) /\ rq.o \in Sharded
    BY <1>1, <1>3, <1>12
  <2> HIDE DEF Gone
  <2>3. Knows'
    BY <2>1 DEF Knows, Early
  <2>4. ans'.err = "ok" => before # Nil /\ (now = Nil \/ <<"look", rq.p, rq.o>> \in blame)
    BY <1>3, <1>4, <1>5, <1>8, <1>10, <1>12, <2>1, <2>2
  <2>5. ans'.err # "ok" => now \in {before, Nil}
    <3>1. Gone(Flat(rq.o)) => now = final
      BY <1>8, <1>12
    <3>2. final = Nil \/ was = final
      BY <1>5
    <3> QED BY <1>3, <1>9, <2>1, <3>1, <3>2
  <2>6. ans'.err = "ErrNotFound" => before = Nil \/ mistaken'
    BY <1>1, <1>3, <1>5, <2>1, <2>2
  <2>7. ans'.err # "ErrRepoNotFound"
    BY <2>1
  <2> QED BY <1>1, <2>1, <2>3, <2>4, <2>5, <2>6, <2>7 DEF AnswersTrue, now
<1> QED BY <1>1, <1>11, <1>12

\* Reads: what is answered is what is there.
LEMMA ReadTrue ==
  ASSUME OnShare, Placed, WholeObjects, Knows, Read \/ ReadFlat
  PROVE  Knows' /\ AnswersTrue'
<1> USE DEF net, share
<1>1. /\ UNCHANGED <<file, rq, before, blame>> /\ pc \in {"read", "readFlat"}
      /\ pc' \in {"readFlat", "done"} /\ rq.kind = "Read" /\ Routed
      /\ pc = "readFlat" => rq.o \in Sharded
      /\ mistaken => mistaken'
  BY DEF Read, ReadFlat, ReadFile, Missing, Goto, Return, Kept, Placed, KindsAt
<1>2. /\ rq.o # Nil /\ before = Value(rq.p, rq.o)
      /\ pc = "readFlat" => ~Exists(rq.p, Final(rq.o)) \/ mistaken
  BY <1>1, About DEF Knows, Early
<1>3. before' = Value(rq.p, rq.o)'
  BY <1>1, <1>2, SeenKept DEF Early
<1>4. CASE pc' = "readFlat"
  <2>1. ~Exists(rq.p, Final(rq.o)) \/ mistaken'
    BY <1>4 DEF Read, ReadFlat, ReadFile, Missing, Goto, Return
  <2> QED BY <1>1, <1>3, <1>4, <2>1 DEF Knows, AnswersTrue, Exists
<1>5. CASE pc' = "done"
  <2>1. Knows'
    BY <1>5 DEF Knows, Early
  <2>2. \/ /\ pc = "read" /\ Exists(rq.p, Final(rq.o))
           /\ ans' = [err |-> "ok", value |-> file[rq.p][Final(rq.o)]]
        \/ /\ pc = "read" /\ (~Exists(rq.p, Final(rq.o)) \/ mistaken') /\ rq.o \notin Sharded
           /\ ans'.err = "ErrNotFound"
        \/ /\ pc = "readFlat" /\ Exists(rq.p, Flat(rq.o))
           /\ ans' = [err |-> "ok", value |-> file[rq.p][Flat(rq.o)]]
        \/ /\ pc = "readFlat" /\ (~Exists(rq.p, Flat(rq.o)) \/ mistaken')
           /\ ans'.err = "ErrNotFound"
        \/ ans'.err = "error"
    BY <1>1, <1>5 DEF Read, ReadFlat, ReadFile, Missing, Goto, Return
  <2>3. ASSUME pc = "readFlat", Exists(rq.p, Flat(rq.o))
        PROVE  Value(rq.p, rq.o) = file[rq.p][Flat(rq.o)]
    <3>1. rq.p \in Prefix /\ rq.o \in Sharded /\ rq.o \in Blob
      BY <1>1, <2>3, Requested, ShareFacts
    <3>2. PICK c \in Content : /\ c # Nil /\ file[rq.p][Final(rq.o)] \in {c, Nil}
                               /\ file[rq.p][Flat(rq.o)] \in {c, Nil}
      BY <3>1, Whole
    <3> QED BY <2>3, <3>1, <3>2 DEF Value, Exists, NotFoundFlat
  <2>4. /\ ans'.err = "ok" => ans'.value = before /\ before # Nil
        /\ ans'.err = "ErrNotFound" => before = Nil \/ mistaken'
        /\ ans'.err \in {"ok", "ErrNotFound", "error"}
    BY <1>1, <1>2, <2>2, <2>3 DEF Value, Exists, NotFoundFlat
  <2> QED BY <1>1, <1>5, <2>1, <2>4 DEF AnswersTrue
<1> QED BY <1>1, <1>4, <1>5

\* A listing names the blob if and only if it is there, or by a mistake does not.
LEMMA ListTrue ==
  ASSUME OnShare, Placed, Knows, List \/ ListShard
  PROVE  Knows' /\ AnswersTrue'
<1> USE DEF net, share
<1>1. /\ UNCHANGED <<file, tmp, rq, before>> /\ pc \in {"list", "listShard"}
      /\ pc' \in {"listShard", "done"} /\ rq.kind = "ListBlobs" /\ Routed
      /\ pc = "listShard" => rq.o \in Sharded
      /\ mistaken => mistaken'
  BY DEF List, ListShard, ListDir, Goto, Return, Placed, KindsAt
<1>2. rq.o # Nil /\ rq.o \in Blob /\ before = Value(rq.p, rq.o)
  BY <1>1, About DEF Knows, Early
<1>3. before' = Value(rq.p, rq.o)'
  BY <1>1, <1>2, SeenKept DEF Early
<1> DEFINE final == Entries(rq.p, Final(rq.o))
           flat == Entries(rq.p, Flat(rq.o))
           Listed(S) == \E x \in S : x[2] # "temp"
<1>4. /\ Listed(final) <=> Exists(rq.p, Final(rq.o))
      /\ Listed(flat) <=> Exists(rq.p, Flat(rq.o))
  <2>1. /\ Final(rq.o)[2] = "final" /\ Flat(rq.o)[2] = "flat"
        /\ Final(rq.o)[1] = rq.o /\ <<rq.o, "temp">>[2] = "temp"
    BY DEF Final, Flat
  <2> QED BY <2>1 DEF Entries
<1>5. before # Nil <=> Listed(final) \/ (rq.o \in Sharded /\ Listed(flat))
  BY <1>2, <1>4 DEF Value, Exists, NotFoundFlat
<1>6. ASSUME NEW S, NEW T, found' = S \cup T
      PROVE  Listed(found') <=> Listed(S) \/ Listed(T)
  BY <1>6
<1>7. CASE pc' = "listShard"
  <2>1. found' = flat \/ (found' = {} /\ mistaken')
    BY <1>7 DEF List, ListShard, ListDir, Goto, Return
  <2>2. Entries(rq.p, Flat(rq.o))' = flat
    BY <1>1 DEF Entries, Exists
  <2> QED BY <1>1, <1>3, <1>7, <2>1, <2>2 DEF Knows, AnswersTrue
<1>8. CASE pc' = "done"
  <2>1. Knows'
    BY <1>8 DEF Knows, Early
  <2>2. CASE ans'.err = "error"
    BY <1>1, <1>8, <2>1, <2>2 DEF AnswersTrue
  <2>3. CASE ans'.err # "error"
    <3>1. /\ ans'.err = "ok"
          /\ \E old : /\ found' = old \cup final \/ (found' = old /\ mistaken')
                      /\ IF pc = "listShard" THEN old = found
                         ELSE old = {} /\ rq.o \notin Sharded
      <4>1. CASE List
        <5>1. pc = "list" /\ rq.o \notin Sharded
          <6>1. pc = "list" /\ (rq.o \in Sharded => pc' = "listShard" \/ ans'.err = "error")
            BY <4>1 DEF List, ListDir, Goto, Return
          <6> QED BY <1>8, <2>3, <6>1
        <5>2. ans'.err = "ok" /\ (found' = {} \cup final \/ (found' = {} /\ mistaken'))
          BY <2>3, <4>1, <5>1 DEF List, ListDir, Return
        <5> QED BY <5>1, <5>2
      <4>2. CASE ListShard
        <5>1. pc = "listShard"
          BY <4>2 DEF ListShard
        <5>2. ans'.err = "ok" /\ (found' = found \cup final \/ (found' = found /\ mistaken'))
          BY <2>3, <4>2 DEF ListShard, ListDir, Return
        <5> QED BY <5>1, <5>2
      <4> QED BY <4>1, <4>2
    <3>2. PICK old : /\ found' = old \cup final \/ (found' = old /\ mistaken')
                     /\ IF pc = "listShard" THEN old = found
                        ELSE old = {} /\ rq.o \notin Sharded
      BY <3>1
    <3>3. pc = "listShard" => found = flat \/ (found = {} /\ mistaken)
      BY DEF Knows
    <3>4. IF rq.o \in Sharded THEN old = flat \/ (old = {} /\ mistaken') ELSE old = {}
      BY <1>1, <3>2, <3>3
    <3>5. ~Listed({})
      OBVIOUS
    <3>6. /\ Listed(found') => Listed(old) \/ Listed(final)
          /\ Listed(old) \/ Listed(final) => Listed(found') \/ mistaken'
      BY <3>2
    <3> HIDE DEF Listed, final, flat
    <3>7. (Listed(found') => before # Nil) /\ (before # Nil => Listed(found') \/ mistaken')
      BY <1>5, <3>4, <3>5, <3>6
    <3> QED BY <1>1, <1>8, <2>1, <3>1, <3>7 DEF AnswersTrue, Listed
  <2> QED BY <2>2, <2>3
<1> QED BY <1>1, <1>7, <1>8

\* DeleteRepo: once its directory is gone, so is everything that was in it.
LEMMA DropTrue ==
  ASSUME OnShare, Placed, Homed, Knows, StatRepo \/ RemoveEntry \/ RemoveEnds
  PROVE  Knows' /\ AnswersTrue'
<1> USE DEF net, share
<1>1. /\ rq' = rq /\ pc' \in {"removeAll", "done"} /\ rq.kind = "DeleteRepo" /\ Routed
  BY DEF StatRepo, RemoveEntry, RemoveEnds, Goto, Return, Placed, KindsAt
<1>2. Knows'
  BY <1>1 DEF Knows, Early
<1>3. CASE pc' = "removeAll"
  BY <1>2, <1>3 DEF AnswersTrue
<1>4. CASE pc' = "done" /\ ans'.err = "error"
  BY <1>1, <1>2, <1>4 DEF AnswersTrue
<1>6. CASE pc' = "done" /\ ans'.err = "ErrRepoNotFound"
  <2>1. UNCHANGED dirs /\ (<<rq.p, "root">> \notin dirs \/ mistaken')
    BY <1>6 DEF StatRepo, RemoveEntry, RemoveEnds, Goto, Return
  <2> QED BY <1>1, <1>2, <1>6, <2>1 DEF AnswersTrue
<1>5. CASE pc' = "done" /\ ans'.err \notin {"error", "ErrRepoNotFound"}
  <2>1. UNCHANGED <<file, dirs>> /\ <<rq.p, "root">> \notin dirs /\ ans'.err = "ok"
    BY <1>5 DEF StatRepo, RemoveEntry, RemoveEnds, Goto, Return
  <2>2. ASSUME NEW q \in Within(rq.p), NEW x \in Paths, Exists(q, x) PROVE FALSE
    <3>1. rq.p \in Prefix /\ q \in Prefix
      BY <1>1, Requested DEF Within
    <3>2. <<q, DirOfPath(x)>> \in dirs
      BY <2>2, <3>1 DEF Homed
    <3>3. Parents(q, DirOfPath(x)) \subseteq dirs
      BY <3>2 DEF Homed
    <3>4. DirOfPath(x) \in {"root", "data", "type", "shard"}
      BY DEF DirOfPath, DirOf
    <3>5. rq.p = q \/ rq.p = Top
      BY <2>2 DEF Within
    <3>6. <<rq.p, "root">> \in {<<q, DirOfPath(x)>>} \cup Parents(q, DirOfPath(x))
      BY <3>4, <3>5 DEF Parents
    <3> QED BY <2>1, <3>2, <3>3, <3>6
  <2>3. \A q \in Within(rq.p), x \in Paths : ~Exists(q, x)'
    BY <2>1, <2>2 DEF Exists
  <2> QED BY <1>1, <1>2, <1>5, <2>1, <2>3 DEF AnswersTrue
<1> QED BY <1>1, <1>3, <1>4, <1>5, <1>6

\* The directories above a directory are closed under going up.
LEMMA ChainClosed ==
  ASSUME NEW p \in Prefix, NEW d \in {"root", "data", "type", "shard"}, NEW e \in Chain(p, d)
  PROVE  Parents(e[1], e[2]) \subseteq Chain(p, d)
<1>1. e \in {<<p, d>>, <<p, "root">>, <<p, "data">>, <<Top, "root">>}
  BY DEF Chain, Parents
<1>2. Parents(Top, "root") = {}
  BY DEF Parents
<1>3. Parents(p, "root") \subseteq {<<Top, "root">>}
  BY DEF Parents
<1>4. Parents(p, "data") = {<<p, "root">>, <<Top, "root">>}
  BY DEF Parents
<1>5. d = "root" => Chain(p, d) = {<<p, "root">>} \cup Parents(p, "root")
  BY DEF Chain
<1>6. d \in {"data", "type"} => Chain(p, d) = {<<p, d>>, <<p, "root">>, <<Top, "root">>}
  BY DEF Chain, Parents
<1>7. d = "shard" => Chain(p, d) = {<<p, "shard">>, <<p, "data">>, <<p, "root">>, <<Top, "root">>}
  BY DEF Chain, Parents
<1>8. d \in {"type", "shard"} => Parents(p, d) \subseteq Chain(p, d)
  BY DEF Chain
<1>9. CASE d = "root"
  BY <1>2, <1>3, <1>5, <1>9
<1>10. CASE d \in {"data", "type"}
  <2>1. Parents(p, d) = {<<p, "root">>, <<Top, "root">>}
    BY <1>10 DEF Parents
  <2> QED BY <1>2, <1>3, <1>6, <1>10, <2>1
<1>11. CASE d = "shard"
  <2>1. Parents(p, d) = {<<p, "data">>, <<p, "root">>, <<Top, "root">>}
    BY <1>11 DEF Parents
  <2> QED BY <1>2, <1>3, <1>4, <1>7, <1>11, <2>1
<1> QED BY <1>9, <1>10, <1>11

\* Making directories from the top leaves none without those above it.
LEMMA MkdirHomed ==
  ASSUME Placed, Homed, MkdirRepo \/ Mkdir
  PROVE  dirs \subseteq dirs' /\ \A e \in dirs' : Parents(e[1], e[2]) \subseteq dirs'
<1> DEFINE Closed(S) == \A e \in S : Parents(e[1], e[2]) \subseteq S
           Dir == {"root", "data", "type", "shard"}
<1>1. rq.p \in Prefix /\ DirOf(rq.o) \in Dir
  BY Requested DEF Placed, MkdirRepo, Mkdir, DirOf
<1>2. \A d \in Dir : Closed(Chain(rq.p, d))
  BY <1>1, ChainClosed
<1>3. Closed(dirs)
  BY DEF Homed
<1>4. PICK S : Closed(S) /\ MkdirAll(S, pc' = "create" \/ pc' = "done")
  <2>1. CASE MkdirRepo
    <3>1. MkdirAll(Chain(rq.p, "type") \cup Chain(rq.p, "shard"), pc' = "create" \/ pc' = "done")
      BY <2>1 DEF MkdirRepo, MkdirAll, Return
    <3>2. Closed(Chain(rq.p, "type") \cup Chain(rq.p, "shard"))
      BY <1>2
    <3> HIDE DEF Closed
    <3> QED BY <3>1, <3>2
  <2>2. CASE Mkdir
    <3>1. MkdirAll(Chain(rq.p, DirOf(rq.o)), pc' = "create" \/ pc' = "done")
      BY <2>2 DEF Mkdir, MkdirAll, Return, Goto
    <3>2. Closed(Chain(rq.p, DirOf(rq.o)))
      BY <1>1, <1>2
    <3> HIDE DEF Closed
    <3> QED BY <3>1, <3>2
  <2> QED BY <2>1, <2>2
<1>5. CASE dirs' = dirs \cup S
  BY <1>3, <1>4, <1>5
<1>6. CASE \E T \in SUBSET S : /\ \A e \in T : Parents(e[1], e[2]) \subseteq T \cup dirs
                               /\ dirs' = dirs \cup (IF conn = "up" THEN T ELSE {})
  BY <1>3, <1>6
<1> QED BY <1>4, <1>5, <1>6 DEF MkdirAll

\* No call of the backend and no loss of the connection leaves a file without its directory.
LEMMA HomedStep ==
  ASSUME OnShare, Placed, TempHolds, Homed, Next
  PROVE  Homed'
<1>1. pc' \in {"write", "rename"} => /\ CreateTemp \/ WriteTemp
                                     /\ <<rq'.p, DirOf(rq'.o)>> \in dirs'
  <2>1. Entered
    BY WriteEntered
  <2>2. CASE pc' = "write"
    <3>1. CreateTemp /\ Answered /\ rq' = rq
      BY <2>1, <2>2 DEF Entered
    <3>2. <<rq.p, DirOf(rq.o)>> \in dirs /\ dirs' = dirs
      BY <2>2, <3>1 DEF CreateTemp, Return
    <3> QED BY <3>1, <3>2
  <2>3. CASE pc' = "rename"
    <3>1. WriteTemp /\ rq' = rq
      BY <2>1, <2>3 DEF Entered
    <3>2. pc = "write" /\ dirs' = dirs
      BY <3>1 DEF WriteTemp
    <3> QED BY <3>1, <3>2 DEF Homed
  <2> QED BY <2>2, <2>3
<1>2. CASE UNCHANGED <<file, dirs>>
  BY <1>1, <1>2 DEF Homed, Exists
<1>3. CASE MkdirRepo \/ Mkdir
  <2>1. UNCHANGED file /\ dirs \subseteq dirs' /\ \A e \in dirs' : Parents(e[1], e[2]) \subseteq dirs'
    BY <1>3, MkdirHomed DEF MkdirRepo, Mkdir
  <2> QED BY <1>1, <2>1 DEF Homed, Exists
<1>4. CASE RenameTemp
  <2>1. CASE UNCHANGED <<file, tmp>>
    BY <1>2, <1>4, <2>1, RenameEffect
  <2>2. CASE ~UNCHANGED <<file, tmp>>
    <3>1. rq.p \in Prefix /\ rq.o \in Object /\ Final(rq.o) \in Paths
      BY <1>4, Saves, ShareFacts DEF RenameTemp
    <3>2. /\ file' = [file EXCEPT ![rq.p][Final(rq.o)] = tmp[rq.p][rq.o].is] /\ UNCHANGED dirs
          /\ tmp[rq.p][rq.o].is \in Content \cup {Nil, Torn}
      BY <1>4, <2>2, RenameEffect
    <3>3. PICK x \in Paths : x = Final(rq.o)
      BY <3>1
    <3>4. PICK u \in Content \cup {Nil, Torn} : file' = [file EXCEPT ![rq.p][x] = u]
      BY <3>2, <3>3
    <3>5. \A q \in Prefix, y \in Paths : file'[q][y] = IF q = rq.p /\ y = x THEN u ELSE file[q][y]
      BY <3>1, <3>4, FileSet
    <3>6. DirOfPath(x) = DirOf(rq.o)
      BY <3>3 DEF Final, DirOfPath
    <3>7. <<rq.p, DirOfPath(x)>> \in dirs
      BY <1>4, <3>6 DEF Homed, RenameTemp
    <3> QED BY <1>1, <3>2, <3>5, <3>7 DEF Homed, Exists
  <2> QED BY <2>1, <2>2
<1>5. CASE (Remove \/ RemoveFlat \/ RemoveEntry) /\ ~UNCHANGED file
  <2>1. PICK q \in Prefix, x \in Paths : file' = [file EXCEPT ![q][x] = Nil] /\ UNCHANGED dirs
    BY <1>5, RemoveEffect
  <2>2. \A r \in Prefix, y \in Paths : file'[r][y] = file[r][y] \/ file'[r][y] = Nil
    BY <2>1, FileSet
  <2> QED BY <1>1, <2>1, <2>2 DEF Homed, Exists
<1>6. CASE (Remove \/ RemoveFlat \/ RemoveEntry) /\ UNCHANGED file /\ ~UNCHANGED dirs
  <2>1. RemoveEntry
    BY <1>6 DEF Remove, RemoveFlat, Removal
  <2>2. PICK q \in Within(rq.p), d \in {"root", "data", "type", "shard"} :
          <<q, d>> \in dirs /\ IsEmpty(q, d) /\ dirs' = dirs \ {<<q, d>>}
    BY <1>6, <2>1 DEF RemoveEntry
  <2>3. \A x \in Paths : Exists(q, x) => DirOfPath(x) # d
    BY <2>2 DEF IsEmpty
  <2>4. \A e \in dirs : <<q, d>> \notin Parents(e[1], e[2]) \ {e}
    BY <2>2 DEF IsEmpty
  <2>5. \A e \in dirs' : Parents(e[1], e[2]) \subseteq dirs'
    BY <2>2, <2>4 DEF Homed
  <2>6. \A p \in Prefix, x \in Paths : Exists(p, x)' => <<p, DirOfPath(x)>> \in dirs'
    BY <1>6, <2>2, <2>3 DEF Homed, Exists
  <2> QED BY <1>1, <2>5, <2>6 DEF Homed
<1> QED
  BY <1>2, <1>3, <1>4, <1>5, <1>6, ShareTouched, CreateEffect, WriteEffect, CleanEffect DEF share

\* Between operations, and when one begins.
LEMMA RestTrue ==
  ASSUME Knows, AnswersTrue,
         \/ \E kind \in Kinds, p \in Prefix : \E o \in Targets(kind) :
              \E body \in Payloads(kind, o) : Begin(kind, p, o, body)
         \/ Finish \/ Break \/ Crash \/ UNCHANGED vars
  PROVE  Knows' /\ AnswersTrue'
<1> USE DEF net, share
<1>1. CASE Finish \/ Break \/ Crash
  <2>1. pc' = "idle"
    BY <1>1 DEF Finish, Break, Crash
  <2> QED BY <2>1 DEF Knows, AnswersTrue, Early
<1>2. ASSUME NEW kind \in Kinds, NEW p \in Prefix, NEW o \in Targets(kind),
             NEW body \in Payloads(kind, o), Begin(kind, p, o, body)
      PROVE  Knows' /\ AnswersTrue'
  <2>1. pc' \in {"ensure", "body"} /\ rq'.p = p /\ rq'.o = o /\ UNCHANGED file
        /\ (o # Nil => before' = Value(p, o))
    BY <1>2 DEF Begin
  <2>2. rq'.o # Nil => before' = Value(rq.p, rq.o)'
    BY <2>1 DEF Value, Exists, NotFoundFlat
  <2> QED BY <2>1, <2>2 DEF Knows, AnswersTrue
<1>3. CASE UNCHANGED vars
  <2>1. Value(rq.p, rq.o)' = Value(rq.p, rq.o)
    BY <1>3, ValueStays DEF vars
  <2> USE <1>3 DEF vars
  <2>2. Knows'
    BY <2>1 DEF Knows, Entries, Exists
  <2>3. AnswersTrue'
    BY <2>1 DEF AnswersTrue, Exists
  <2> QED BY <2>2, <2>3
<1> QED BY <1>1, <1>2, <1>3

\* The inductive invariant behind AnswersTrue, on top of ShareInv.
AnswerInv == Homed /\ Knows /\ AnswersTrue

\* Every step keeps it.
LEMMA AnswerStep == ShareInv /\ AnswerInv /\ [Next]_vars => AnswerInv'
<1> SUFFICES ASSUME ShareInv, AnswerInv, [Next]_vars PROVE AnswerInv'
  OBVIOUS
<1>1. /\ OnShare /\ InProcess /\ Placed /\ TempHolds /\ WholeObjects /\ CopiesBlamed
      /\ Homed /\ Knows /\ AnswersTrue
  BY ShareParts DEF ShareInv, AnswerInv
<1>2. Homed'
  <2>1. UNCHANGED vars => Homed'
    BY <1>1 DEF Homed, Exists, vars, share
  <2> QED BY <1>1, <2>1, HomedStep
<1>3. Knows' /\ AnswersTrue'
  BY <1>1, QuietTrue, LookTrue, WriteTrue, RenameTrue, CleanTrue, RemoveTrue, ReadTrue, ListTrue,
     DropTrue, RestTrue DEF Next
<1> QED BY <1>2, <1>3 DEF AnswerInv

\* It holds of an empty share and of one that holds blobs from before.
LEMMA AnswerInit == Init => AnswerInv
<1> SUFFICES ASSUME Init PROVE AnswerInv
  OBVIOUS
<1>1. Knows /\ AnswersTrue
  BY DEF Init, Knows, AnswersTrue, Early
<1>2. PICK L \in [Prefix -> SUBSET Legacy] :
        /\ file = [p \in Prefix |-> [x \in Paths |->
             IF x[2] = "flat" /\ x[1] \in L[p] THEN CHOOSE c \in Bodies[x[1]] : TRUE ELSE Nil]]
        /\ dirs = UNION {Chain(p, "data") : p \in {q \in Prefix : L[q] # {}}}
  BY DEF Init
<1>3. ASSUME NEW p \in Prefix, NEW x \in Paths, Exists(p, x) PROVE <<p, DirOfPath(x)>> \in dirs
  <2>1. x[2] = "flat" /\ x[1] \in L[p]
    BY <1>2, <1>3 DEF Exists
  <2>2. DirOfPath(x) = "data" /\ L[p] # {}
    BY <2>1 DEF DirOfPath
  <2>3. <<p, "data">> \in Chain(p, "data")
    BY DEF Chain
  <2> QED BY <1>2, <2>2, <2>3
<1>4. ASSUME NEW e \in dirs PROVE Parents(e[1], e[2]) \subseteq dirs
  <2>1. PICK p \in Prefix : L[p] # {} /\ e \in Chain(p, "data")
    BY <1>2, <1>4
  <2>2. Chain(p, "data") \subseteq dirs
    BY <1>2, <2>1
  <2> QED BY <2>1, <2>2, ChainClosed
<1>5. Homed
  BY <1>3, <1>4 DEF Homed, Init
<1> QED BY <1>1, <1>5 DEF AnswerInv

\* What a client of the NFS and SMB backends is told is true, whatever the network does.
THEOREM ShareAnswers == Spec => []AnswersTrue
<1>1. AnswerInv => AnswersTrue
  BY DEF AnswerInv
<1> QED BY <1>1, AnswerInit, AnswerStep, ShareInvariant, PTL DEF Spec
=============================================================================
