------------------------ MODULE ServeLifecycleProofs ------------------------
(***************************************************************************)
(* Proofs about the life of the process, for any number of processes one   *)
(* after the other, of requests in flight and of notifications that wait.  *)
(***************************************************************************)
EXTENDS ServeLifecycle, SequenceTheorems, TLAPS

\* Before serve comes to its listener, and wherever init is.
Early == pc \in {"load", "auth", "tsnet", "watch", "backend", "stats", "wire", "listen",
                 "waiting", "certs"}

Deferred(r) == \E n \in 1 .. Len(defers) : defers[n] = r

\* Each resource that is open is released by a deferred call, but for the node until
\* startTailscale has returned and the listener: Run or Serve close it, but for a plain
\* one that Serve never came to see.
Covered ==
  \A r \in opened :
    \/ Deferred(r)
    \/ r = "tsnet" /\ pc = "watch" /\ cmd = "serve"
    \/ r = "listener" /\ pc = "serving" /\ serving \in {"started", "accepting"}
    \/ r = "listener" /\ pc = "draining" /\ serving = "started"
    \/ r = "listener" /\ mode = "plain" /\ serving = "started"

Released ==
  /\ pc = "exited" => defers = <<>>
  /\ pc # "exited" => cmd \in {"serve", "init"}
  /\ pc \in {"load", "auth"} => opened = {}
  /\ cmd = "init" /\ pc = "tsnet" => Deferred("tsnet")

\* Which requests there may be at which point of main.
Draining ==
  /\ Early \/ cmd = "init" => serving = "off" /\ inFlight = 0
  /\ serving \in {"accepting", "failed"} => pc = "serving" \/ err = "error"
  /\ pc \in {"draining", "ran"} => serving \in {"started", "stopped"} /\ ctx # "live"
  /\ serving = "started" => pc = "serving" \/ ctx # "live"
  /\ pc \in {"backend", "stats", "wire", "listen", "serving", "draining", "ran"} => cmd = "serve"
  /\ pc = "ran" => inFlight = 0
  /\ pc \in {"waiting", "certs"} => cmd = "init"

\* The watcher and what it may still do to the context.
Caused ==
  /\ watcher = "waiting" => pc \notin {"load", "auth", "tsnet", "watch", "exited"}
  /\ ctx = "login" => /\ cmd = "serve" /\ pc \notin {"load", "auth"} /\ ~allow
                      /\ pc \in {"return", "exited"} => err \in {"ErrNeedsLogin", "error"}
  /\ cmd = "serve" /\ pc = "return" /\ ctx = "live" /\ watcher = "waiting" =>
       err \in {"ErrNeedsLogin", "error"}
  /\ cmd = "init" /\ pc \in {"load", "auth"} => ctx = "live"

\* The node, and the state file that it has written by the time it runs.
Stored ==
  /\ pc = "watch" => node # "off"
  /\ node = "running" => file
  /\ \A n \in 1 .. Len(bus) : bus[n] = "running" => file
  /\ pc = "certs" => file
  /\ cmd = "init" /\ pc = "return" /\ err = "ok" => file
  /\ registered => file

LifeInv == TypeOK /\ Covered /\ Released /\ Draining /\ RequestsSeenOut /\ Caused /\ Stored
           /\ InitEnough

Notice == {"starting", "running", "login", "approval", "error"}

-----------------------------------------------------------------------------
\* Nothing is open, running or promised before the first process.
LEMMA LifeInitInv == Init => LifeInv
<1> SUFFICES ASSUME Init PROVE LifeInv
  OBVIOUS
<1> USE DEF Init
<1>0. file \in BOOLEAN /\ allow \in BOOLEAN /\ registered \in BOOLEAN
  BY Zenon
<1>1. TypeOK
  <2>1. defers \in Seq(Resource) /\ opened \subseteq Resource /\ bus \in Seq(Notice)
    OBVIOUS
  <2>2. inFlight \in 0 .. MaxInFlight /\ runs \in 0 .. MaxRuns
    BY LifeAssumption
  <2> QED BY <1>0, <2>1, <2>2, Zenon DEF TypeOK, Notice
<1>2. Covered /\ Released /\ Draining /\ RequestsSeenOut /\ Caused
  BY DEF Covered, Released, Draining, RequestsSeenOut, Caused, Early, Deferred
<1>3. Stored /\ InitEnough
  BY DEF Stored, InitEnough
<1> QED BY <1>1, <1>2, <1>3 DEF LifeInv

\* Tail and Append on the bus and on the deferred calls.
LEMMA SequenceTypes ==
  ASSUME NEW S, NEW s \in Seq(S)
  PROVE  /\ \A x \in S : Append(s, x) \in Seq(S)
         /\ s # <<>> => Head(s) \in S /\ Tail(s) \in Seq(S)
         /\ s # <<>> => SubSeq(s, 1, Len(s) - 1) \in Seq(S) /\ s[Len(s)] \in S
<1>1. s # <<>> => SubSeq(s, 1, Len(s) - 1) \in Seq(S) /\ s[Len(s)] \in S
  <2> SUFFICES ASSUME s # <<>> PROVE SubSeq(s, 1, Len(s) - 1) \in Seq(S) /\ s[Len(s)] \in S
    OBVIOUS
  <2>1. Len(s) \in Nat /\ Len(s) > 0 /\ s \in [1 .. Len(s) -> S]
    BY EmptySeq, LenProperties
  <2>2. \A n \in 1 .. Len(s) - 1 : s[n] \in S
    BY <2>1
  <2>3. SubSeq(s, 1, Len(s) - 1) \in Seq(S)
    BY <2>1, <2>2
  <2> QED BY <2>1, <2>3
<1> QED BY <1>1, HeadTailProperties, AppendProperties

\* Types are kept by every step; a node that is watched is one that was started.
LEMMA TypeStep ==
  ASSUME TypeOK, Stored, Next
  PROVE  TypeOK'
<1> USE DEF main, tailscale
<1>0. defers \in Seq(Resource) /\ opened \subseteq Resource /\ bus \in Seq(Notice)
  BY Zenon DEF TypeOK, Notice
<1>1. CASE Load
  BY <1>1 DEF TypeOK, Load, Aside, ReturnError, Return, Goto
<1>2. CASE ServeAuth
  BY <1>2 DEF TypeOK, ServeAuth, ReturnError, Return, Goto
<1>3. CASE InitAuth
  <2>1. defers' \in Seq(Resource)
    <3>1. "tsnet" \in Resource
      BY DEF Resource
    <3>2. defers' = defers \/ defers' = Append(defers, "tsnet")
      BY <1>3 DEF InitAuth, ReturnError, Return, Push
    <3> QED BY <1>0, <3>1, <3>2, SequenceTypes
  <2>2. opened' \subseteq Resource
    BY <1>0, <1>3, SequenceTypes DEF TypeOK, Stored, Notice, Resource, InitAuth, ReturnError,
                                     Return, Push
  <2>3. bus' \in Seq(Notice)
    BY <1>0, <1>3 DEF InitAuth, ReturnError, Return, Push
  <2>4. file' \in BOOLEAN /\ allow' \in BOOLEAN /\ registered' \in BOOLEAN
    BY <1>3, Zenon DEF TypeOK, InitAuth, ReturnError, Return, Push
  <2>5. /\ cmd' \in {"none", "serve", "init"} /\ mode' \in {"plain", "tailscale"}
        /\ inFlight' \in 0 .. MaxInFlight /\ runs' \in 0 .. MaxRuns
    BY <1>3, LifeAssumption DEF TypeOK, InitAuth, ReturnError, Return, Push
  <2> QED BY <1>3, <1>0, <2>1, <2>2, <2>3, <2>4, <2>5, SequenceTypes DEF TypeOK, Notice,
                                                                         InitAuth, ReturnError,
                                                                         Return, Push
<1>4. CASE StartNode
  <2>1. defers' \in Seq(Resource)
    BY <1>0, <1>4 DEF StartNode, ReturnError, Return, Goto
  <2>2. opened' \subseteq Resource
    BY <1>0, <1>4, SequenceTypes DEF TypeOK, Stored, Notice, Resource, StartNode, ReturnError,
                                     Return, Goto
  <2>3. bus' \in Seq(Notice)
    BY <1>0, <1>4 DEF StartNode, ReturnError, Return, Goto
  <2>4. file' \in BOOLEAN /\ allow' \in BOOLEAN /\ registered' \in BOOLEAN
    BY <1>4, Zenon DEF TypeOK, StartNode, ReturnError, Return, Goto
  <2>5. /\ cmd' \in {"none", "serve", "init"} /\ mode' \in {"plain", "tailscale"}
        /\ inFlight' \in 0 .. MaxInFlight /\ runs' \in 0 .. MaxRuns
    BY <1>4, LifeAssumption DEF TypeOK, StartNode, ReturnError, Return, Goto
  <2> QED BY <1>4, <1>0, <2>1, <2>2, <2>3, <2>4, <2>5, SequenceTypes DEF TypeOK, Notice,
                                                                         StartNode, ReturnError,
                                                                         Return, Goto
<1>5. CASE WatchIPNBus
  <2>1. defers' \in Seq(Resource)
    BY <1>0, <1>5, SequenceTypes DEF TypeOK, Stored, Notice, Resource, WatchIPNBus, ReturnError,
                                     Return, Goto
  <2>2. opened' \subseteq Resource
    BY <1>0, <1>5, SequenceTypes DEF TypeOK, Stored, Notice, Resource, WatchIPNBus, ReturnError,
                                     Return, Goto
  <2>3. bus' \in Seq(Notice)
    <3>1. node \in Notice
      BY <1>5 DEF WatchIPNBus, TypeOK, Stored, Notice
    <3>2. <<node>> \in Seq(Notice)
      BY <3>1
    <3>3. bus' = <<node>> \/ bus' = bus
      BY <1>5 DEF WatchIPNBus
    <3> QED BY <1>0, <3>2, <3>3
  <2>4. file' \in BOOLEAN /\ allow' \in BOOLEAN /\ registered' \in BOOLEAN
    BY <1>5, Zenon DEF TypeOK, WatchIPNBus, ReturnError, Return, Goto
  <2>5. /\ cmd' \in {"none", "serve", "init"} /\ mode' \in {"plain", "tailscale"}
        /\ inFlight' \in 0 .. MaxInFlight /\ runs' \in 0 .. MaxRuns
    BY <1>5, LifeAssumption DEF TypeOK, WatchIPNBus, ReturnError, Return, Goto
  <2> QED BY <1>5, <1>0, <2>1, <2>2, <2>3, <2>4, <2>5, SequenceTypes DEF TypeOK, Notice,
                                                                         WatchIPNBus,
                                                                         ReturnError, Return, Goto
<1>6. CASE BuildBackend
  BY <1>6 DEF TypeOK, BuildBackend, Aside, ReturnError, Return, Goto
<1>7. CASE OpenStats
  <2>1. defers' \in Seq(Resource)
    BY <1>0, <1>7, SequenceTypes DEF TypeOK, Stored, Notice, Resource, OpenStats, Push
  <2>2. opened' \subseteq Resource
    BY <1>0, <1>7, SequenceTypes DEF TypeOK, Stored, Notice, Resource, OpenStats, Push
  <2>3. bus' \in Seq(Notice)
    BY <1>0, <1>7 DEF OpenStats, Push
  <2>4. file' \in BOOLEAN /\ allow' \in BOOLEAN /\ registered' \in BOOLEAN
    BY <1>7, Zenon DEF TypeOK, OpenStats, Push
  <2>5. /\ cmd' \in {"none", "serve", "init"} /\ mode' \in {"plain", "tailscale"}
        /\ inFlight' \in 0 .. MaxInFlight /\ runs' \in 0 .. MaxRuns
    BY <1>7, LifeAssumption DEF TypeOK, OpenStats, Push
  <2> QED BY <1>7, <1>0, <2>1, <2>2, <2>3, <2>4, <2>5, SequenceTypes DEF TypeOK, Notice,
                                                                         OpenStats, Push
<1>8. CASE Wire
  BY <1>8 DEF TypeOK, Wire, Aside, ReturnError, Return, Goto
<1>9. CASE NewListener
  <2>1. defers' \in Seq(Resource)
    BY <1>0, <1>9 DEF NewListener, ReturnError, Return, Goto
  <2>2. opened' \subseteq Resource
    BY <1>0, <1>9, SequenceTypes DEF TypeOK, Stored, Notice, Resource, NewListener, ReturnError,
                                     Return, Goto
  <2>3. bus' \in Seq(Notice)
    BY <1>0, <1>9 DEF NewListener, ReturnError, Return, Goto
  <2>4. file' \in BOOLEAN /\ allow' \in BOOLEAN /\ registered' \in BOOLEAN
    BY <1>9, Zenon DEF TypeOK, NewListener, ReturnError, Return, Goto
  <2>5. /\ cmd' \in {"none", "serve", "init"} /\ mode' \in {"plain", "tailscale"}
        /\ inFlight' \in 0 .. MaxInFlight /\ runs' \in 0 .. MaxRuns
    BY <1>9, LifeAssumption DEF TypeOK, NewListener, ReturnError, Return, Goto
  <2> QED BY <1>9, <1>0, <2>1, <2>2, <2>3, <2>4, <2>5, SequenceTypes DEF TypeOK, Notice,
                                                                         NewListener,
                                                                         ReturnError, Return, Goto
<1>10. CASE Shutdown
  BY <1>10 DEF TypeOK, Shutdown, Goto
<1>11. CASE ServeFailed
  BY <1>11 DEF TypeOK, ServeFailed, Cleanup, ReturnError, Return
<1>12. CASE Drained
  BY <1>12 DEF TypeOK, Drained, Cleanup, Goto
<1>13. CASE DrainTimeout
  BY <1>13 DEF TypeOK, DrainTimeout, Cleanup, ReturnError, Return
<1>14. CASE AfterRun
  BY <1>14 DEF TypeOK, AfterRun, Aside, Return
<1>15. CASE InitWait
  <2>1. defers' \in Seq(Resource)
    BY <1>0, <1>15 DEF InitWait, Round, Outcome, ReturnError, Return, Goto
  <2>2. opened' \subseteq Resource
    BY <1>0, <1>15 DEF InitWait, Round, Outcome, ReturnError, Return, Goto
  <2>3. bus' \in Seq(Notice)
    BY <1>0, <1>15, SequenceTypes, EmptySeq DEF InitWait, Round
  <2>4. file' \in BOOLEAN /\ allow' \in BOOLEAN /\ registered' \in BOOLEAN
    BY <1>15, Zenon DEF TypeOK, InitWait, Round, Outcome, ReturnError, Return, Goto
  <2>5. /\ cmd' \in {"none", "serve", "init"} /\ mode' \in {"plain", "tailscale"}
        /\ inFlight' \in 0 .. MaxInFlight /\ runs' \in 0 .. MaxRuns
    BY <1>15, LifeAssumption DEF TypeOK, InitWait, Round, Outcome, ReturnError, Return, Goto
  <2> QED BY <1>15, <1>0, <2>1, <2>2, <2>3, <2>4, <2>5, SequenceTypes DEF TypeOK, Notice,
                                                                          InitWait, Round,
                                                                          Outcome, ReturnError,
                                                                          Return, Goto
<1>16. CASE FetchCert
  BY <1>16 DEF TypeOK, FetchCert, Aside, ReturnError, Return
<1>17. CASE Unwind
  <2>1. defers' \in Seq(Resource)
    BY <1>0, <1>17, SequenceTypes DEF TypeOK, Stored, Notice, Resource, Unwind
  <2>2. opened' \subseteq Resource
    BY <1>0, <1>17, SequenceTypes DEF TypeOK, Stored, Notice, Resource, Unwind
  <2>3. bus' \in Seq(Notice)
    BY <1>0, <1>17 DEF Unwind
  <2>4. file' \in BOOLEAN /\ allow' \in BOOLEAN /\ registered' \in BOOLEAN
    BY <1>17, Zenon DEF TypeOK, Unwind
  <2>5. /\ cmd' \in {"none", "serve", "init"} /\ mode' \in {"plain", "tailscale"}
        /\ inFlight' \in 0 .. MaxInFlight /\ runs' \in 0 .. MaxRuns
    BY <1>17, LifeAssumption DEF TypeOK, Unwind
  <2> QED BY <1>17, <1>0, <2>1, <2>2, <2>3, <2>4, <2>5, SequenceTypes DEF TypeOK, Notice, Unwind
<1>18. CASE Exit
  BY <1>18 DEF TypeOK, Exit
<1>19. CASE Watch
  BY <1>19, SequenceTypes DEF TypeOK, Watch, Round, Outcome, Cancel
<1>20. CASE WatchEnds
  BY <1>20 DEF TypeOK, WatchEnds
<1>21. CASE InitBusBreaks
  BY <1>21 DEF TypeOK, InitBusBreaks, ReturnError, Return
<1>22. CASE InitTimeout
  BY <1>22 DEF TypeOK, InitTimeout
<1>23. CASE Start
  <2>1. defers' \in Seq(Resource)
    BY <1>0, <1>23 DEF Start
  <2>2. opened' \subseteq Resource
    BY <1>0, <1>23 DEF Start
  <2>3. bus' \in Seq(Notice)
    BY <1>0, <1>23 DEF Start
  <2>4. file' \in BOOLEAN /\ allow' \in BOOLEAN /\ registered' \in BOOLEAN
    BY <1>23, Zenon DEF TypeOK, Start
  <2>5. /\ cmd' \in {"none", "serve", "init"} /\ mode' \in {"plain", "tailscale"}
        /\ inFlight' \in 0 .. MaxInFlight /\ runs' \in 0 .. MaxRuns
    BY <1>23, LifeAssumption DEF TypeOK, Start
  <2> QED BY <1>23, <1>0, <2>1, <2>2, <2>3, <2>4, <2>5, SequenceTypes DEF TypeOK, Notice, Start
<1>24. CASE Signal
  BY <1>24 DEF TypeOK, Signal, Cancel
<1>25. CASE Killed
  BY <1>25 DEF TypeOK, Killed
<1>26. CASE RequestArrives
  BY <1>26, LifeAssumption DEF TypeOK, RequestArrives, Requests
<1>27. CASE RequestEnds
  BY <1>27, LifeAssumption DEF TypeOK, RequestEnds, Requests
<1>28. CASE AcceptFails
  BY <1>28 DEF TypeOK, AcceptFails
<1>29. CASE NodeChanges
  <2>1. defers' \in Seq(Resource)
    BY <1>0, <1>29 DEF NodeChanges, NodeSteps
  <2>2. opened' \subseteq Resource
    BY <1>0, <1>29 DEF NodeChanges, NodeSteps
  <2>3. bus' \in Seq(Notice)
    BY <1>0, <1>29, SequenceTypes DEF TypeOK, Stored, Notice, Resource, NodeChanges, NodeSteps
  <2>4. file' \in BOOLEAN /\ allow' \in BOOLEAN /\ registered' \in BOOLEAN
    BY <1>29, Zenon DEF TypeOK, NodeChanges, NodeSteps
  <2>5. /\ cmd' \in {"none", "serve", "init"} /\ mode' \in {"plain", "tailscale"}
        /\ inFlight' \in 0 .. MaxInFlight /\ runs' \in 0 .. MaxRuns
    BY <1>29, LifeAssumption DEF TypeOK, NodeChanges, NodeSteps
  <2> QED BY <1>29, <1>0, <2>1, <2>2, <2>3, <2>4, <2>5, SequenceTypes DEF TypeOK, Notice,
                                                                          NodeChanges, NodeSteps
<1>30. CASE Finished
  BY <1>30 DEF TypeOK, Finished, vars
<1>31. CASE ServeStarts
  BY <1>31 DEF TypeOK, ServeStarts
<1> QED
  BY <1>1, <1>2, <1>3, <1>4, <1>5, <1>6, <1>7, <1>8, <1>9, <1>10, <1>11, <1>12, <1>13, <1>14,
     <1>15, <1>16, <1>17, <1>18, <1>19, <1>20, <1>21, <1>22, <1>23, <1>24, <1>25, <1>26, <1>27,
     <1>28, <1>29, <1>30, <1>31 DEF Next, Main, MayHang

\* The deferred calls cover what they covered before, and what was pushed last.
LEMMA DeferredAppend ==
  ASSUME defers \in Seq(Resource), NEW r \in Resource, defers' = Append(defers, r)
  PROVE  \A x : Deferred(x) \/ x = r => Deferred(x)'
<1>1. /\ Len(defers) \in Nat /\ Len(defers') = Len(defers) + 1 /\ defers'[Len(defers) + 1] = r
      /\ \A n \in 1 .. Len(defers) : defers'[n] = defers[n]
  BY AppendProperties, LenProperties
<1> QED BY <1>1 DEF Deferred

\* What remains of a sequence that is cut short.
LEMMA ButLast ==
  ASSUME NEW S, NEW s \in Seq(S), NEW m \in Nat, m <= Len(s)
  PROVE  Len(SubSeq(s, 1, m)) = m /\ \A n \in 1 .. m : SubSeq(s, 1, m)[n] = s[n]
<1>1. \A n \in 1 .. m : s[n] \in S
  BY LenProperties
<1>2. Len(SubSeq(s, 1, m)) = IF 1 <= m THEN m - 1 + 1 ELSE 0
  BY <1>1, SubSeqProperties
<1>3. \A n \in 1 .. m - 1 + 1 : SubSeq(s, 1, m)[n] = s[1 + n - 1]
  BY <1>1, SubSeqProperties
<1> QED BY <1>2, <1>3

\* One deferred call has been made: all but what it released are covered as before.
LEMMA DeferredUnwind ==
  ASSUME defers \in Seq(Resource), defers # <<>>, defers' = SubSeq(defers, 1, Len(defers) - 1)
  PROVE  \A x : Deferred(x) => Deferred(x)' \/ x = defers[Len(defers)]
<1>1. Len(defers) \in Nat /\ Len(defers) > 0 /\ Len(defers) - 1 \in Nat
      /\ Len(defers) - 1 <= Len(defers)
  BY EmptySeq, LenProperties
<1>2. Len(defers') = Len(defers) - 1 /\ \A n \in 1 .. Len(defers) - 1 : defers'[n] = defers[n]
  BY <1>1, ButLast
<1> QED BY <1>1, <1>2 DEF Deferred

\* Every way out of a command leads through the calls that release what is open.
LEMMA CoveredStep ==
  ASSUME TypeOK, Covered, Released, Next
  PROVE  Covered' /\ Released'
<1> USE DEF main, tailscale
<1>1. CASE Load
  BY <1>1 DEF TypeOK, Covered, Released, Deferred, Load, Aside, ReturnError, Return, Goto
<1>2. CASE ServeAuth
  BY <1>2 DEF TypeOK, Covered, Released, Deferred, ServeAuth, ReturnError, Return, Goto
<1>3. CASE InitAuth
  BY <1>3, DeferredAppend DEF TypeOK, Covered, Released, Deferred, InitAuth, ReturnError, Return,
                              Push
<1>4. CASE StartNode
  BY <1>4 DEF TypeOK, Covered, Released, Deferred, StartNode, ReturnError, Return, Goto
<1>5. CASE WatchIPNBus
  <2>1. CASE ctx = "live" /\ cmd = "serve" /\ pc' = "backend" /\ UNCHANGED opened
             /\ defers' = Append(defers, "tsnet")
    <3>1. \A x : Deferred(x) \/ x = "tsnet" => Deferred(x)'
      BY <2>1, DeferredAppend DEF TypeOK, Resource
    <3> QED BY <1>5, <2>1, <3>1 DEF Covered, Released, WatchIPNBus
  <2>2. CASE UNCHANGED <<opened, defers>> /\ cmd = "init" /\ pc' \in {"waiting", "return"}
    BY <1>5, <2>2 DEF Covered, Released, Deferred, WatchIPNBus
  <2>3. CASE cmd = "serve" /\ opened' = opened \ {"tsnet"} /\ ReturnError
    BY <1>5, <2>3 DEF Covered, Released, Deferred, WatchIPNBus, ReturnError, Return
  <2> QED BY <1>5, <2>1, <2>2, <2>3 DEF Released, WatchIPNBus, ReturnError, Return, Goto
<1>6. CASE BuildBackend
  BY <1>6 DEF TypeOK, Covered, Released, Deferred, BuildBackend, Aside, ReturnError, Return, Goto
<1>7. CASE OpenStats
  BY <1>7, DeferredAppend DEF TypeOK, Covered, Released, Deferred, OpenStats, Push
<1>8. CASE Wire
  BY <1>8 DEF TypeOK, Covered, Released, Deferred, Wire, Aside, ReturnError, Return, Goto
<1>9. CASE NewListener
  BY <1>9 DEF TypeOK, Covered, Released, Deferred, NewListener, ReturnError, Return, Goto
<1>10. CASE Shutdown
  BY <1>10 DEF TypeOK, Covered, Released, Deferred, Shutdown, Goto
<1>11. CASE ServeFailed
  BY <1>11 DEF TypeOK, Covered, Released, Deferred, ServeFailed, Cleanup, ReturnError, Return
<1>12. CASE Drained
  BY <1>12 DEF TypeOK, Covered, Released, Deferred, Drained, Cleanup, Goto
<1>13. CASE DrainTimeout
  BY <1>13 DEF TypeOK, Covered, Released, Deferred, DrainTimeout, Cleanup, ReturnError, Return
<1>14. CASE AfterRun
  BY <1>14 DEF TypeOK, Covered, Released, Deferred, AfterRun, Aside, Return
<1>15. CASE InitWait
  BY <1>15 DEF TypeOK, Covered, Released, Deferred, InitWait, Round, Outcome, ReturnError,
               Return, Goto
<1>16. CASE FetchCert
  BY <1>16 DEF TypeOK, Covered, Released, Deferred, FetchCert, Aside, ReturnError, Return
<1>17. CASE Unwind
  BY <1>17, DeferredUnwind DEF TypeOK, Covered, Released, Deferred, Unwind
<1>18. CASE Exit
  BY <1>18 DEF TypeOK, Covered, Released, Deferred, Exit
<1>19. CASE Watch
  BY <1>19 DEF TypeOK, Covered, Released, Deferred, Watch, Round, Outcome, Cancel
<1>20. CASE WatchEnds
  BY <1>20 DEF TypeOK, Covered, Released, Deferred, WatchEnds
<1>21. CASE InitBusBreaks
  BY <1>21 DEF TypeOK, Covered, Released, Deferred, InitBusBreaks, ReturnError, Return
<1>22. CASE InitTimeout
  BY <1>22 DEF TypeOK, Covered, Released, Deferred, InitTimeout
<1>23. CASE Start
  BY <1>23 DEF TypeOK, Covered, Released, Deferred, Start
<1>24. CASE Signal
  BY <1>24 DEF TypeOK, Covered, Released, Deferred, Signal, Cancel
<1>25. CASE Killed
  BY <1>25 DEF TypeOK, Covered, Released, Deferred, Killed
<1>26. CASE RequestArrives
  BY <1>26 DEF TypeOK, Covered, Released, Deferred, RequestArrives, Requests
<1>27. CASE RequestEnds
  BY <1>27 DEF TypeOK, Covered, Released, Deferred, RequestEnds, Requests
<1>28. CASE AcceptFails
  BY <1>28 DEF TypeOK, Covered, Released, Deferred, AcceptFails
<1>29. CASE NodeChanges
  BY <1>29 DEF TypeOK, Covered, Released, Deferred, NodeChanges, NodeSteps
<1>30. CASE Finished
  BY <1>30 DEF TypeOK, Covered, Released, Deferred, Finished, vars
<1>31. CASE ServeStarts
  BY <1>31 DEF TypeOK, Covered, Released, Deferred, ServeStarts
<1> QED
  BY <1>1, <1>2, <1>3, <1>4, <1>5, <1>6, <1>7, <1>8, <1>9, <1>10, <1>11, <1>12, <1>13, <1>14,
     <1>15, <1>16, <1>17, <1>18, <1>19, <1>20, <1>21, <1>22, <1>23, <1>24, <1>25, <1>26, <1>27,
     <1>28, <1>29, <1>30, <1>31 DEF Next, Main, MayHang

\* Requests are in flight only while Run looks after them or an error is reported.
LEMMA DrainingStep ==
  ASSUME TypeOK, Released, Draining, RequestsSeenOut, Next
  PROVE  Draining' /\ RequestsSeenOut'
<1> USE DEF main, tailscale
<1>1. CASE Load
  BY <1>1 DEF TypeOK, Early, Released, Draining, RequestsSeenOut, Load, Aside, ReturnError,
              Return, Goto
<1>2. CASE ServeAuth
  BY <1>2 DEF TypeOK, Early, Released, Draining, RequestsSeenOut, ServeAuth, ReturnError, Return,
              Goto
<1>3. CASE InitAuth
  BY <1>3 DEF TypeOK, Early, Released, Draining, RequestsSeenOut, InitAuth, ReturnError, Return,
              Push
<1>4. CASE StartNode
  BY <1>4 DEF TypeOK, Early, Released, Draining, RequestsSeenOut, StartNode, ReturnError, Return,
              Goto
<1>5. CASE WatchIPNBus
  BY <1>5 DEF TypeOK, Early, Released, Draining, RequestsSeenOut, WatchIPNBus, ReturnError,
              Return, Goto
<1>6. CASE BuildBackend
  BY <1>6 DEF TypeOK, Early, Released, Draining, RequestsSeenOut, BuildBackend, Aside,
              ReturnError, Return, Goto
<1>7. CASE OpenStats
  BY <1>7 DEF TypeOK, Early, Released, Draining, RequestsSeenOut, OpenStats, Push
<1>8. CASE Wire
  BY <1>8 DEF TypeOK, Early, Released, Draining, RequestsSeenOut, Wire, Aside, ReturnError,
              Return, Goto
<1>9. CASE NewListener
  BY <1>9 DEF TypeOK, Early, Released, Draining, RequestsSeenOut, NewListener, ReturnError,
              Return, Goto
<1>10. CASE Shutdown
  BY <1>10 DEF TypeOK, Early, Released, Draining, RequestsSeenOut, Shutdown, Goto
<1>11. CASE ServeFailed
  BY <1>11 DEF TypeOK, Early, Released, Draining, RequestsSeenOut, ServeFailed, Cleanup,
               ReturnError, Return
<1>12. CASE Drained
  BY <1>12 DEF TypeOK, Early, Released, Draining, RequestsSeenOut, Drained, Cleanup, Goto
<1>13. CASE DrainTimeout
  BY <1>13 DEF TypeOK, Early, Released, Draining, RequestsSeenOut, DrainTimeout, Cleanup,
               ReturnError, Return
<1>14. CASE AfterRun
  BY <1>14 DEF TypeOK, Early, Released, Draining, RequestsSeenOut, AfterRun, Aside, Return
<1>15. CASE InitWait
  <2>1. Outcome(Head(bus)) \in {"failed", "login", "running", "waiting"}
    BY DEF Outcome
  <2>2. pc' \in {"waiting", "certs", "return"}
    BY <1>15, <2>1 DEF InitWait, Round, ReturnError, Return, Goto
  <2> QED BY <1>15, <2>2 DEF Early, Draining, RequestsSeenOut, InitWait
<1>16. CASE FetchCert
  BY <1>16 DEF TypeOK, Early, Released, Draining, RequestsSeenOut, FetchCert, Aside, ReturnError,
               Return
<1>17. CASE Unwind
  BY <1>17 DEF TypeOK, Early, Released, Draining, RequestsSeenOut, Unwind
<1>18. CASE Exit
  BY <1>18 DEF TypeOK, Early, Released, Draining, RequestsSeenOut, Exit
<1>19. CASE Watch
  BY <1>19 DEF TypeOK, Early, Released, Draining, RequestsSeenOut, Watch, Round, Outcome, Cancel
<1>20. CASE WatchEnds
  BY <1>20 DEF TypeOK, Early, Released, Draining, RequestsSeenOut, WatchEnds
<1>21. CASE InitBusBreaks
  BY <1>21 DEF TypeOK, Early, Released, Draining, RequestsSeenOut, InitBusBreaks, ReturnError,
               Return
<1>22. CASE InitTimeout
  BY <1>22 DEF TypeOK, Early, Released, Draining, RequestsSeenOut, InitTimeout
<1>23. CASE Start
  BY <1>23 DEF TypeOK, Early, Released, Draining, RequestsSeenOut, Start
<1>24. CASE Signal
  BY <1>24 DEF TypeOK, Early, Released, Draining, RequestsSeenOut, Signal, Cancel
<1>25. CASE Killed
  BY <1>25 DEF TypeOK, Early, Released, Draining, RequestsSeenOut, Killed
<1>26. CASE RequestArrives
  BY <1>26 DEF TypeOK, Early, Released, Draining, RequestsSeenOut, RequestArrives, Requests
<1>27. CASE RequestEnds
  BY <1>27 DEF TypeOK, Early, Released, Draining, RequestsSeenOut, RequestEnds, Requests
<1>28. CASE AcceptFails
  BY <1>28 DEF TypeOK, Early, Released, Draining, RequestsSeenOut, AcceptFails
<1>29. CASE NodeChanges
  BY <1>29 DEF TypeOK, Early, Released, Draining, RequestsSeenOut, NodeChanges, NodeSteps
<1>30. CASE Finished
  BY <1>30 DEF TypeOK, Early, Released, Draining, RequestsSeenOut, Finished, vars
<1>31. CASE ServeStarts
  BY <1>31 DEF TypeOK, Early, Released, Draining, RequestsSeenOut, ServeStarts
<1> QED
  BY <1>1, <1>2, <1>3, <1>4, <1>5, <1>6, <1>7, <1>8, <1>9, <1>10, <1>11, <1>12, <1>13, <1>14,
     <1>15, <1>16, <1>17, <1>18, <1>19, <1>20, <1>21, <1>22, <1>23, <1>24, <1>25, <1>26, <1>27,
     <1>28, <1>29, <1>30, <1>31 DEF Next, Main, MayHang

\* A login request that ends the context is one that nobody allowed for, and reaches the
\* exit status unless an error does.
LEMMA CausedStep ==
  ASSUME TypeOK, Caused, Draining, Next
  PROVE  Caused'
<1> USE DEF main, tailscale
<1>1. CASE Load
  BY <1>1 DEF TypeOK, Caused, Draining, Load, Aside, ReturnError, Return, Goto
<1>2. CASE ServeAuth
  BY <1>2 DEF TypeOK, Caused, Draining, ServeAuth, ReturnError, Return, Goto
<1>3. CASE InitAuth
  BY <1>3 DEF TypeOK, Caused, Draining, InitAuth, ReturnError, Return, Push
<1>4. CASE StartNode
  BY <1>4 DEF TypeOK, Caused, Draining, StartNode, ReturnError, Return, Goto
<1>5. CASE WatchIPNBus
  BY <1>5 DEF TypeOK, Caused, Draining, WatchIPNBus, ReturnError, Return, Goto
<1>6. CASE BuildBackend
  BY <1>6 DEF TypeOK, Caused, Draining, BuildBackend, Aside, ReturnError, Return, Goto
<1>7. CASE OpenStats
  BY <1>7 DEF TypeOK, Caused, Draining, OpenStats, Push
<1>8. CASE Wire
  BY <1>8 DEF TypeOK, Caused, Draining, Wire, Aside, ReturnError, Return, Goto
<1>9. CASE NewListener
  BY <1>9 DEF TypeOK, Caused, Draining, NewListener, ReturnError, Return, Goto
<1>10. CASE Shutdown
  BY <1>10 DEF TypeOK, Caused, Draining, Shutdown, Goto
<1>11. CASE ServeFailed
  BY <1>11 DEF TypeOK, Caused, Draining, ServeFailed, Cleanup, ReturnError, Return
<1>12. CASE Drained
  BY <1>12 DEF TypeOK, Caused, Draining, Drained, Cleanup, Goto
<1>13. CASE DrainTimeout
  BY <1>13 DEF TypeOK, Caused, Draining, DrainTimeout, Cleanup, ReturnError, Return
<1>14. CASE AfterRun
  BY <1>14 DEF TypeOK, Caused, Draining, AfterRun, Aside, Return
<1>15. CASE InitWait
  BY <1>15 DEF TypeOK, Caused, Draining, InitWait, Round, Outcome, ReturnError, Return, Goto
<1>16. CASE FetchCert
  BY <1>16 DEF TypeOK, Caused, Draining, FetchCert, Aside, ReturnError, Return
<1>17. CASE Unwind
  BY <1>17 DEF TypeOK, Caused, Draining, Unwind
<1>18. CASE Exit
  BY <1>18 DEF TypeOK, Caused, Draining, Exit
<1>19. CASE Watch
  BY <1>19 DEF TypeOK, Caused, Draining, Watch, Round, Outcome, Cancel
<1>20. CASE WatchEnds
  BY <1>20 DEF TypeOK, Caused, Draining, WatchEnds
<1>21. CASE InitBusBreaks
  BY <1>21 DEF TypeOK, Caused, Draining, InitBusBreaks, ReturnError, Return
<1>22. CASE InitTimeout
  BY <1>22 DEF TypeOK, Caused, Draining, InitTimeout
<1>23. CASE Start
  BY <1>23 DEF TypeOK, Caused, Draining, Start
<1>24. CASE Signal
  BY <1>24 DEF TypeOK, Caused, Draining, Signal, Cancel
<1>25. CASE Killed
  BY <1>25 DEF TypeOK, Caused, Draining, Killed
<1>26. CASE RequestArrives
  BY <1>26 DEF TypeOK, Caused, Draining, RequestArrives, Requests
<1>27. CASE RequestEnds
  BY <1>27 DEF TypeOK, Caused, Draining, RequestEnds, Requests
<1>28. CASE AcceptFails
  BY <1>28 DEF TypeOK, Caused, Draining, AcceptFails
<1>29. CASE NodeChanges
  BY <1>29 DEF TypeOK, Caused, Draining, NodeChanges, NodeSteps
<1>30. CASE Finished
  BY <1>30 DEF TypeOK, Caused, Draining, Finished, vars
<1>31. CASE ServeStarts
  BY <1>31 DEF TypeOK, Caused, Draining, ServeStarts
<1> QED
  BY <1>1, <1>2, <1>3, <1>4, <1>5, <1>6, <1>7, <1>8, <1>9, <1>10, <1>11, <1>12, <1>13, <1>14,
     <1>15, <1>16, <1>17, <1>18, <1>19, <1>20, <1>21, <1>22, <1>23, <1>24, <1>25, <1>26, <1>27,
     <1>28, <1>29, <1>30, <1>31 DEF Next, Main, MayHang

\* A round of WaitRunning takes notifications away and adds none.
LEMMA RoundTakes ==
  ASSUME TypeOK, Round
  PROVE  /\ \A n \in 1 .. Len(bus') : \E m \in 1 .. Len(bus) : bus'[n] = bus[m]
         /\ \E m \in 1 .. Len(bus) : Head(bus) = bus[m]
<1>1. bus \in Seq(Notice) /\ bus # <<>> /\ bus' \in {Tail(bus), <<>>}
  BY DEF TypeOK, Round, Notice
<1>2. Len(bus) \in Nat /\ Len(bus) > 0 /\ Head(bus) = bus[1]
  BY <1>1, EmptySeq, LenProperties
<1>3. Len(Tail(bus)) = Len(bus) - 1 /\ \A n \in 1 .. Len(Tail(bus)) : Tail(bus)[n] = bus[n + 1]
  BY <1>1, HeadTailProperties
<1> QED BY <1>1, <1>2, <1>3

\* Once the node has run there is a state file, which no process takes away.
LEMMA StoredStep ==
  ASSUME TypeOK, Released, Draining, Stored, InitEnough, Next
  PROVE  Stored' /\ InitEnough'
<1> USE DEF main, tailscale
<1>1. CASE Load
  BY <1>1 DEF TypeOK, Draining, Stored, InitEnough, Load, Aside, ReturnError, Return, Goto
<1>2. CASE ServeAuth
  <2>1. UNCHANGED <<cmd, bus, node, file, registered>> /\ pc' \in {"tsnet", "return"} /\ cmd = "serve"
    BY <1>2 DEF ServeAuth, ReturnError, Return, Goto
  <2>2. file => err' \in {err, "error"}
    BY <1>2 DEF ServeAuth, CheckServeStartup, ReturnError, Return, Goto
  <2> QED BY <2>1, <2>2 DEF Stored, InitEnough
<1>3. CASE InitAuth
  BY <1>3 DEF TypeOK, Draining, Stored, InitEnough, InitAuth, ReturnError, Return, Push
<1>4. CASE StartNode
  BY <1>4 DEF TypeOK, Draining, Stored, InitEnough, StartNode, ReturnError, Return, Goto
<1>5. CASE WatchIPNBus
  BY <1>5 DEF TypeOK, Draining, Stored, InitEnough, WatchIPNBus, ReturnError, Return, Goto
<1>6. CASE BuildBackend
  BY <1>6 DEF TypeOK, Draining, Stored, InitEnough, BuildBackend, Aside, ReturnError, Return, Goto
<1>7. CASE OpenStats
  BY <1>7 DEF TypeOK, Draining, Stored, InitEnough, OpenStats, Push
<1>8. CASE Wire
  BY <1>8 DEF TypeOK, Draining, Stored, InitEnough, Wire, Aside, ReturnError, Return, Goto
<1>9. CASE NewListener
  BY <1>9 DEF TypeOK, Draining, Stored, InitEnough, NewListener, ReturnError, Return, Goto
<1>10. CASE Shutdown
  BY <1>10 DEF TypeOK, Draining, Stored, InitEnough, Shutdown, Goto
<1>11. CASE ServeFailed
  BY <1>11 DEF TypeOK, Draining, Stored, InitEnough, ServeFailed, Cleanup, ReturnError, Return
<1>12. CASE Drained
  BY <1>12 DEF TypeOK, Draining, Stored, InitEnough, Drained, Cleanup, Goto
<1>13. CASE DrainTimeout
  BY <1>13 DEF TypeOK, Draining, Stored, InitEnough, DrainTimeout, Cleanup, ReturnError, Return
<1>14. CASE AfterRun
  BY <1>14 DEF TypeOK, Draining, Stored, InitEnough, AfterRun, Aside, Return
<1>15. CASE InitWait
  <2>1. /\ UNCHANGED <<cmd, node, file, registered>>
        /\ pc' \in {"waiting", "certs", "return"} /\ err' \in {err, "error", "ErrNeedsLogin"}
        /\ pc' = "return" => err' # "ok"
    <3>1. Outcome(Head(bus)) \in {"failed", "login", "running", "waiting"}
      BY DEF Outcome
    <3> QED BY <1>15, <3>1 DEF InitWait, Round, ReturnError, Return, Goto
  <2>2. pc' = "certs" => Round /\ Head(bus) = "running"
    BY <1>15 DEF InitWait, Round, Outcome, ReturnError, Return, Goto
  <2>3. Round \/ bus' = <<>>
    BY <1>15 DEF InitWait
  <2>4. \A n \in 1 .. Len(bus') : bus'[n] = "running" => file
    BY <2>3, RoundTakes DEF Stored
  <2>5. pc' = "certs" => file
    BY <2>2, RoundTakes DEF Stored
  <2> QED BY <2>1, <2>4, <2>5 DEF Stored, InitEnough
<1>16. CASE FetchCert
  BY <1>16 DEF TypeOK, Draining, Stored, InitEnough, FetchCert, Aside, ReturnError, Return
<1>17. CASE Unwind
  BY <1>17 DEF TypeOK, Draining, Stored, InitEnough, Unwind
<1>18. CASE Exit
  BY <1>18 DEF TypeOK, Draining, Stored, InitEnough, Exit
<1>19. CASE Watch
  <2>1. \A n \in 1 .. Len(bus') : bus'[n] = "running" => file
    BY <1>19, RoundTakes DEF Watch, Stored
  <2> QED BY <1>19, <2>1 DEF Watch, Stored, InitEnough
<1>20. CASE WatchEnds
  BY <1>20 DEF TypeOK, Draining, Stored, InitEnough, WatchEnds
<1>21. CASE InitBusBreaks
  BY <1>21 DEF TypeOK, Draining, Stored, InitEnough, InitBusBreaks, ReturnError, Return
<1>22. CASE InitTimeout
  BY <1>22 DEF TypeOK, Draining, Stored, InitEnough, InitTimeout
<1>23. CASE Start
  BY <1>23 DEF TypeOK, Draining, Stored, InitEnough, Start
<1>24. CASE Signal
  BY <1>24 DEF TypeOK, Draining, Stored, InitEnough, Signal, Cancel
<1>25. CASE Killed
  BY <1>25 DEF TypeOK, Draining, Stored, InitEnough, Killed
<1>26. CASE RequestArrives
  BY <1>26 DEF TypeOK, Draining, Stored, InitEnough, RequestArrives, Requests
<1>27. CASE RequestEnds
  BY <1>27 DEF TypeOK, Draining, Stored, InitEnough, RequestEnds, Requests
<1>28. CASE AcceptFails
  BY <1>28 DEF TypeOK, Draining, Stored, InitEnough, AcceptFails
<1>29. CASE NodeChanges
  <2>1. PICK to \in Notice : /\ node' = to /\ bus' \in {bus, Append(bus, to)}
                              /\ (file => file') /\ (to = "running" => file')
    BY <1>29 DEF NodeChanges, NodeSteps, Notice
  <2>2. bus \in Seq(Notice)
    BY DEF TypeOK, Notice
  <2>3. \A n \in 1 .. Len(bus') : bus'[n] = "running" => file'
    BY <2>1, <2>2, AppendProperties, LenProperties DEF Stored
  <2>4. node' # "off" /\ (node' = "running" => file')
    BY <2>1 DEF Notice
  <2> QED BY <1>29, <2>1, <2>3, <2>4 DEF NodeChanges, Stored, InitEnough
<1>30. CASE Finished
  BY <1>30 DEF TypeOK, Draining, Stored, InitEnough, Finished, vars
<1>31. CASE ServeStarts
  BY <1>31 DEF TypeOK, Draining, Stored, InitEnough, ServeStarts
<1> QED
  BY <1>1, <1>2, <1>3, <1>4, <1>5, <1>6, <1>7, <1>8, <1>9, <1>10, <1>11, <1>12, <1>13, <1>14,
     <1>15, <1>16, <1>17, <1>18, <1>19, <1>20, <1>21, <1>22, <1>23, <1>24, <1>25, <1>26, <1>27,
     <1>28, <1>29, <1>30, <1>31 DEF Next, Main, MayHang

-----------------------------------------------------------------------------
\* The invariant is inductive.
LEMMA LifeStep == LifeInv /\ [Next]_vars => LifeInv'
<1> SUFFICES ASSUME LifeInv, [Next]_vars PROVE LifeInv'
  OBVIOUS
<1>1. CASE Next
  BY <1>1, TypeStep, CoveredStep, DrainingStep, CausedStep, StoredStep DEF LifeInv
<1>2. CASE UNCHANGED vars
  <2>1. TypeOK'
    BY <1>2 DEF LifeInv, TypeOK, vars, main, tailscale
  <2>2. Covered' /\ Released'
    BY <1>2 DEF LifeInv, Covered, Released, Deferred, vars, main, tailscale
  <2>3. Draining' /\ RequestsSeenOut' /\ Caused'
    BY <1>2 DEF LifeInv, Draining, Early, RequestsSeenOut, Caused, vars, main, tailscale
  <2>4. Stored' /\ InitEnough'
    BY <1>2 DEF LifeInv, Stored, InitEnough, vars, main, tailscale
  <2> QED BY <2>1, <2>2, <2>3, <2>4 DEF LifeInv
<1> QED BY <1>1, <1>2

\* It holds at every moment of any run of processes.
LEMMA LifeInvariant == Spec => []LifeInv
<1> QED BY LifeInitInv, LifeStep, PTL DEF Spec

\* Type correctness of the process's life.
THEOREM LifeTyped == Spec => []TypeOK
<1>1. LifeInv => TypeOK
  BY DEF LifeInv
<1> QED BY <1>1, LifeInvariant, PTL

\* Wherever a command fails or ends, it has closed what it had opened: all but a plain
\* listener of which http.Serve had not begun to know when the context ended.
THEOREM LifeReleased == Spec => []ReleasedAtExit
<1>1. LifeInv => ReleasedAtExit
  <2> SUFFICES ASSUME LifeInv, pc = "exited" PROVE ReleasedAtExit
    BY DEF ReleasedAtExit
  <2>1. \A r : ~Deferred(r)
    BY DEF LifeInv, Released, Deferred
  <2>2. \A r \in opened : r = "listener" /\ mode = "plain" /\ serving = "started"
    BY <2>1 DEF LifeInv, Covered
  <2>3. serving = "started" => ctx # "live"
    BY DEF LifeInv, Draining
  <2> QED BY <2>2, <2>3 DEF ReleasedAtExit
<1> QED BY <1>1, LifeInvariant, PTL

\* Requests outlive Run only where serve reports an error.
THEOREM LifeRequestsSeenOut == Spec => []RequestsSeenOut
<1>1. LifeInv => RequestsSeenOut
  BY DEF LifeInv
<1> QED BY <1>1, LifeInvariant, PTL

\* A serve that a login request has aborted never ends as if it had been told to stop.
THEOREM LifeLoginReported == Spec => []LoginReported
<1>1. LifeInv => LoginReported
  BY DEF LifeInv, Caused, LoginReported
<1> QED BY <1>1, LifeInvariant, PTL

\* A registration lasts: no later serve is refused for want of node state.
THEOREM LifeInitEnough == Spec => []InitEnough
<1>1. LifeInv => InitEnough
  BY DEF LifeInv
<1> QED BY <1>1, LifeInvariant, PTL
=============================================================================
