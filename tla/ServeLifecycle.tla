--------------------------- MODULE ServeLifecycle ---------------------------
(***************************************************************************)
(* The life of the process: the commands serve (cmd/serve.go, the package  *)
(* internal/server) and init (cmd/init.go), which use one Tailscale state  *)
(* directory one after the other, and the package internal/tsauth both     *)
(* use.  Four parties step by themselves: the main goroutine, the          *)
(* goroutine that watches the Tailscale node, the one that runs http.Serve *)
(* and the requests in flight.                                             *)
(* Simplifications: what a command reads of its flags, its environment and *)
(* its configuration is chosen where it is read; the three fallible steps  *)
(* between the statistics and the listener, which change nothing, are one; *)
(* and the deferred calls of Run are part of its last step.                *)
(***************************************************************************)
EXTENDS Integers, Sequences

CONSTANTS
  MaxInFlight,  \* a bound on the requests in flight
  MaxNotices,   \* a bound on the notifications that wait on the bus
  MaxRuns       \* a bound on the processes started

ASSUME LifeAssumption == MaxInFlight \in Nat /\ MaxNotices \in Nat /\ MaxRuns \in Nat

VARIABLES
  cmd, mode,   \* the command of the process, its listen_mode
  pc, err,     \* main: its next step, what it returns
  defers,      \* main: the resources its deferred calls will release, the last one first
  opened,      \* the resources that are open
  allow,       \* WaitOptions.AllowInteractive
  ctx,         \* the context: live, or what ended it first
  watcher,     \* the watching goroutine: off, waiting, or how it ended
  serving,     \* http.Serve: off, started but yet to run, accepting, or how it ended
  inFlight,    \* the number of requests in flight
  node, bus,   \* external: the Tailscale node, its notifications
  file,        \* the state file exists and is not empty
  registered,  \* history: an init has ended with success
  runs

main == <<pc, err, defers>>
tailscale == <<node, bus, file>>
vars == <<cmd, mode, main, opened, allow, ctx, watcher, serving, inFlight, tailscale,
          registered, runs>>

-----------------------------------------------------------------------------
\* The places an auth key may come from.  A blank flag is not empty but holds no
\* key; a config value may have been a placeholder, resolved or not.
Sources == [flag : {"", "blank", "key"}, stdin : {"nil", "fails", "empty", "key"},
            env : BOOLEAN, config : {"", "literal", "substituted", "unresolved"}]

ServeSources == {s \in Sources : s.flag = "" /\ s.stdin = "nil"}

Found(source) == [key |-> TRUE, source |-> source, err |-> "none"]
Failing(e) == [key |-> FALSE, source |-> "none", err |-> e]

ResolveAuthKey(s) ==
  IF s.flag # "" /\ s.stdin # "nil" THEN Failing("ErrFlagAndStdin")
  ELSE IF s.flag = "key" THEN Found("flag")
  ELSE IF s.stdin = "fails" THEN Failing("error")
  ELSE IF s.stdin = "empty" THEN Failing("ErrEmptyStdin")
  ELSE IF s.stdin = "key" THEN Found("stdin")
  ELSE IF s.env \/ s.config = "substituted" THEN Found("env")
  ELSE IF s.config = "literal" THEN Found("config")
  ELSE Failing("none")

CheckServeStartup(stateExists, key, interactive) == stateExists \/ key \/ interactive

-----------------------------------------------------------------------------
Goto(step) == pc' = step /\ UNCHANGED <<err, defers>>
Return(e) == pc' = "return" /\ err' = e /\ UNCHANGED defers
ReturnError == Return("error")

Push(r) == opened' = opened \cup {r} /\ defers' = Append(defers, r)

\* What a step that only computes or fails leaves alone.
Aside == UNCHANGED <<cmd, mode, opened, allow, ctx, watcher, serving, inFlight, tailscale,
                     registered, runs>>

Init ==
  /\ cmd = "none" /\ mode = "plain" /\ pc = "exited" /\ err = "none" /\ defers = <<>>
  /\ opened = {} /\ allow = FALSE /\ ctx = "live" /\ watcher = "off" /\ serving = "off"
  /\ inFlight = 0 /\ node = "off" /\ bus = <<>> /\ file \in BOOLEAN
  /\ registered = FALSE /\ runs = 0

\* A process is started on the state directory that earlier ones have left.
Start ==
  /\ pc = "exited" /\ runs < MaxRuns
  /\ cmd' \in {"serve", "init"} /\ mode' \in {"plain", "tailscale"}
  /\ pc' = "load" /\ err' = "none" /\ defers' = <<>> /\ opened' = {} /\ allow' = FALSE
  /\ ctx' = "live" /\ watcher' = "off" /\ serving' = "off" /\ inFlight' = 0
  /\ node' = "off" /\ bus' = <<>> /\ runs' = runs + 1
  /\ UNCHANGED <<file, registered>>

\* config.Load, and ValidateForInit.
Load ==
  /\ pc = "load" /\ Aside
  /\ \/ ReturnError
     \/ cmd = "serve" /\ Goto(IF mode = "tailscale" THEN "auth" ELSE "backend")
     \/ cmd = "init" /\ mode = "tailscale" /\ Goto("auth")

\* The first part of startTailscale, up to the state directory.
ServeAuth ==
  /\ pc = "auth" /\ cmd = "serve"
  /\ \E s \in ServeSources, interactive \in BOOLEAN :
       LET key == ResolveAuthKey(s).key
       IN /\ allow' = (interactive \/ key)
          /\ IF CheckServeStartup(file, key, interactive)
             THEN Goto("tsnet") \/ ReturnError
             ELSE Return("ErrNoState")
  /\ UNCHANGED <<cmd, mode, opened, ctx, watcher, serving, inFlight, tailscale, registered, runs>>

\* The first part of runInit, up to the deferred Close of the node.
InitAuth ==
  /\ pc = "auth" /\ cmd = "init"
  /\ \E s \in Sources, force \in BOOLEAN :
       LET r == ResolveAuthKey(s)
       IN \/ /\ r.err # "none" \/ (~r.key /\ (force \/ ~file))
             /\ ReturnError /\ UNCHANGED opened
          \/ /\ r.err = "none" /\ (r.key \/ (~force /\ file))
             /\ \/ ReturnError /\ UNCHANGED opened
                \/ pc' = "tsnet" /\ Push("tsnet") /\ UNCHANGED err
  /\ UNCHANGED <<cmd, mode, allow, ctx, watcher, serving, inFlight, tailscale, registered, runs>>

\* LocalClient starts the node.  serve closes it by hand when that fails.
StartNode ==
  /\ pc = "tsnet"
  /\ \/ node' = "starting" /\ opened' = opened \cup {"tsnet"} /\ Goto("watch")
     \/ UNCHANGED <<node, opened>> /\ ReturnError
  /\ UNCHANGED <<cmd, mode, allow, ctx, watcher, serving, inFlight, bus, file, registered, runs>>

\* Mutant of WatchIPNBus: the node is not closed when it cannot be watched.
WatchIPNBusLeaking ==
  /\ pc = "watch" /\ UNCHANGED <<node, opened>>
  /\ \/ /\ ctx = "live" /\ bus' = <<node>> /\ watcher' = "waiting"
        /\ IF cmd = "serve"
           THEN pc' = "backend" /\ defers' = Append(defers, "tsnet") /\ UNCHANGED err
           ELSE Goto("waiting")
     \/ UNCHANGED <<bus, watcher>> /\ ReturnError
  /\ UNCHANGED <<cmd, mode, allow, ctx, serving, inFlight, file, registered, runs>>

\* The bus tells the present state first.  From here on it is a deferred call of
\* runServe that closes the node; before, startTailscale has to.
WatchIPNBus ==
  /\ pc = "watch"
  /\ \/ /\ ctx = "live" /\ bus' = <<node>> /\ watcher' = "waiting"
        /\ IF cmd = "serve"
           THEN pc' = "backend" /\ defers' = Append(defers, "tsnet") /\ UNCHANGED err
           ELSE Goto("waiting")
        /\ UNCHANGED <<node, opened>>
     \/ /\ ReturnError /\ UNCHANGED <<bus, watcher>>
        /\ IF cmd = "serve" THEN opened' = opened \ {"tsnet"} /\ node' = "off"
           ELSE UNCHANGED <<node, opened>>
  /\ UNCHANGED <<cmd, mode, allow, ctx, serving, inFlight, file, registered, runs>>

\* For a remote backend it dials, with no limit of time and regardless of the context.
BuildBackend == pc = "backend" /\ (Goto("stats") \/ ReturnError) /\ Aside

\* Statistics may be off; a database that cannot be opened turns them off.
OpenStats ==
  /\ pc = "stats" /\ pc' = "wire" /\ UNCHANGED err
  /\ Push("stats") \/ UNCHANGED <<opened, defers>>
  /\ UNCHANGED <<cmd, mode, allow, ctx, watcher, serving, inFlight, tailscale, registered, runs>>

\* buildACLEngine, buildIPExtractor, server.New.
Wire == pc = "wire" /\ (Goto("listen") \/ ReturnError) /\ Aside

\* NewListener: the plain one comes or fails at once; ListenTLS waits until the
\* node runs, for a limited time, and takes no notice of the context.  Run then
\* starts the goroutine of http.Serve, which may be a while before it runs.
NewListener ==
  /\ pc = "listen"
  /\ \/ /\ mode = "plain" \/ node = "running"
        /\ opened' = opened \cup {"listener"} /\ serving' = "started" /\ Goto("serving")
     \/ UNCHANGED <<opened, serving>> /\ ReturnError
  /\ UNCHANGED <<cmd, mode, allow, ctx, watcher, inFlight, tailscale, registered, runs>>

-----------------------------------------------------------------------------
\* The goroutine gets to run.  Serve registers the listener and accepts; once
\* Shutdown has been called it closes the listener instead.
ServeStarts ==
  /\ pc # "exited" /\ serving = "started"
  /\ \/ pc = "serving" /\ serving' = "accepting" /\ UNCHANGED opened
     \/ pc # "serving" /\ serving' = "stopped" /\ opened' = opened \ {"listener"}
  /\ UNCHANGED <<cmd, mode, main, allow, ctx, watcher, inFlight, tailscale, registered, runs>>

\* The select of Run when ctx is done.  Shutdown first closes the listeners that
\* Serve has registered, and only those.
Shutdown ==
  /\ pc = "serving" /\ ctx # "live" /\ Goto("draining")
  /\ IF serving = "started" THEN UNCHANGED <<serving, opened>>
     ELSE serving' = "stopped" /\ opened' = opened \ {"listener"}
  /\ UNCHANGED <<cmd, mode, allow, ctx, watcher, inFlight, tailscale, registered, runs>>

\* Run returns and calls its deferred cleanup, which is nil in plain mode.
Cleanup ==
  /\ opened' = IF mode = "tailscale" THEN opened \ {"listener"} ELSE opened
  /\ UNCHANGED <<cmd, mode, allow, ctx, watcher, serving, inFlight, tailscale, registered, runs>>

\* The select of Run when Serve has failed: no request is waited for.
ServeFailed ==
  /\ pc = "serving" /\ serving = "failed"
  /\ ReturnError /\ Cleanup

\* Mutant of Drained: the requests in flight are not waited for.
DrainedAtOnce == pc = "draining" /\ Goto("ran") /\ Cleanup

\* Mutant of DrainTimeout: Shutdown is given a context without a deadline.
DrainTimeoutNever == pc = "draining" /\ inFlight = 0 /\ ReturnError /\ Cleanup

\* Shutdown has seen the last request end, or its time is over.
Drained == pc = "draining" /\ inFlight = 0 /\ Goto("ran") /\ Cleanup
DrainTimeout == pc = "draining" /\ ReturnError /\ Cleanup

\* Mutant of AfterRun: the cause of the cancellation is not asked for.
AfterRunOk == pc = "ran" /\ Return("ok") /\ Aside

AfterRun ==
  /\ pc = "ran" /\ Aside
  /\ Return(IF ctx = "login" THEN "ErrNeedsLogin" ELSE "ok")

\* The deferred calls, the last one first.  Closing the node ends its bus.
Unwind ==
  /\ pc = "return" /\ defers # <<>>
  /\ LET r == defers[Len(defers)]
     IN /\ opened' = opened \ {r}
        /\ node' = IF r = "tsnet" THEN "off" ELSE node
  /\ defers' = SubSeq(defers, 1, Len(defers) - 1)
  /\ UNCHANGED <<cmd, mode, pc, err, allow, ctx, watcher, serving, inFlight, bus, file,
                 registered, runs>>

\* The process ends and with it its goroutines.
Exit ==
  /\ pc = "return" /\ defers = <<>>
  /\ pc' = "exited"
  /\ watcher' = IF watcher = "waiting" THEN "failed" ELSE watcher
  /\ registered' = (registered \/ (cmd = "init" /\ err = "ok"))
  /\ UNCHANGED <<cmd, mode, err, defers, opened, allow, ctx, serving, inFlight, tailscale, runs>>

-----------------------------------------------------------------------------
\* Mutant of Outcome: waiting for approval counts as running.
OutcomeApproved(notice) ==
  CASE notice = "error" -> "failed"
    [] notice = "login" /\ ~allow -> "login"
    [] notice \in {"running", "approval"} -> "running"
    [] OTHER -> "waiting"

\* Mutant of Outcome: the login URL is waited out.
OutcomePatient(notice) ==
  CASE notice = "error" -> "failed" [] notice = "running" -> "running" [] OTHER -> "waiting"

\* WaitRunning: what it makes of one notification.
Outcome(notice) ==
  CASE notice = "error" -> "failed"
    [] notice = "login" /\ ~allow -> "login"
    [] notice = "running" -> "running"
    [] OTHER -> "waiting"

\* One round of WaitRunning.  The watcher is closed when the loop ends.
Round ==
  /\ bus # <<>>
  /\ watcher' = Outcome(Head(bus))
  /\ bus' = IF Outcome(Head(bus)) = "waiting" THEN Tail(bus) ELSE <<>>

Cancel(cause) == ctx' = IF ctx = "live" THEN cause ELSE ctx

\* The goroutine of serve, which is over when the loop is.
Watch ==
  /\ cmd = "serve" /\ pc # "exited" /\ watcher = "waiting"
  /\ Round
  /\ IF watcher' = "login" THEN Cancel("login") ELSE UNCHANGED ctx
  /\ UNCHANGED <<cmd, mode, main, opened, allow, serving, inFlight, node, file, registered, runs>>

\* Next fails: the context is done, the node is closed, or the bus breaks.
WatchEnds ==
  /\ cmd = "serve" /\ pc # "exited" /\ watcher = "waiting"
  /\ watcher' = "failed" /\ bus' = <<>>
  /\ UNCHANGED <<cmd, mode, main, opened, allow, ctx, serving, inFlight, node, file, registered, runs>>

\* init runs the same loop in its main goroutine, under the context with the timeout.
InitWait ==
  /\ cmd = "init" /\ pc = "waiting"
  /\ \/ /\ Round
        /\ CASE watcher' = "waiting" -> Goto("waiting")
             [] watcher' = "running" -> Goto("certs")
             [] watcher' = "login" -> Return("ErrNeedsLogin")
             [] watcher' = "failed" -> ReturnError
     \/ ctx # "live" /\ watcher' = "failed" /\ bus' = <<>> /\ ReturnError
  /\ UNCHANGED <<cmd, mode, opened, allow, ctx, serving, inFlight, node, file, registered, runs>>

InitBusBreaks ==
  /\ cmd = "init" /\ pc = "waiting"
  /\ watcher' = "failed" /\ bus' = <<>> /\ ReturnError
  /\ UNCHANGED <<cmd, mode, opened, allow, ctx, serving, inFlight, node, file, registered, runs>>

\* Status, CertDomains and CertPair, under the same context.
FetchCert ==
  /\ pc = "certs" /\ Aside
  /\ ReturnError \/ (ctx = "live" /\ Return("ok"))

\* The time of init is over: its next call on the context fails.
InitTimeout ==
  /\ cmd = "init" /\ pc \in {"tsnet", "watch", "waiting", "certs"} /\ ctx = "live"
  /\ ctx' = "timeout"
  /\ UNCHANGED <<cmd, mode, main, opened, allow, watcher, serving, inFlight, tailscale, registered, runs>>

-----------------------------------------------------------------------------
\* SIGINT or SIGTERM.  Once serve has loaded its configuration it has a handler,
\* until it ends, which also swallows the second signal.
Signal ==
  /\ cmd = "serve" /\ pc \notin {"exited", "load"} /\ ctx = "live"
  /\ Cancel("signal")
  /\ UNCHANGED <<cmd, mode, main, opened, allow, watcher, serving, inFlight, tailscale, registered, runs>>

\* A signal that nothing handles ends the process on the spot.
Killed ==
  /\ pc # "exited" /\ (cmd = "init" \/ pc = "load")
  /\ pc' = "exited" /\ err' = "killed" /\ watcher' = "off" /\ opened' = {} /\ defers' = <<>>
  /\ UNCHANGED <<cmd, mode, allow, ctx, serving, inFlight, tailscale, registered, runs>>

Requests(n) ==
  /\ inFlight' = n
  /\ UNCHANGED <<cmd, mode, main, opened, allow, ctx, watcher, serving, tailscale, registered, runs>>

\* Connections that are open are served until Shutdown, also when Serve has failed.
RequestArrives ==
  pc # "exited" /\ serving \in {"accepting", "failed"} /\ inFlight < MaxInFlight
  /\ Requests(inFlight + 1)
RequestEnds == pc # "exited" /\ inFlight > 0 /\ Requests(inFlight - 1)

\* Accept fails for good; Serve closes the listener and returns.
AcceptFails ==
  /\ pc = "serving" /\ serving = "accepting"
  /\ serving' = "failed" /\ opened' = opened \ {"listener"}
  /\ UNCHANGED <<cmd, mode, main, allow, ctx, watcher, inFlight, tailscale, registered, runs>>

\* The node changes its state and says so.  Before it runs it has stored its
\* identity, and it may do so earlier.
NodeSteps(from) ==
  CASE from = "starting" -> {"running", "login", "approval", "error"}
    [] from = "login" -> {"running", "approval"}
    [] from = "approval" -> {"running"}
    [] from = "running" -> {"login"}
    [] OTHER -> {}

NodeChanges ==
  /\ pc # "exited" /\ Len(bus) < MaxNotices
  /\ \E to \in NodeSteps(node) :
       /\ node' = to
       /\ bus' = IF watcher = "waiting" THEN Append(bus, to) ELSE bus
       /\ file' \in (IF to = "running" THEN {TRUE} ELSE {file, TRUE})
  /\ UNCHANGED <<cmd, mode, main, opened, allow, ctx, watcher, serving, inFlight, registered, runs>>

-----------------------------------------------------------------------------
Main == Load \/ ServeAuth \/ StartNode \/ WatchIPNBus \/ OpenStats \/ Wire \/ NewListener
        \/ Shutdown \/ ServeFailed \/ Drained \/ DrainTimeout \/ AfterRun \/ InitWait
        \/ FetchCert \/ Unwind \/ Exit

\* Steps of main that may take forever: standard input has to end, and a remote
\* backend is dialled without a limit of time.
MayHang == InitAuth \/ BuildBackend

Finished == pc = "exited" /\ runs = MaxRuns /\ UNCHANGED vars

Next == Main \/ MayHang \/ ServeStarts \/ Watch \/ WatchEnds \/ InitBusBreaks \/ InitTimeout \/ Start \/ Signal \/ Killed
        \/ RequestArrives \/ RequestEnds \/ AcceptFails \/ NodeChanges \/ Finished

\* The goroutines are scheduled and the timers fire; each call that main makes returns
\* in the end, but for those of MayHang.  Nothing is assumed of requests, signals,
\* the node and the start of http.Serve.
Spec == Init /\ [][Next]_vars /\ WF_vars(Main) /\ WF_vars(Watch) /\ WF_vars(InitTimeout)

-----------------------------------------------------------------------------
Resource == {"tsnet", "stats", "listener"}

\* Every variable has its type.
TypeOK ==
  /\ cmd \in {"none", "serve", "init"} /\ mode \in {"plain", "tailscale"}
  /\ pc \in {"load", "auth", "tsnet", "watch", "backend", "stats", "wire", "listen", "serving",
             "draining", "ran", "waiting", "certs", "return", "exited"}
  /\ err \in {"none", "ok", "error", "ErrNoState", "ErrNeedsLogin", "killed"}
  /\ defers \in Seq(Resource) /\ opened \subseteq Resource /\ allow \in BOOLEAN
  /\ ctx \in {"live", "signal", "login", "timeout"}
  /\ watcher \in {"off", "waiting", "running", "login", "failed"}
  /\ serving \in {"off", "started", "accepting", "failed", "stopped"} /\ inFlight \in 0 .. MaxInFlight
  /\ node \in {"off", "starting", "running", "login", "approval", "error"}
  /\ bus \in Seq({"starting", "running", "login", "approval", "error"})
  /\ file \in BOOLEAN /\ registered \in BOOLEAN /\ runs \in 0 .. MaxRuns

\* However a command ends, after a failure of any of its steps too, it has closed
\* the node, the statistics and the listener that it had opened.  One thing may
\* stay open: the listener of plain mode, and only if the context was done before
\* http.Serve came to run at all, so that Shutdown did not know of the listener.
ReleasedAtExit ==
  pc = "exited" => \/ opened = {}
                   \/ /\ opened = {"listener"} /\ mode = "plain"
                      /\ serving = "started" /\ ctx # "live"

\* A request is cut off, or meets a statistics store that has been closed, only
\* when serve reports an error: the time to shut down was over or Serve failed.
\* When serve ends well, or for want of a login, every request has ended.
RequestsSeenOut == inFlight > 0 => pc \in {"serving", "draining"} \/ err = "error"

\* A serve that the watcher aborted does not end as if it had been asked to stop,
\* and it is never aborted when a key or an interactive login allows for the URL.
LoginReported ==
  ctx = "login" => /\ ~allow
                   /\ pc = "exited" => err \in {"ErrNeedsLogin", "error"}

\* Once init has registered the node, a serve on the same directory is not
\* refused for want of node state, whatever processes ran or were killed between.
\* That assumes that serve may read what init wrote: an init as root only warns of it.
InitEnough == registered => err # "ErrNoState"

\* After a signal, and after the watcher has cancelled the context, serve comes to
\* its end, whatever its requests do and wherever in its start it was: all but a
\* backend that is never connected, which neither ends.  init ends by itself, also
\* when the node never comes up: all but a standard input that never ends.
CommandsEnd ==
  /\ (cmd = "serve" /\ ctx # "live") ~> (pc = "exited" \/ [](pc = "backend"))
  /\ (cmd = "init") ~> (pc = "exited" \/ [](pc = "auth"))

\* The node asks for a login that is not allowed before serve has seen it run:
\* then serve ends instead of waiting forever, unless the bus breaks first or the
\* backend is never connected.
LoginAborts ==
  (cmd = "serve" /\ watcher = "waiting" /\ ~allow /\ bus # <<>> /\ Head(bus) = "login")
    ~> (pc = "exited" \/ watcher = "failed" \/ [](pc = "backend"))
=============================================================================
