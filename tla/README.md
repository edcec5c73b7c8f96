# ts-restic-server in TLA+

`ts-restic-server` is an HTTP server for restic backups: it speaks restic's REST
protocol, stores repositories in one of seven storage backends, decides by an ACL who
may do what, and can sit on a Tailscale network. This directory holds TLA+ modules
that model its core, TLC configurations that check them on small instances, and
proofs, checked by TLAPS, of the results that hold for every instance.

Paths below are relative to the repository. `PROJECT.json` lists components, runs,
mutants, hazards, findings and theorems, and maps every definition that models code to
the lines it stands for.

## 1. The system

A request passes this chain:

    listener -> request id, recover, log, metrics -> repository prefix (repoprefix.go)
             -> identity (identity.go) -> ACL (middleware/acl.go, acl/acl.go)
             -> handler (internal/api) -> [statistics] -> [metrics] -> storage backend

Every request is served by a goroutine of its own. There is no lock above the backend:
handlers that make two backend calls see whatever happened in between.

| Part | State | Operations | What is hard | What makes it correct |
|---|---|---|---|---|
| Memory backend (`storage/memory`) | repositories, objects, used bytes, under one RWMutex | create/delete repository, stat/get/save/delete/list objects | the running byte total under replacement and repository deletion | the total equals what is stored; the quota holds; nothing outlives its repository |
| Filesystem backend (`storage/filesystem`) | the file system; no lock | the same, each a sequence of system calls | interleaving, crashes, power loss, the fallback to unsharded paths, `RemoveAll` against saves | whole files only; no answers that were true at no moment; no second copies |
| REST handlers (`internal/api`) | none of their own but the append-only flag | one per route | look-then-write of the config, stat-then-get of ranges | no unauthorised change; append-only keeps data; headers match bodies |
| ACL engine and middleware | immutable rules | `Resolve`, `Allowed`, classification | order independence of the fold over rules | the deepest match decides, deny first |
| Identity middleware | two caches (map and FIFO list) | lookup, cache, evict | concurrent misses, slow answers, negative entries | bounded staleness; recovery; a consistent cache |
| Statistics (`storage/tracked`, `internal/stats`) | one database row per repository | record write/read/delete | stat before delete, lost records, row keys | exact counts; never ahead of the truth |
| Web UI (`internal/ui`) | none | pages, lock deletion | bypasses the ACL (own login) | deletes locks only; finds the rows |
| NFS, SMB backends (`storage/nfs`, `storage/smb`) | one connection under a mutex that is held for a whole operation | as filesystem, each a sequence of remote calls | failing calls, lost replies, reconnection, temporary files left behind under a fixed name | whole blobs only; true answers; one connection |
| S3, WebDAV, rclone backends (`storage/s3`, `storage/webdav`, `storage/rclone`) | none of their own; no lock | as above, each a sequence of requests to a server | requests of several operations between each other, late and lost requests, streamed uploads that break off, paged deletion and listing, textual prefixes of keys | true answers; a deletion passes nothing over; only its own repository is touched; torn objects only where an upload broke off |
| Request path (`middleware/repoprefix.go`, `middleware/acl.go`, `api/router.go`) | the request's context | split the prefix off, classify, decide, route | three parts read the same URL each in its own way | what the ACL was asked is what the handler does |
| Serve life cycle, Tailscale login (`cmd`, `server`, `tsauth`) | process, node state directory, context, goroutines | load, start, watch, listen, serve, shut down; `init` | signals, login requests and failures at any step; the watcher's end; requests in flight at the shutdown | it stops when told to; it releases what it opened; it reports why it stopped |
| Configuration, metrics, logging, errors | fixed or write-only | | | |

## 2. Modules

| Module | Models | Kind |
|---|---|---|
| `ObjectStore` | the contract of `storage.Backend` | abstract specification |
| `MemoryBackend` | `storage/memory/memory.go` | one action per method (the mutex makes each one step) |
| `RestApi` | `internal/api`, `middleware/acl.go`, the UI's `DeleteLock` | extends `MemoryBackend`; one action per backend call of a handler |
| `Acl` | `acl/acl.go` | the two loops of `Resolve`, one action per iteration |
| `RequestAuth` | `middleware/repoprefix.go`, `middleware/acl.go`, `api/router.go`, `ui/handler.go` | extends `Acl`; one request from its URL to what its handler does |
| `FilesystemBackend` | `storage/filesystem/filesystem.go` | one action per system call |
| `ShareBackend` | `storage/nfs/nfs.go`, `storage/smb/smb.go` | one action per remote call, and what the network does to it |
| `RemoteBackend` | `storage/s3/s3.go`, `storage/webdav/webdav.go`, `storage/rclone/rclone.go` | one action per request to the server, and what becomes of it |
| `ServeLifecycle` | `cmd/serve.go`, `cmd/init.go`, `internal/server`, `internal/tsauth` | one action per step of main, the watcher, the requests and the node |
| `IdentityCache` | `middleware/identity.go` | one action per lookup event, and a clock |
| `StatsTracking` | `storage/tracked`, `stats/store.go` | one action per backend call and per record |
| `MC*` | constants for TLC | |
| `*Proofs` | theorems of the module they extend | |

**MemoryBackend.** `repos`, `data[p][o]` and `usedBytes` are the fields of `Backend`. A
body is a model value with a `Size`. The config is an object beside the blobs: the code
treats it with the same arithmetic. `Cells`, the set of single bytes stored, is the
reference the counter is compared with; it is a set so that its cardinality can be
reasoned about without recursion.

**RestApi.** `pc[r]` is the next backend call of the request in slot r. `Arrive` is
everything before the first call: the ACL decision and the append-only mark, the refusal
of deletions in append-only mode. Names and types are valid by then (the others get a
400 before any call). `rq[r].late` is a history field. `parseRange` yields every length
that a header with a given start can ask for, in integers that end at `MaxInt` and wrap
around (`Plus`); so does the sum that the clamp and the backend's slice are computed
from.

**Acl.** Paths are sequences of segments, which is what `normalizePath` and the
segment-boundary comparison in `matchPath` amount to.

**RequestAuth.** A URL's path is the sequence of what stands between its slashes, empty
strings included, so that every spelling of a path is one. `stage` goes from `RepoPrefix`
(rejection, splitting, the rewritten path) through the ACL middleware, with the engine's
loops as steps of `Acl`, to the router and the handler; `effect` is what the handler does
to the storage and where, `row` the key that a repository's page looks up. The UI and the
metrics go past the prefix, as in the code. The router is external: it matches on the
decoded path and its last parameter takes the rest. `SplitRepoPath` and the external
`Clean` (`path.Join`) are recursive functions over the length of a path, so that facts
about them can be proved. `Calls` are the requests and settings that an instance considers.

**FilesystemBackend.** Two kinds of path per data blob: sharded (`Final`) and flat
(`Flat`), the layout from before sharding. `dirs` is the set of directories; one `type`
directory stands for keys, locks, snapshots and index, one `shard` for the 256. A save's
temporary file is `tmp[s]`: `Torn` until the whole body is copied, `Nil` again once
renamed or removed, also by a `DeleteRepo` that runs into it. `Crash` kills the process
between any two system calls. `PowerFailure` also undoes any set of directory changes not
yet written back (`disk`) and the bytes of files that were renamed unsynced (`soft`).
There are no symbolic links, so `validatePath` comes down to the existence of the parent
directory. `os.RemoveAll` is external: it removes any entry it can, one at a time, and
fails when something was added behind it. `Under[p]` are the prefixes whose directories
are in p's (`a` and `a/b`); being inside is transitive. Where `LooksFail`, a look of
`SaveBlob` may end in any error, which passes for absence (`filesystem.go:169`, `:176`).
`hist[s]` is history: the values that the target of a call has had since the call began,
and for `DeleteRepo` whether its directory was ever empty of files, those of repositories
inside it included. `AnswersJustified` compares the answers with it. Where the power may
fail, a deletion does not promise that the blob was absent at some instant: a failure may
have brought its flat file back beside the upload that came later, and one call removes
one of them.

**ShareBackend.** The two backends make the same calls in the same order; only NFS opens
its temporary file in a call of its own, which is part of `WriteTemp`. The mutex is held
from `ensureConnected` to the end, and bodies are read before and answers buffered
within, so there is one operation at a time (`pc`, `rq`) and nothing to interleave but
the network: each call is `Answered`, `Failed` (the server reports an error, or the
connection is gone) or `ReplyLost` (it was carried out and the connection broke before
the answer came). `isNotFound` goes by the text of an error, which names the path
(`smb.go:482`) and counts stale handles (`nfs.go:500`), so any error may pass for "not
found" (`Missing`, and `mistaken` in the history). `conn` is the backend's target, `nil`,
`up` or set but `lost`; `Disconnect`, `Dial` and `Mount` are the stages of replacing it,
each of the last two may fail, and `links` counts the connections that are open. The
libraries and the servers are external: `mkdirAll` and `RemoveAll` may stop half way, and
`Create` may or may not empty a temporary file that was left behind, so that `tmp`
records whose bytes are in it. It is assumed that a request carried out at all is carried
out before the client has connected again, that a base path is configured, and that no
other process changes the share. `blame` is history: the errors that excuse a temporary
file or a second copy.

**RemoteBackend.** `kind` is the backend configured, `obj` what the server holds, `repo`
the repositories that rclone's server knows. There is no lock, so the requests of the
operations in `Op` interleave. Each request is carried out and answered, fails without
effect, is carried out although an error comes back, or becomes a member of `late` and
is carried out at any later time (`LateArrives`); an S3 upload is one such request, for
the others it starts, shows parts (`Torn`) and ends or breaks off. A batch deletion
that comes late is one late change for each of its keys (`DelayedAll`). Where a path or
URL contains the words that `isNotFound` looks for (`Misread`), any error passes for "not
found" on WebDAV and S3, and on WebDAV for an empty directory (`ReadDir`); operations for
which that happened are in `mistaken`. A page of a listing is
any beginning of what is left in the order of keys, and S3 may refuse to delete any key
of a page. External, and assumed: of two uploads of one object the one completed last
stands; a blob's body is fixed by its name; directories make no difference to what is
answered and are left out. `seen`, `want`, `refused`, `mistaken` and `broken` are history.

**ServeLifecycle.** A process is main (`pc`, what it returns, the deferred calls it has
pushed), the goroutine that watches the node, the goroutine that accepts, and a number of
requests in flight. `serving` is the goroutine of `http.Serve`: `NewListener` only starts
it, and it may not have come to run (`ServeStarts`) when `Shutdown` looks for the
listeners that are registered; `Cleanup` is what `Run` defers, which is nothing in plain
mode. The context is live or has the cause that ended it first, as
`context.WithCancelCause` keeps it. Every step of main that can fail may fail. The node
and its notifications are external; it stores its identity before it runs. A process may
be killed at any point, and the next one finds the state file as it was left.
`ResolveAuthKey` and `CheckServeStartup` are operators over the places a key may come
from.

**IdentityCache.** Time is kept as ages: the rest of an entry's life and the time since
an answer was true. `Resolve` is the moment at which the resolver has the answer,
`LookupEnds` the moment at which it arrives, so that a slow older answer can overtake.
`entries` and `order` are the map and the list of the cache; `Set` changes the one and
the other as the code does, and that they agree is checked (`CacheConsistent`).

**StatsTracking.** `true[k]` is history: what happened in the repository whose row is k.
A deletion is the wrapper's look at the size, the backend's own look, and the deletion;
a blob that has gone in between may be deleted with success all the same, as on S3
(`DeleteInVain`), and `vain[k]` has the bytes of those. Calls may fail and have had their
effect. `lost` says that the database failed once.

### Refinement

`ObjectStore` says that an object is absent or one whole body and that a step stores one
body or takes objects of one repository away. `MemoryBackend` implements it with
`stored <- data` and `FilesystemBackend` with `stored <- Stored`, where an object's value
is its sharded file or else its flat one, as `StatBlob` looks it up. `ShareBackend`
implements it for the blobs, whose bodies are fixed by their names; a config may come to
hold bytes of two bodies (below). `RemoteBackend` implements it with S3 (`Values`), where
an object is stored as a whole; on the other two, an upload in progress is visible.

## 3. Runs

Passing runs:

| Run | Instance | Shows |
|---|---|---|
| `rest_api` | 1 prefix, config, data blob, lock; 2 requests; a client at each of the 4 levels; append-only on and off; quota 3; integers up to 3 | authorisation of every change, append-only, late config saves, range headers; and of the memory backend under the handlers: accounting, quota, refinement |
| `request_auth` | all lists of at most 2 rules with 1 or 2 of 3 nested paths and 2 identities against plain requests; 3 lists against every URL of up to 3 segments of a 10-letter alphabet, longer ones that words of the API and extra slashes make interesting, and the UI's routes | the answer comes from the deepest level; the decision covers what the handler does and where; no part of a repository passes for a repository; proper requests are served; the page finds its row |
| `filesystem` | 1 prefix, one sharded blob and the config, 2 operations, crashes, the blob possibly stored flat before | whole files, no leaks, no second copy, answers justified, refinement |
| `filesystem_power` | the same with an unsharded blob, one body per object, power failures, and looks that end in errors | whole files |
| `share_backend` | the repository at the base path, a sharded and an unsharded blob, a config with two bodies; errors taken for absence | one connection; whole blobs; temporary files and second copies only where an error excuses them; true answers but for mistaken ones; refinement |
| `remote_backend` | each of the three backends; a repository `a` beside one named `ab`; a sharded blob, possibly stored flat before, with the words of `isNotFound` in its path; 2 operations, 1 late change | torn objects only where an upload broke off; true answers; complete deletion; isolation; refinement |
| `serve_lifecycle` | 3 processes one after the other, `serve` or `init`; 2 requests in flight; 3 notifications | resources released but for a plain listener that Serve never registered; requests seen out; the cause reported; a registration lasts; liveness: commands end unless a backend is never connected, a required login aborts |
| `identity_cache` | 2 addresses, cache of 1, 2 requests, TTL 2, timeout 1 | cache consistency, bounded staleness; liveness: negative and outdated entries do not last |
| `stats_tracking` | 2 prefixes, 1 blob, 2 requests, 4 calls | exact counts; never ahead but for deletions in vain |

Runs that TLC must find violated. Each states what a document, comment or test of the
repository says; the code does otherwise:

| Run | What the counterexample shows |
|---|---|
| `config_race` | two first uploads of a config both pass the look; the second replaces the first in append-only mode |
| `acl_deny` | a deny rule listed before a grant at the same depth is overridden |
| `filesystem_fallback` | a flat blob is unreadable until its shard directory exists |

### Observations without a run of their own

Handlers and UI:
* `SaveBlob` does not ask for the append-only mark that `middleware/acl.go:77-78` says
  handlers must honour, so on the memory backend an append-only client can replace a blob
  by another body (`api/blob.go:120`).
* For a range that ends at the largest 64-bit integer, offset plus length overflows and
  is not clamped (`api/blob.go:72`); the memory backend then slices out of range, and the
  recovered panic is a 500. `RangeHeadersMatchBody` allows for exactly that case.
* The traffic of the repository at the root is recorded under `/`, its page looks it up
  under the empty path (`ui/handler.go:171`), and the list of repositories has `/` as its
  prefix; `RowFound` says so of the root. The UI's `repoParam` accepts paths with words of
  the API in them, which the API itself would split.
* The size of a blob that is stored between the stat and the delete of
  `tracked.DeleteBlob` is recorded as 0 (`tracked.go:93`), which is why `CountsExact`
  leaves `bytesDeleted` out and only `NeverOvercounted` speaks of it.
* S3 deletes a key that is no longer there with success (`s3.go:264`), so two overlapping
  deletions of one blob are both recorded with its size, although `tracked.go:92` speaks of
  "accurate byte tracking". `NeverOvercounted` allows for just these bytes.

Filesystem and shares:
* Listings name `.tmp-*` files of uploads under way, and those that a crash or a lost
  connection has left (`filesystem.go:236-239`, `nfs.go:398`).
* Where the directory of a prefix does not exist, existence checks answer 500 and not 404
  (`filesystem.go:292`). Deleting the repository `/outer` deletes `/outer/inner`, although
  repositories are said to be isolated (`filesystem.go:68`).
* An error of `Lstat` other than "does not exist" passes for absence (`filesystem.go:169`),
  so that a second copy of a blob stored flat may be written. `OneCopy`,
  `AnswersJustified` and `ImplementsStore` are for looks that are exact.
* On the shares an error whose text `isNotFound` takes for absence makes a failed listing
  an empty one (`nfs.go:385`, `smb.go:410`), of which the client is told that it succeeded.
* `SaveBlob` of the share backends takes every error of its looks for absence
  (`nfs.go:321`, `:327`), so that a transient server error lets it write a second copy of
  a blob stored flat, which survives a deletion (why `LeftoversBlamed` and `AnswersTrue`
  make an exception). If the library's `Create` keeps the bytes of a temporary file that
  was left behind, the next and shorter config is published with the rest of the earlier
  one behind it (why `WholeObjects` makes an exception for configs). While the base
  directory does not exist, every operation connects anew, since the health check takes
  "not found" for a lost connection.

Remote backends:
* WebDAV's `isNotFound` looks for 404 in the text of an error, which names the path
  (`webdav.go:285`): for a path with these digits every error passes for absence, and a
  listing that failed for an empty one (`webdav.go:186`). S3's looks for `NotFound` and
  `NoSuchKey` (`s3.go:356`), which the URL in a transport error may contain. WebDAV's
  `Remove` of a path where nothing is may succeed (as `backendtest/suite.go:230` notes),
  so that the fallback to the flat path is not reached and a blob stored flat survives its
  deletion.
* An upload that breaks off on WebDAV or rclone destroys the copy that was there, also an
  acknowledged one (`broken`).
* Saving a blob that is stored at its flat key makes a second copy on S3 and WebDAV, and
  a deletion uncovers the other. `AnswersTrue` therefore speaks of paths.
* A reader that looks at two paths in turn may answer "not found" although a copy existed
  at every moment; this is what `AnswersTrue` says, no more.
* `DeleteObjects` reports per key what it did not delete; that is not looked at
  (`s3.go:98`), so `DeleteRepo` succeeds with the refused keys still there. It never
  answers that there is no such repository, and for the repository at the root it deletes
  the whole bucket, other repositories included.

Serve:
* The watcher stops at the first `Running`, so a login that the node asks for later goes
  unnoticed, while `docs/tailscale.md:83` says "If the node later asks for a browser login
  [...] `serve` shuts down with an error". `LoginAborts` holds up to that point.
* The cause of an abort is masked by the error of `ListenTLS` or by that of a shutdown that
  ran out of time; it is an error all the same (`LoginReported`).
* A second signal is swallowed. `ListenTLS` takes no context, so a signal during it waits.
* The SMB backend dials without a timeout and regardless of the context (`smb.go:56`),
  while the signal that would end the process is caught: `serve` may hang there for good.
* If the context is done before the goroutine of `http.Serve` has run (a signal during
  the start), `Shutdown` finds no listener to close, and in plain mode nothing else closes
  it (`listener.go:30`): `ReleasedAtExit` excepts that case. The process ends right after.
* An init as root may leave a state directory that `serve` cannot read; it warns
  (`init.go:99`), and `serve` is then refused as if there were no state.
* Requests that outlive the shutdown's timeout, or come in on open connections after
  `Serve` has failed, meet a closed statistics store; `serve` then reports an error.

### Bounds

Two requests are enough for every two-party race listed under the hazards, since each
property is about one request and what one other did between two of its steps; slots are
reused, so any number of requests come one after the other. `MaxInt = 3` is larger than
the largest body, so that sums wrap around at the boundary and nowhere else.
`MaxCalls = 4` allows a save, a whole delete and a save between the steps of another delete. In
`MCAcl` two rules with two paths reach every case of `Collect` (deeper, equal, shallower)
and both positions of a deny. The `filesystem` run has one repository; that a deletion
takes along what is inside is proved for any nesting. The alphabet of `MCRequestAuth` has
a word of each class that the code tells apart: empty, plain, hexadecimal, a type,
`config`, `-`, `..` and a rejected one. `MaxLate = 1` counts changes of single keys on
their way: one meets every state of the two operations, also one that the retry of its own
operation has made. Pages have any length, so two keys make two pages. `MaxRuns = 3` lets
an `init`, a process that is killed and a `serve` follow one another, `MaxNotices = 3`
holds a login, an approval and a running node unread, and with `MaxInFlight = 2` one
request ends while another does not. A TTL longer than the timeout and a cache smaller
than the number of addresses make expiry, eviction and overtaking happen. `Failures` and
`Changes` bound failed lookups and reassigned addresses at one each, which liveness needs
(they must end) and safety survives: each counts at most one stale answer, and the
properties are about one. `ShareBackend` needs no bound: any number of operations and
failures follow one another (5 million states, two minutes). With one prefix, the base
directory is deleted and made again with the repository, which is where the health check
is sensitive to it; operations on different prefixes share only the connection. Operations
are symmetric where a cfg says so; the runs with a liveness property use no symmetry.

### Fairness

Two specifications assume any.
* `IdentityCache`: `WF(Tick)`, time passes, and `WF(Step(r))`, the goroutine of a request
  that has begun goes on, which the Go scheduler and the lookup timeouts of 3 and 5
  seconds provide. Clients, failures and reassignments are not fair.
* `ServeLifecycle`: `WF(Main)` and `WF(Watch)`, the goroutines are scheduled and each call
  that main makes returns in the end (for `ListenTLS` that is the library's part), and
  `WF(InitTimeout)`, the timer of `init` fires. `MayHang` is not fair: `BuildBackend` dials
  without a limit of time, and `InitAuth` reads standard input, which need not end. So
  `CommandsEnd` and `LoginAborts` let a process stay there for ever, and nowhere else.
  Nothing is assumed of requests, signals, the node and the start of `http.Serve`: the
  shutdown's timeout is what ends a process whose requests do not end.

## 4. Proofs

All constants are arbitrary within the `ASSUME`s of the modules: sets of slots, prefixes
and blobs need not even be finite unless an assumption says so.

* **RestApiProofs.** `MemInv` (types, orphan-freeness, accounting, quota) is inductive as
  it stands. Quota alone is not: it needs that the total is exact, since a replacement
  subtracts the size of what is stored. The argument is a partition of `Cells`: a save
  takes out the cells of one object and puts others in, a repository's deletion takes out
  those of the repository, and the lemmas `RemovePart` and `AddPart` give the
  cardinalities. `MemImplements` is the refinement of `ObjectStore`. For the handlers,
  `ApiInv` adds the typing of the slots, `InFlight` (what the middleware established still
  holds of a request at each of its calls) and `LateSavesHeld`. The action properties
  follow by cases: `StepsAreMethods` reduces a step to at most one method of the backend,
  `ChangeHasCause` finds the request behind a change and `CauseIsAllowed` its permission.
  `ApiRefines` maps every step of the handlers to one of the backend or a stutter, which
  carries the backend's refinement over to them (`ApiImplements`). `ApiRanges` assumes what
  restic's names provide: a blob's name fixes the length of its body (`LengthsFixed`), and
  integers are wide enough for every body. `RangeInv` then has that a range fits the stored
  body from the handler's first look on, although the object may be deleted and stored
  again before the second; the cases are those of the arithmetic that may wrap around.
* **RequestAuthProofs.** For the engine, `AclInv` ties the loop counters to the set of
  matches seen so far; `CollectedIsDeepest` shows that at the end of the first loop that
  set is the one at the deepest level overall. For the rest of the way, the central fact is
  `Divided` in `AuthInv`: the prefix in the context, the path that the ACL was asked about
  and what is left for the router are the two parts of one division of the URL's segments,
  at the first word of the API. What the handler does is then decided by the second part
  alone, and `CoversStep`, `ServesStep` and `NoPartStep` compare it with the class that the
  middleware gave the request, case by case of router and handlers. The facts about paths
  (the split holds exactly the segments that are not empty; a path that is not rejected is
  joined to its split; a path without empty segments is its own split) concern recursive
  functions. They are proved by induction over the length in the form of a least number
  that is not reached (`NatReached`), which needs no induction theorem with an operator
  parameter.
* **FilesystemProofs.** `FsInv` says of each slot what its temporary file may hold at
  each step (`SlotOK`), from which whole files follow, crashes and power failures
  included. `CopyInv` adds that a save past its look has no flat copy to fear
  (`FlatGone`): flat files only ever vanish, except in a power failure, which ends every
  save. That no blob has two copies (`OneCopy`) holds only without power failures and with
  looks that are exact (`LooksFail = FALSE`), and so does `FsImplements`. `FsAnswers` needs
  exact looks and assumes nothing of the power. A call that looks at two
  paths is right because of `Missed`, kept for every call that has made its first look:
  either the object's only copy is at the flat path, where the second look will find it
  unless it goes away, or it is not there and the history has an instant without the
  object. A name that a listing has read is followed up in the same way. For `DeleteRepo`
  the proof needs `Homed`: nothing is ever without the directories above it, whatever
  `RemoveAll` takes away while saves make directories; so the repository's directory is
  gone only with all that was in it, nested repositories included. Types need `ReadsPath`
  besides: what a read opens is a path of an object.
* **ShareBackendProofs.** `ShareInv` has which operation is at which call (`Placed`), what
  the temporary file holds before it is written and before it is renamed (`TempHolds`),
  from which whole blobs follow although the file has a fixed name and may be an old one,
  and that a save past its looks writes no second copy that nothing excuses (`Looked`).
  `ShareImplements` refines `ObjectStore` for the blobs. `ShareAnswers` rests on `Knows`,
  what an operation has learned so far about its object and what excuses it if that is
  wrong (`mistaken` for an error that passed for absence), and on `Homed` as above:
  directories are made from the top and removed when empty, also by calls that stop half
  way or whose reply is lost.
* **RemoteBackendProofs.** `RemoteInv` has which operation of which backend is at which
  request (`Placed`), that late requests carry whole bodies (`LateWhole`) and what is
  stored belongs to its object (`Own`). True answers rest on `SeenNow` (the history has the
  present value of each path, for every operation in flight) and `Knows` (what an operation
  has learned so far is in its history); complete deletion on `WantHere` and `Swept` (what
  is still wanted comes after the pages done, or was refused). `RemoteImplements` assumes
  that no repository lies inside another, as the deletion of a page takes keys of several
  repositories away in one step.
* **ServeLifecycleProofs.** `LifeInv` has that each open resource is covered by a deferred
  call, except between a call and the `defer` after it and for the listener, which Serve
  must have registered or `Cleanup` closes (`Covered`), which requests there
  may be at which point (`Draining`), what the watcher may still do to the context
  (`Caused`), and that a node that runs has its state on the disk (`Stored`).
* **IdentityCacheProofs.** `CacheInv` has that the list holds each key once and the map
  the same keys (`Linked`), although the two are changed apart, and that an entry's age
  and the rest of its life together stay within the bound (`Fresh`): without that, the age
  of a hit is not bounded by one step's reasoning, since a slow answer overwrites a newer
  entry.
* **StatsTrackingProofs.** Between a call and its record a row is behind. `Owed` is what
  it is behind by, as a set of cells (one for each event or byte that a slot has yet to
  record); `Accounted` says that row and debt come to at most what has happened, and to
  exactly that without a lost record; what was deleted in vain is kept apart. A call adds
  a part to the set and a record takes it away, so no sum over the slots is needed.

Type invariants are theorems here and not part of the runs, except in `RestApi`, where
the range arithmetic can break it.

Every safety property of a passing run is thus a theorem. The assumptions on the
constants say what a value of the model is (`Nil` is neither a body nor an object, a word
of the API is no hex string) or how the world is (`Under` is a nesting, `LengthsFixed`).

Only model-checked: the liveness properties `EventuallyTrue`, `CommandsEnd` and
`LoginAborts`, since liveness under fairness, like `ENABLED`, is out of TLAPS's reach. The
three properties that are violated (`ConfigNeverReplaced`, `DenyIsAbsolute`,
`FallbackReads`) have counterexamples and no theorem.

The proofs have changed the models in these places. `ListRoute` and `BlobRoute` and the
properties `AnswersTrue` of the shares and `AnswersJustified` were written with `CASE`s
whose guards overlap, of which TLC takes the first and the logic any: they are disjunctions
and conjunctions of implications now. `Nil` is assumed to be no object, without which a
request for nothing is one for an object. `AnswersJustified` said of a deletion more than
holds after a power failure, and of `DeleteRepo` nothing.

## 5. Not modelled

Of the configuration only that loading may fail and where an auth key comes from:
parsing, substitution and the checks of single values keep no state. Metrics, logging,
error texts, security headers and templates hold nothing that the properties are about;
the instrumented backend passes every call on. `backendtest` is a test suite. Symbolic
links and failures of `os.Remove` in a clean-up are not considered, nor, but for the start
of `serve`, calls that never return: a dial without a timeout under the lock of the SMB
backend would block every request.

## 6. Plan

Done: `ObjectStore`, `MemoryBackend`, `RestApi`, `Acl`, `FilesystemBackend`,
`IdentityCache`, `StatsTracking`, `ShareBackend`, `ServeLifecycle`, `RemoteBackend`,
`RequestAuth`, with their runs, and the eight proof modules.

What is left:

1. Proofs: what of `ObjectStore` the filesystem backend keeps under power failures, and
   WebDAV and rclone while an upload is in progress.
2. Time in `ShareBackend`, for calls that do not return while the lock is held.
3. The watcher's end at the first `Running` as a run of its own, against
   `docs/tailscale.md:83`.
