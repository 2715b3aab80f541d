# pan-client: verification project

TLA+ models of the Go library in `src/` (one client interface for six cloud drives), the
TLC runs that check them and the theorems TLAPS proves about them. `PROJECT.json` lists
components, runs, mutants, the map from definitions to source lines, findings, hazards and
theorems.

## 1. The system

| component | state | operations | what is hard |
|---|---|---|---|
| chunk downloader, `internal/chunk_download.go` | task channel, semaphore, map of finished tasks, notification, error and done channels, WaitGroup, temp files, output file | `Do`, workers, `retry`, `calTask`, `mergeFile`/`popTask`, `completeTask` | six kinds of goroutines on unbuffered channels; errors from everywhere, one reader; success and failure race; Shutdown and Cancel at any point |
| ranges and resumption, same file and `BaseDownloadFile` (`pan/driver.go`) | output file, temp files named by range | `CalRange`, `addRange`, the check of an existing file | decides from what an interrupted run left where to go on; chunk sizes may differ between runs; boundaries |
| global shutdown, `internal/chan.go` | global context, process-wide WaitGroup | `Shutdown`, registration by `Do` | check-then-register; what is waited for |
| directory cache, `pan/cache.go` | `sync.Map`, singleflight group, expiry times, clean-up goroutine | `Get`, `GetOrLoad`, `Set`, `Del`, `Clear`, `Stop` | loads in flight while entries are invalidated, check-then-delete, joins |
| registry and clients, `pan/op.go`, `enter.go` | constructors, clients by id, defaults; per client a context, a cache goroutine, aliyundrive's timer | `NewXClient`, `StoreDriver`, `LoadDriver`, `RemoveDriver`, `Close` | clients overwritten or not closed; what a closed client still does |
| directory operations, `pan/driver.go` and each `driver/*/driver.go` | remote tree, cached listings | `List`, `Mkdir`, `Move`, `Delete`, `ObjRename`, `BatchRename`, `GetPanObj`, `CollectItemIds` | which listings an operation must invalidate; paths resolved through the cache |
| upload reader, `ProgressReader` in `pan/driver.go` | file position, chunk and total counters | `Read`, `NextChunk`, `ResetChunk` | a chunk that is retried must not count twice |
| uploads of the drivers | upload sessions, part lists, MD5 state | `UploadFile` | retry of a part, resumption with a cached session, partial failure |
| path transfer, `BaseUploadPath`, `BaseDownloadPath` | none | recursion over a tree | skipping or failing on single files |
| tokens and login, each `driver/*/methods.go` | access and refresh token, captcha | refresh on a 401, periodic refresh | concurrent refreshes with one refresh token, unbounded repetition |
| helpers, types | none | | stateless, not modelled |

How they interact: a driver embeds `BaseOperate` (context, download settings),
`CacheOperate` (its own `Cache`) and `CommonOperate` (`GetPanObj`). `List` goes through the
cache; every operation that takes a path resolves it with `List`; operations that change a
directory delete its cache entry. `DownloadFile` calls `BaseDownloadFile`, which creates one
`ChunkDownload` per file and calls `Do`. All `Do`s of a process share the global context
and WaitGroup of `internal/chan.go`; `Driver.Cancel` (from `Close`) cancels one client's
context. Temp files survive the process and are what a later `Do` resumes from.

What makes each correct:
- downloader: the output is the chunks in order, each once; nil means the whole file;
  every call returns; Shutdown ends; nothing writes after success; no goroutine leaks.
- resumption: what is on disk plus what is planned is the remote file.
- cache: one load at a time, no listing older than an earlier one, staleness bounded by
  the TTL, visibility of one's own changes, no hanging waiter.
- clients: a closed client stops refreshing; the next one finds tokens it can log in with.
- directory operations: nil means that exactly what was asked for has been done to exactly
  the objects that were named, and no listing that is left contradicts it.
- uploads: the server assembles exactly the file, whatever is retried or resumed; nil means
  that it is there; going on with uploads gets them done.
- tokens: whatever refreshes meet, the client and its caller's store hold a refresh token the
  server takes; a request that nothing disturbs is served.

## 2. Modules

| module | models | source |
|---|---|---|
| `Download` | abstract: what `Do` promises, as a sequential program | |
| `ChunkDownload` | the concurrent downloader with Shutdown and Cancel | `internal/chunk_download.go`, `internal/chan.go` |
| `ChunkDownloadProofs` | its theorems | |
| `MCChunkDownload` | instances for TLC | |
| `ChunkRange` | `CalRange` and `addRange` as functions | `internal/chunk_download.go` |
| `ChunkResume` | interrupted runs over output and temp files, using `ChunkRange` | `BaseDownloadFile`, `mergeFile`, `handleTask` |
| `ChunkResumeProofs`, `MCChunkResume` | its theorems, instances | |
| `Cache` | the directory cache as `List` and the changing operations use it | `pan/cache.go`, `driver/quark/driver.go` |
| `CacheProofs`, `MCCache` | its theorems, instances | |
| `RemoteDrive` | a server's tree, PanObjs, the client's listings, what requests do | `pan/cache.go`, `pan/item.go`; server: external |
| `DriveListing` | `List` of the six drivers, `GetPanObj`, `CollectItemIds` | `pan/driver.go`, `driver/*/` |
| `DriveOps` | one operation in flight: resolve, request, invalidate, return; common parts of Mkdir | `driver/*/driver.go` |
| `QuarkDirs`, `BaiduDirs`, `AliDirs`, `CloudreveDirs`, `ThunderDirs` | `ObjRename`, `Move`, `Delete`, `Mkdir` of each driver (`AliDirs`: aliyundrive and aliyundrive_open) | `driver/*/driver.go`, `methods.go` |
| `Dirs`, `MCDirs` | all of them with `BaseBatchRename`, other goroutines, other devices; instances | `pan/driver.go` |
| `DirsProofs`, `DirsEffects` | theorems about `Dirs` and the modules above it: types and listings; what renamings, deletions, moves and Mkdir do to the tree | |
| `Upload` | abstract: what `UploadFile` promises | |
| `UploadReader` | `ProgressReader` | `pan/driver.go` |
| `UploadOps` | one `UploadFile` in flight, the server's sessions, retries, cancellation | `driver/*/driver.go` |
| `QuarkUpload`, `BaiduUpload`, `AliUpload`, `CloudreveUpload`, `ThunderUpload` | `UploadFile` of each driver | `driver/*/driver.go`, `methods.go` |
| `Uploads`, `MCUploads` | uploads of files and of a directory (`BaseUploadPath`), faults; implements `Upload`; instances | `pan/driver.go` |
| `UploadLemmas`, `UploadsProofs` | theorems about `Uploads`: lemmas; the drivers' steps, the walk and the theorems | |
| `Tokens` | requests, token refresh, login of each driver | `driver/*/methods.go` |
| `Clients`, `MCClients` | Init, registry, requests of several goroutines, timer, Close; instances | `enter.go`, `pan/op.go`, `driver/*/driver.go` |
| `ClientsProofs` | theorems about `Clients` and `Tokens` | |

### ChunkDownload
One `Do` call. Each goroutine has a program counter: `dpc` (Do), `wpc[w]` (workers), `kpc`
(calTask), `mpc` (mergeFile). Goroutines that only wait to send are not processes of their
own but places of what they send: `place[i] = "resend"` or `"report"` is a `retry` goroutine
of task i, `i \in notify` a goroutine of `completeTask`. A task's object is in one `place`
at a time; `taskMap` is `pd.taskMap`. All channels are unbuffered in the code, so a send and
its receive are one action of two parties: `SendTask(w)`, `ResendTask(w)`, `PopNotify(i)`,
and the `...Report` actions, which are the receive in `Do`'s select (`DoReturn`). `select`
statements with several ready cases are the disjunction of their actions. `BeginTask`
contains `handleTask` up to the request, `GetOk`/`GetFail` the request, `CompleteTask` and
`LeaveTask` the rest; the request itself is where time passes, so temp files are "partial"
between. `CloseWg` is the goroutine that waits for `pd.wg`. `MayFail` selects the operations
that may fail. Left out: progress reporting, logging, `runningMap` (written, never read).

The ranges are 0..N-1, `CalRanges` choosing any set of them as completed by an earlier run;
N = 0 (no range at all) is allowed by the proofs and is the hang listed in the hazards.

### ChunkRange, ChunkResume
`AddRange` gives the rounds of the loop in closed form (`Cut`): round i begins i chunks after
the first. `CalRange` is a recursive function of the byte it has got to, which takes up
(`Take`) the usable temp file that begins there, if there is one: the code sorts the files by
their first byte and goes over them.

Byte j of the remote file is the number j, so the output file shows what was merged. A temp
file is the range in its name and its size; `Usable` is the test with which CalRange keeps or
removes it. `Begin(c)` is one call of `BaseDownloadFile` with chunk size c: the existing file
of the right size is skipped (`Skip`) or removed and downloaded again (OverCover), a file of
another size is taken as a beginning. `FetchWhole` and `FetchPart` are requests that arrive
whole or break off. `Copy` and `RemoveTemp` are the two halves of a round of mergeFile.
`Crash` may hit anywhere; `torn` remembers that one hit between or inside those two halves.

### Cache
One directory. A listing is the version of the remote directory it shows. `GetLoad` and
`GetHit`/`GetExpired` are the two steps of `Get` (load, then look at the time, then delete by
key); `Join`, `GetLoad` again, `Load`, `SetEntry`, `End` are `GetOrLoad` with the group's
function; singleflight is modelled from its use: one function at a time, all callers get its
result or error. `Expire` is the passing of `expiresAt`; an entry loaded unexpired may also
expire before the look at the time. The clean-up goroutine has the same two steps. `Change`
and `Invalidate` are any operation that changes the directory and then calls `Del`; a failed
request returns without it. `ChangeElsewhere` is another device. `reload`, `settled`, `shown`,
`overlap`, `due` and `floor` record what callers know and restrict nothing.

### RemoteDrive, DriveListing, DriveOps, the drivers' Dirs, Dirs
A path is the sequence of its components; a PanObj is what a listing handed out, or a path
alone, as `enter_test.go:41` makes one. The server is a tree with unique names. `cache` maps
the key a driver files a listing under (an id; for baidu a path, where one directory can have
two keys) to PanObjs. An operation is a sequence of steps between which other goroutines list
and other devices change things: a look through the listings (`Resolve`: the
objects are `Resolved` or collected, then the driver's operator, e.g. `QuarkMove`, says what
to send and which listings to delete), a `Request` (quark: a task of the server,
`TaskSubmit`, `TaskRuns`, `checkTaskSuccess`), `Finish` with the `Del`s, `Return`. Mkdir has
steps of its own in each driver, because each goes about it differently; Move without an id
for its target runs Mkdir first. `BatchRename` keeps the recursion as a stack of listings.

What the listings in the cache may lack is said by two histories. `due` are the listings that
the operation in flight has yet to delete. `Due` reads them off the server's tree, not off the
drivers' `Del` calls: the directory the server has an object in before the request, the
directory it moves it to, the directory a Mkdir began at, each by the key `List` files it
under. A listing that is due must have gone by the time the operation returns, with nil or
with an error; otherwise ListingsCurrent is violated. Where the drivers are known not to
delete it, the exception has a name: `Slips` (they delete nothing), `HomeKnown` (what the object
says of its directory is not its directory), `TargetKnown` (the same of a Move's target) and
`Skips` (error returns before the `Del`s, although earlier requests were answered). Each of them
is code that leaves listings stale until the TTL ends, and is listed in section 3 under "Seen
while modelling". `owed` are the listings that these, lost answers, other devices, and the
deletion or renaming of a directory above leave stale.

MkdirFinds, ObjectsEffective (RenameEffective and DeleteEffective), MoveEffective and
BatchRenamesAll speak of operations that are `clean`: nobody interfered, and when they began the
listings were right, that is nothing was owed and every
object in them had the Path of the directory it is in (`Located`). The second part is needed.
ListingsCurrent is about ids and names; the objects in listings below a directory that is
renamed or moved keep their old Paths, and no `Del` of the code reaches these listings.

Assumed: a server keeps names unique (`check_name_mode: "ignore"` of aliyundrive_open would
not), the pages of a directory are one answer, names have no dots (Mkdir of quark, thunder
and cloudreve refuses a path with an extension), ".." is refused. `MkdirReq.Parent` and
aliyundrive_open's look at the root's children in Mkdir are left out. A task of quark that
the server cannot carry out is reported done, without effect.

### UploadReader, UploadOps, the drivers' Upload, Uploads
The bytes of a file are the numbers 1..Size, so the server's file shows what arrived and in
which order. `rd` is the ProgressReader; `ReadBody` is the transport reading any number of
bytes from it, and an attempt may fail after any of them. `Again` is the next attempt or the
end; `PutSection` the attempts of baidu and aliyundrive, which send sections of the file. A
request may be refused, or served with the answer lost. `cc` is what cloudreve keeps in the
directory cache (session, chunk, error count), any entry of which may expire; sessions end at
the server, and one that cloudreve gives up stays open if the DELETE, whose error is ignored, fails;
OneDrive takes a chunk only where the last one ended, a cloudreve server also
earlier ones, after which it forgets what it had. `unseen` remembers refusals the client took
for success. The walk of `BaseUploadPath` carries the request's `Resumable` and `OnlyFast`
(cloudreve, which has no hash
to offer, refuses the latter, `UploadPathRefused`) and has `WalkNext` and `WalkUploaded` as its steps;
`Asking` says which requests end the call when they fail. `Fairness` includes a caller that
uploads the directory again and again, as `Resumable` and `SkipFileErr` are for.

Left out: two uploads at once, quark's "finish" ETag, hash states, progress; a failed
attempt's transport is taken to have stopped reading (net/http may go on for a moment); the
listing that shows an existing target may be stale in either direction.

### Tokens, Clients
A token is the number of the refresh that made it. The server takes a refresh token once
(`srv.live`), a login makes a session of its own; `Expire` ends the access tokens given so
far. Each goroutine's `call` goes through send, answer, refresh, exchange, the two
assignments, NotifyChange, send: between any two of these another goroutine of the client or
aliyundrive's timer (a call of kind "cron") may move. `lone` marks calls that neither a fault
nor another refresh has touched. thunder adds login with or without captcha, device errors
belong to aliyundrive, quark and cloudreve have cookies only. Clients are made one after
another from what OnChange last got (`saved`), the next after the last is closed and quiet:
clients at the same time take each other's token. OnChange takes effect at once.

## 3. Runs

| run | module | checks | expected |
|---|---|---|---|
| `chunk_download` | MCChunkDownload | TypeOK, InOrder, NilMeansComplete, OneHolder, ThreadsBounded, CleanAlone, ImplementsDownload, DoReturns, ShutdownEnds, NothingLeaks | pass |
| `chunk_cancel` | MCChunkDownload | CancelAborts | violated |
| `chunk_nil_file` | MCChunkDownload | NilMeansFile | violated |
| `resume` | MCChunkResume | TypeOK, PlanIsExact, DoneIsWhole, FilesDisjoint, Finishes | pass |
| `resume_crash` | MCChunkResume | OutputIsPrefix | violated |
| `resume_single_byte` | MCChunkResume | DoneIsWhole | violated |
| `cache` | MCCache | TypeOK, OneLoad, NeverBackwards, ListsAreFresh, CallsReturn, EventuallyCurrent | pass |
| `cache_reload` | MCCache | ReloadRefreshes | violated |
| `dirs` | MCDirs | TypeOK, ListingsCurrent, MkdirFinds, ObjectsEffective, MoveEffective, BatchRenamesAll, OpReturns | pass |
| `uploads` | MCUploads | TypeOK, PartsInPlace, ImplementsUpload, PathComplete, CallsReturn, Recovers | pass |
| `upload_unseen` | MCUploads | UploadedIsThere | violated |
| `clients` | MCClients | TypeOK, SessionKept, SavedIsCurrent, LoneCallServed, CallsReturn, TimerStops | pass |

Bounds and why they are enough:
- `chunk_download`: two workers, two chunks, one retry, a semaphore of one. Chunks can
  finish out of order and be notified out of order, a worker waits for the semaphore while
  another is in a request, an error is reported while another is waiting, a retry competes
  with a first send. Every operation may fail, Shutdown and Cancel may come at any step.
  About 200 000 states. The safety properties are proved for every number of workers,
  chunks and retries, so these bounds matter for the liveness properties only.
- `resume`: a file of 8 bytes, chunk sizes 2 and 4, two crashes. Two crashes are needed for
  temp files of two earlier runs; the sizes make kept files of one chunk size lie inside and
  across gaps cut with the other. All sizes are even, and the file has no last range of one
  byte; the odd case is `resume_single_byte`.
- `cache`: two clients, two changes. One client loads while the other reloads, changes,
  joins or finds an expired entry. NeverBackwards and OneLoad are proved for any number.
- `dirs`: a directory `/a` with a file `/a/b`, names a and b, all six drivers, every pair of
  operations or foreign changes, up to two objects each, given as listings show them or by
  path. Two operations let the second work with listings the first left; the two names let
  renames and moves collide, and `/b/a` needs Mkdir to make two directories; ids up to 4 are
  as many as two operations can make. One retry of quark's Mkdir. 590 000 states.
  Histories of three operations in a tree with `/a/a` were checked once for quark, thunder
  and aliyundrive as a whole, for cloudreve and baidu in part (five million states).
  TypeOK and ListingsCurrent are proved for any tree and any number of operations.
- `uploads`: a file of three bytes, which is two parts or three, and one of one byte in a
  directory below; part size 2 or what the server says (1, 2); two attempts a part; two faults
  or odd calls. Two faults are a failed attempt of a failed call, or a cut-off upload whose
  session then ends. Each fault costs one of `MaxOdd`, so that liveness is about what comes
  after. All drivers, both kinds of cloudreve storage. 608 000 states.
- `clients`: two clients, two callers, two requests, two faults, expiries or ticks. Requests
  and the timer refresh at the same time, the second client starts with what the first one
  left. Idle goroutines are interchangeable. 494 000 states.

Deadlock checking is off where the system does stop: a downloader that has returned, a
resumed download in which a torn file left a run without ranges, waiting for ever; the
bounds on operations and requests reached.

Fairness:
- ChunkDownload: weak fairness of each goroutine (Go schedules a goroutine that can run) and
  of the request (it has an end). Of a `select` no particular case is promised. Nobody has to
  call Shutdown or Cancel. DoReturns is conditional on the client's context, because of the
  finding below.
- ChunkResume: runs are started again and requests succeed in the end; the bound on retries
  is ChunkDownload's.
- Cache: a call that was made goes on, requests end, time passes. The clean-up goroutine has
  no fairness: EventuallyCurrent holds also after `Stop`.
- Dirs: the operation goes on, and quark's server carries out the tasks it took.
- Uploads: the call and the walk go on, the caller repeats the walk.
- Clients: a call goes on; a timer whose context is done gets to see it. Expiries, faults,
  ticks and Close are not promised.

Every property of a passing run has a mutant, a definition commented as a deviation, in a
section of its own or before the definition it deviates from: a slip of the code with which TLC must
find the property violated.

### What the code does not do
- `chunk_cancel`: `Driver.Cancel` ends the workers, but calTask, popTask and Do's select do
  not watch the client's context; a Do with tasks left to send never returns.
- `chunk_nil_file`: Shutdown between two chunks ends mergeFile without an error and Do
  returns nil for an incomplete file; `BaseDownloadFile` then calls the download callback.
- `resume_crash`: a process that ends after the append and before the removal of a temp file
  leaves a chunk that the next run appends again.
- `resume_single_byte`: addRange skips a range of one byte.
- `cache_reload`: Del and GetOrLoad is not a forced reload when an older load is in flight:
  the call may join it, or find what it stored after the Del.
- `upload_unseen`: cloudreve's funReturn does not look at the code of an answer with HTTP
  status 200, so a refused oneDriveCallback counts as success and UploadFile returns nil (and
  removes the local file, with SuccessDel) for a file the server does not have.

Seen while modelling, and not runs:
- paths: after a directory is renamed, the Paths in listings below it are stale, and Mkdir
  there asks for directories named ".."; once another device has made directories at
  the old path, cloudreve, which asks by Path and keeps by id (`cloudreve/driver.go:109`),
  shows their content as that of the renamed ones: with the listing of `/a` in the cache,
  `/a` renamed to `/b` and `/a/b` made again elsewhere, Delete of `/b/b/a` returns nil and
  deletes nothing; aliyundrive's Mkdir returns an object whose Path
  has its own name in it; cloudreve files listings of directories given by path alone under one key;
  ObjRename of what
  aliyundrive_open's Mkdir returned panics (no Parent); a server that refuses createDirectory
  with status 200 keeps cloudreve's Mkdir calling itself (`Deaf` in OpReturns).
- listings that stay stale until the TTL ends, though the request was answered (the exceptions
  of `Due`). By a wrong key: thunder's ObjRename of an entry of the root deletes the key ""
  (`thunder_browser/driver.go:209`), List files the root under "0" (142-152); baidu takes the path
  of an object given by its path alone for its directory (`baidu_netdisk/driver.go:156,212,233`),
  and for the target of a Move "p" is not "p/" (221); what quark, aliyundrive and cloudreve listed
  through a directory given by path alone has an empty `Parent.Id`. By no deletion: quark's and
  thunder's Move (CollectItemIds, not for deletion, names only directories that are moved themselves),
  cloudreve's Move of objects with an id; Delete of a directory by quark, thunder and cloudreve,
  which deletes its own listing, not its parent's, and of a file given by path by quark and thunder;
  baidu's Mkdir; every Mkdir of several
  directories, of which only the first parent's listing goes (quark's deletion is commented as
  making the
  new directory visible to a later List, `quark/driver.go:281`).
- error returns before the deletion of what earlier requests changed (`Skips`): Move and Delete of
  aliyundrive and aliyundrive_open, when a later object is refused or not found
  (`aliyundrive/driver.go:277-346`); a Mkdir that fails on its way; quark's Move and Delete when the
  task has been taken and asking for its state fails.
- thunder's Move sends the root as "0" (`thunder_browser/methods.go:290`), where makeDir and getFiles
  send "": the model's server takes it or refuses it.
- uploads: RapidUpload of aliyundrive never recognises "PreHashMatched" (requestInner returns
  no body with an error), so a file whose hash begins like a known one cannot be uploaded
  (`Hopeless`); baidu's uploadSlice takes an answer that is not JSON for success; cloudreve's
  GetUploaded counts a chunk the server refused, so the next call skips it and fails until
  the error count gives the session up; that count never goes back to 0; a session's
  ChunkSize of 0 divides by zero in NewProcessReader; readers are not closed on errors;
  without SkipFileErr, UploadPath ends at a file that is there already; BaseUploadPath sets
  RemoteNameTransfer from RemotePathTransfer (`pan/driver.go:123,173`).
- tokens: of two refreshes at once one fails its request; a lost answer to a refresh, or a
  crash before OnChange has saved it, loses the session; three attempts of baidu include
  network errors; thunder's request calls itself as long as tokens keep expiring.
- clients: StoreDriver does not close the client it replaces; a failed Init leaves the cache
  goroutine; Close does not end requests under way.

Shutdown may return between Do's
check and its registration, and while the mergeFile of a failed Do still writes; chunk size 1
does not end; a Do whose file has no ranges waits for ever; an error leaks the goroutines
that wait to report the next one.

## 4. Proofs

Everything below holds for all values of the constants that the named assumption of the
module allows, where TLC has one small instance. The assumptions only give types: sets of
processes are finite, bounds are naturals, sizes are positive. Each proof states a
strengthening of what it is after, shows that the initial states satisfy it and that every
action keeps it, and draws the theorems from it; the invariants were checked with TLC before
they were proved.

| module | theorem | states |
|---|---|---|
| `ChunkDownloadProofs` | TypeCorrect, OutputInOrder, NilOnlyWhenComplete, TasksHaveOneHolder, SemaphoreBounds, CleanUpIsAlone, DownloaderImplementsPromise | TypeOK, InOrder, NilMeansComplete, OneHolder, ThreadsBounded, CleanAlone, ImplementsDownload |
| `ChunkResumeProofs` | TypeCorrect, NoByteTwice, PlansAreExact, SuccessIsWhole | TypeOK, FilesDisjoint, PlanIsExact, DoneIsWhole |
| `CacheProofs` | TypeCorrect, LoadsDoNotOverlap, ListingsNeverGoBackwards, ListingsAreFresh | TypeOK, OneLoad, NeverBackwards, ListsAreFresh |
| `ClientsProofs` | TypeCorrect, SessionsAreKept, SavedIsAlwaysCurrent, LoneCallsAreServed | TypeOK, SessionKept, SavedIsCurrent, LoneCallServed |
| `DirsProofs` | TypeCorrect, ListingsStayCurrent | TypeOK, ListingsCurrent |
| `DirsEffects` | ObjectsTreated (RenamesEffectively, DeletesEffectively) | ObjectsEffective |
| `DirsEffects` | MkdirFindsPath | MkdirFinds |
| `DirsEffects` | MovesEffectively | MoveEffective |
| `UploadsProofs` | TypeCorrect, PartsStayInPlace, PathsComplete, Refinement | TypeOK, PartsInPlace, PathComplete, ImplementsUpload |

### ChunkDownload
`ChunkDownloadProofs` assumes only `Parameters` (workers are a finite set, bounds are
naturals, the semaphore has a place, "no task" and the garbage piece are no chunks). The
properties are not inductive; `IInv` adds
- *Counts*: `sem` and `wg` are the numbers of workers in a task (and mergeFile), from which
  the counters never become negative and wg = 0 means that mergeFile has ended;
- *Tasks*: where each task is, in terms of what calTask has sent: a worker's hand, a retry
  goroutine, the map or a notification, merged, or lost;
- *Merged*: the output is the first `mi` chunks, and what is merged was done;
- *Phases*: how far Do, calTask and mergeFile can be relative to each other; in particular
  mergeFile has left without Shutdown and without an error only when the output is whole.

One lemma per goroutine shows that its actions keep `IInv`. From it follow the six
invariants of the run and the refinement: `StepsSeen` says that a step
leaves the abstract state alone, reports, ends, appends or stops, and each of these is a
step of `Download`.

### ChunkResume
`ResumeParameters` leaves the size of the remote file, the set of chunk sizes (2 or more)
and the number of crashes open. First come facts about the two pure algorithms, for all
arguments the program gives them:
- `RoundsAre`, `AddRangeLists`: what addRange appends begins and ends where it was told to,
  in order; `AddRangeTiles`: nothing is left out between joints;
- `PlanIs`: for any set of temp files that share no byte, CalRange returns ranges one after
  the other, every usable temp file among them, those marked completed being such files;
- `PlanTiles`: if all of them lie after the output file, between joints, the ranges cover
  every byte from the end of the output file to the end of the remote file once;
- `BytesOfIs`: merging such a list adds exactly those bytes.

*Joints* are the places where a chunk may end: the multiples of a number d that divides all
chunk sizes, and the end of the file. `RInv` says that a run's temp files are named after
ranges it has yet to merge, so that a request's new file shares no byte with another, and
that a range marked completed has its file; from it follow TypeOK and FilesDisjoint without
any condition. `SInv(d)` says that the output file is a beginning of the remote file that
ends at a joint, and that what is left to merge begins there.

PlanIsExact and DoneIsWhole are proved under `NoSingleByte`: there is such a d and the remote
file is not one byte longer than a multiple of it. Without it they are false, which is what
`resume_single_byte` shows. With one chunk size c the condition is Total % c # 1; with several
it also holds when these and the file are of even size, as in run `resume`.

### Cache
`CacheProofs` assumes `CacheParameters`. Its invariant `Ordered` says that no version that
a listing has returned or holds in its hands (`Out`) is newer than one that can still be
obtained from the cache or from the load in flight (`Source`). It is kept because a single
client at a time stores entries and read the directory after everything stored before;
`Flown` says that. `NeverBackwards` follows with `Floors`.

ListsAreFresh needs a second invariant, `Fresh`. As long as no change has run together with a
listing of its directory (`Apart`), an entry shows every change whose operation has returned,
and one that was stored since a listing looked in vain, or since the `Del` of a reload, shows
every change there is (`NoOld`); `Hands` says the same of what a listing holds. The second
part of `NoOld` is for the second look into the cache, inside the load: also a reload returns
what is found there.

### Dirs
`DriveParameters` and `DirsParameters` leave open which drivers, names, paths, what `Func` is,
the tree to begin with (any in which nodes come after their directories and siblings differ in
name), and every bound. `IInv` has, next to the types,
- *Places*: what an operation has at each of its places, e.g. that one which resolves has an
  object left to resolve, that a directory in the recursion of BatchRename, but the first, was
  listed, and that a rename is what BatchRename sends;
- *Dues*: from its request on, an operation's keys to delete cover what will be due when the
  request is served (`Pays`), and afterwards what is `due`; Mkdir owes the listing of the
  directory it began at. Keys no listing can have (`Void`: ids of "no object", "no parent") are
  the exception: CollectItemIds passes over them;
- ListingsCurrent itself.

Why it holds: what looks through the listings only adds listings that show the tree (`Adds`;
what cloudreve misfiles it owes), proved for `GetOrLoad`, `Look`, `GetPanObj`, `List`,
`CollectItemIds` and `Sources` in that order; a step changes the tree or the listings, not both
(`StaysCurrent`); and each of the drivers' operators says to delete what serving its request makes
due (`Covers`:
`Renames`, `Moves`, `Deletes`, and one lemma for each driver's Mkdir). `PaysOn` keeps this while
the request is under way, `DueIs` is where the drivers' keys meet the server's tree: what gets
due has one of these keys. That no name is empty is used: with an empty name a path and the same
path with a slash
could be two directories.

The types include the shape of the tree: it hangs from the root (`Hangs`: among any nodes there
is a topmost one, the form of induction along the tree these proofs use) and siblings differ
in name (`Distinct`), which Valid requests keep. `PathIs` gives `PathOf` its equation from the
first, and `PathsDiffer` says with both that two nodes have two paths.

`GetPanObj` and the like are recursive functions over a path or a list; lemma `Recursion` shows
by the least counterexample that such a function has the values its equation says, and
`OneCourse` that a fact holds at the end of the walk if every step keeps it.

`DirsEffects` proves ObjectsEffective, for ObjRename and for Delete: what such an operation did,
over all
its requests, is what the caller asked for. Neither can be seen from the last step, so `EInv`
says what holds while one runs undisturbed (`Effect`). Its objects are those it has dealt with,
D, and those still to do, and the tree is the `Goal` of D: the tree it began with, less D
or with D renamed. Before its first request D is empty and the listings it looks through
are right (`Right`: they show the tree, and the Paths in them are where they are), which
ListingsCurrent and `Located` give at the beginning and which other goroutines' listing
keeps (`ListKeeps`); after the first request only aliyundrive's Delete looks up again, and then all
objects have ids. With the request or the task in flight the tree would become the Goal. The
steps that matter are the looks: in right listings `GetPanObj` ends at the node with the path
or finds that there is none (`Finds`, `Nowhere`), and what `CollectItemIds` and `Sources` collect
are exactly
the nodes the caller means that exist (`CollectsAll`). Removals add up (`RemovedTwice`), so it
does not matter which objects are below others. `ReturnsDone` then says that only `Finish` with
nothing left to do returns nil, with the tree the Goal of all objects.

For MkdirFinds the same module has `MInv`, of a Mkdir that runs undisturbed. Its difficulty is
that Mkdir changes the tree between two looks at the listings: cloudreve and thunder call
themselves after what they have made, quark looks for the directory it could not make. `Making`
therefore says three things. `Extends`: the tree is the one it began with and directories on
the path. `Under(k)`: it stands at the node whose path is the first k components, and as
long as it goes on component k + 1 is not there. `Unseen(H)`: the directories H it has made
hang from the directory it found (`Chain`), and no listing is one of H or shows one; but
for that the listings are right, and only that of the directory it found, which it deletes
before it looks again, can lack something (`Partly`). Other goroutines that list directories
meanwhile cannot change this: they list what listings show (`ListPartly`). With right listings
GetPanObj finds the deepest object on the path (`Nearest`), so what
is made next is not there (`NotThere`), and the directory made with the last component is the
one at the path (`MadeAtPath`). baidu's server makes the whole path in one request:
`MadeAllOnWay` says so of `MadeAll`.

MoveEffective joins the two, in `VInv`. A Move that makes its target is a Mkdir until it has it
(`Arrived`: what is at the path is the target, which has an id, and the listings are right
again), and `Making` says what that has done to the tree. From then on `Shifts` says of it what
`Effect` says of a Delete: its objects are those dealt with, D, and those to do, and once the
request or task in flight is served the tree is the one it began with, D hung below the
target `Aim`, and directories on the path (`Shifted`). Two things are more difficult than
with Delete. Paths do not stay what they were: aliyundrive and cloudreve send several requests, and
what a
path names could change between them. `Ready` says why it does not: before the first request
nothing has moved, so a path names what the caller means, if anything (`SoughtIs`); after it all
objects have
ids, since an object given by its path is the only one of its Move (`Alone`). And cloudreve's server
finds the target by its path in each request, although the requests before have moved directories: a
valid request does not move a directory into itself, so the target and what is above it, the directories
made among it (`InsideBelow`), are not inside of what is moved and keep their paths (`MovedPaths`,
`MoveServed`). `MoveSends` says for each driver that what it sends names the objects meant, and
`MovedAll` that a Move that returns nil has dealt with all of them.

### Clients
`IInv` joins the types and shapes of calls with four facts. `One`: there is one client in use
at a time, and nobody but its Init works for it during that. `Hands`: a call that is
about to assign a new refresh token is the only one that has it. `Kept`: unless the session
was lost, a client in use has a refresh token that the server takes, or one of its calls is
about to assign one. `Saved`: so has the caller, or he is about to be told. SessionKept and
SavedIsCurrent follow. For LoneCallServed, `LoneInv` says what a call relies on that is left
alone: calls of the same client meanwhile do not refresh or log in (`Apart`), and its own
token is good wherever its place has no other attempt left (`Own`). The proof goes by the
parts of a request (what an answer, an error, an exchange of tokens, an assignment leads
to), each once for all drivers.

### Uploads
`UploadLemmas` has the types, the invariant and the lemmas about what the
operators compute: sections of a file (`SegsJoin`, `SliceIs`: slices follow one another and
end with the file), `JoinedIs` (parts 1 to n joined are the first bytes of the file) and
the ProgressReader (`NextChunkReads`, `ReadLeads`, `ReadReads`: what was read within a chunk is
the section of the file from the chunk's beginning to where the reader stands).
`UploadsProofs` has one lemma for each action of the six drivers: it keeps the invariant,
and it moves the call, ends it with an error, or ends it with success and the file whole
(or refused unseen); each of the three is a step or a stutter of `Upload`. It goes on with
the environment and the walk of `BaseUploadPath`, and has the theorems.

The invariant: files of the server are missing or whole (`WholeOrNone`); the parts of a session
are sections of the file, each in its place (`InPlace`), which needs that a session outlives
its call only with cloudreve (`OneSession`); and for each driver what a place of a call says:
which parts are there already, and where the reader stands relative to the part that is being
sent (`QuarkAt`, `AliAt`, `CloudAt`). `WalkInv` relates the walk to the files that it found and
has left.

### Only model-checked
- Liveness (DoReturns, ShutdownEnds, NothingLeaks, Finishes, CallsReturn, EventuallyCurrent,
  OpReturns, Recovers, TimerStops): fairness and ENABLED are beyond the prover.
- BatchRenamesAll of `Dirs`: BatchRename renames while it works through the listings of a
  recursion of any depth, each taken of a different tree, so its invariant would have to say of every
  frame of the recursion which names are old and which are new. ListingsCurrent, which it rests on,
  is proved.

Induction over data is possible only in the form of a least counterexample: lemma `Least`
(from the well-foundedness of the naturals) and recursive functions written with `CHOOSE`
stand behind `JoinedIs`, `CourseIs`, `BytesOfIs` and `OneCourse`.

## 5. Not modelled, and the plan

Not modelled:
- `BaseDownloadPath`: the walk of `BaseUploadPath` in the other direction, over `List` and
  `DownloadFile`, which have their models; nothing is concurrent in it.
- shares, offline downloads, direct links, `Disk`: single requests whose answers are handed
  on; `BaseProxyFile`: an HTTP handler with no state.
- registry by type and default ids: maps under a mutex, one access each.
- several clients of one account at once, several uploads at once (cloudreve's
  fileUploadDeleteAllUploadSession ends the sessions of all of them).
- hashes, formatting, signing (`internal/gcid.go`, `util.go`, `aliyundrive/crypto.go`), default
  values by tag (`internal/config.go`), JSON types: stateless, and tests reach them.
- in the resumption of downloads: a remote file that is replaced between runs, a server that
  ignores Range.
