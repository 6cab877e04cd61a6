# A verification project for GRPM

GRPM (`src/`) is a Go reimplementation of Gentoo's package manager: a command
line tool (`grpm install`, `emerge`, `uninstall`, `sync`, ...) and a daemon
that serves the same operations over gRPC. This directory holds TLA+ modules
that model the parts of it where several goroutines, several commands or a kill
between two steps decide whether the program is correct, and the algorithms
whose many cases do; the TLC configurations that check them on small
instances; and TLAPS proofs for every size.

All paths below are relative to `src/`; line numbers are those of the
commit in `src/`. `PROJECT.json` maps every definition to the lines it models.

Contents: [1 The system](#1-the-system) - [2 The modules](#2-the-modules) -
[3 Runs](#3-runs-and-what-they-show) - [4 Fairness](#4-fairness) -
[5 Proofs](#5-proofs) - [6 Deviations found](#6-where-the-code-does-not-do-what-it-says) -
[7 Not modelled](#7-what-is-not-modelled-and-why) - [8 Plan](#8-plan)

## 1 The system

| Component | State | Operations | What is hard |
|---|---|---|---|
| Parallel build scheduler `internal/daemon/scheduler.go` | task graph, status per task, channels `readyQueue` and `results`, `hasFailed`, contexts | `AddTask`, `AddDependency`, `Start`, `Stop`; goroutines `worker`, `collectResults` | three kinds of goroutines write the same statuses; bounded channels; failure, cancellation and shutdown; every task must send one result |
| Job queue `internal/daemon/job.go` | `jobs` map, channel, status and context per job | `Submit`, `CancelJob`, `Stop`, `worker`/`executeJob` | check-then-act in `Submit` and in `executeJob`; cancellation racing start and end |
| Conflict detector `internal/daemon/conflict_detector.go` | none | `DetectConflicts` on a snapshot of the jobs | the snapshot is stale when the answer is used; statuses read twice |
| gRPC service `internal/daemon/service.go`, `internal/application/package_service.go` | one progress channel and one error channel per RPC | `InstallPackage` (streams), `CancelJob`, queries | handler, worker and installation goroutine share two channels; a client that leaves or cancels |
| Daemon life cycle `internal/daemon/daemon.go` | listeners, ready flag, PID file | `Start`, `Stop` with time-outs | order and time-outs of the shutdown (not modelled) |
| Installer, merge, unmerge `internal/install` | files below the root, backups, `._cfg` files | `Install`, `Uninstall`, `Merge`, `Unmerge` | an upgrade is many file operations; a kill or an I/O error between any two; several workers with one database |
| Collision detection, CONFIG_PROTECT `collision.go`, `protect.go` | none (reads file system and file index) | `Detect`, `ShouldProtect`, `GenerateProtectedName` | checked before and used after other workers ran |
| Hooks `install/hooks.go` | none | run external programs | only produce warnings |
| Package database and VarDB `internal/state` | packages, file index (memory); `/var/db/pkg` entries (disk) | `Add`, `Remove`, `WhoOwns`, `LoadInto`, `Write` | one index entry for a file with several owners; entry written in place |
| World file, sets, queries, snapshots `internal/state`, `internal/sets` | world file | read, edit, expand sets, plan an update; zfs/btrfs snapshots | two implementations of the sets; read-modify-write of one file |
| Dependency solver `internal/solver` | candidates, clauses | `Resolve` to SAT and back | what was explored decides which clauses there are; installed packages mixed with the tree |
| Solver post-processing `internal/solver` | graph | cycle detection, depclean, autounmask, slot collisions, ranking | graph algorithms on shared slices |
| Versions, atoms, constraints `internal/pkg` | none | parse, compare, match | many special cases |
| USE flags, REQUIRED_USE `internal/pkg` | flag sets | precedence, evaluation | nested operators |
| Distfile fetching `internal/fetch` | `.partial` files, mirror statistics | `Fetch` with resume and retry | a partial file of another run or mirror; server answers; kills |
| SRC_URI and Manifest `internal/repo/srcuri_parser.go`, `internal/distfile` | none | from the ebuild to the distfiles | fallbacks that must not lose a file |
| Repository caches `internal/repo/cache`, `internal/cache` | index, SQLite rows or LRU map, parsed packages | lookup, rebuild, invalidation, eviction | staleness, kills while rebuilding, two locks |
| Ebuild parsing `internal/repo`, `internal/metadata` | none | text to package | text |
| Synchronisation `internal/sync` | strategy, mirrors | `Sync` with fallback and retry | retry of what was half done, in the same tree |
| Native rsync client `internal/rsync` | wire protocol state, temporary files | generator and receiver goroutines | flow control between two goroutines |
| Binary packages `internal/binpkg` | archives, lists and index files of hosts | build, add, scan, clean, select | what was published must be found and readable |
| Ebuild phases `internal/cli/emerge.go`, `internal/ebuild/executor.go` | work directory, environment | phases in order, merge, cleanup | a directory that outlives failed and killed builds |
| Ebuild helpers, interpreter `internal/ebuild/helpers*.go` | destinations, options, the tree | about a hundred helpers, `nonfatal`, `die` | state kept between helpers; a write that fails |
| Eclasses `internal/eclass`, `internal/ebuild/eclass*.go` | cache; variables in four places | `inherit`, loops over ABIs and pythons, flag edits | five implementations of `inherit`; save and restore |
| Build tools, virtuals `internal/tools`, `internal/virtual` | tables | - | - |
| Configuration, masks, profiles `internal/config`, `mask`, `profile` | parsed files | stacking, acceptance | precedence of layers |
| Privilege, sandbox | - | system calls | operating system |
| Command line `internal/cli` | the machine | drives everything above | combinations of options; commands one after the other |
| Generated API `api/gen` | - | - | - |

How they interact. `grpm emerge` resolves, adds one task per package to a
`BuildScheduler` and one `AddDependency` per dependency, and calls `Start`;
its `BuildFunc` builds a package and calls `Installer.Install`, so that several
workers install at once with one `PackageDatabase`. `grpm install` and
`uninstall` call the installer directly. Every command loads the database from
the VarDB when it begins. In the daemon an RPC handler wraps the
application service in a closure, submits it as a job, and streams what the
closure sends on a channel while a queue worker runs it. `Submit` asks the
conflict detector, which looks at the jobs the queue already has.

`emerge` first turns every ebuild into distfiles (SRC_URI, Manifest) and
fetches them, then runs its phases, whose script calls helpers and eclasses, and
merges the image. Resolution sees packages through the repository caches, the
masks and the USE flags of the configuration; `sync` replaces the tree below all
of them. `depclean`, `update` and the sets read what earlier commands left in
VarDB and the world file.

What makes the parts correct:

* *Scheduler*: dependencies are built first; nothing is built twice; one result
  per task is counted; `Start` returns, and nil means that all was built; a
  failure in Continue mode does not stop independent packages.
* *Job queue and detector*: conflicting installations never overlap; accepted jobs
  end; a cancellation stays; stopping releases the workers.
* *RPC stream*: no send on a closed channel; the verdict the client hears is true;
  neither side blocks for good.
* *Installation*: what was reported as installed is found by later commands; files
  of other packages are not overwritten or removed; configuration that the administrator
  edited survives; the file index tells the truth.
* *Fetching*: nil means verified bytes; what is verified stays; no junk left by a
  mirror or a kill makes a file impossible to fetch.
* *Solver*: a plan meets all dependencies and no blockers; failure means that
  there is no answer; what the user asked for is preferred.
* *Synchronisation*: nil means the tree of one mirror; a file is never half
  replaced, nothing is deleted before all was received; it ends.
* *Builds*: what is merged comes from this build; dependencies come first; helpers
  put files where they were told; `die` ends the phase.
* *Caches*: what is served is what the tree has; an index is whole or invalid;
  eviction ends.
* *Algorithms*: they compute what the PMS, or the configuration, says.

## 2 The modules

| Module | Models | Checked by |
|---|---|---|
| `BuildScheduler`, `OrderedBuilds`, `KahnSort` | `internal/daemon/scheduler.go` | `sched_safety`, `sched_progress`, `algorithms` |
| `JobQueue`, `JobService` | `job.go`, `conflict_detector.go` | `jobs_queue` |
| `InstallStream` | `service.go`, `package_service.go` | `stream_any_client` |
| `PackageInstall` | `internal/install`, `internal/state` | `pkg_install` |
| `Fetch` | `internal/fetch` | `fetch_resume` |
| `Resolver` | `internal/solver` (`resolver.go`, `gophersat_adapter.go`, explanation) | `resolve` |
| `RsyncSync` | `internal/sync/rsync.go`, `internal/rsync` | `rsync_sync` |
| `EmergeBuild` | `internal/cli/emerge.go`, `internal/ebuild` (executor, phases) | `emerge_build` |
| `EbuildHelpers`, `BuildTree` | `internal/ebuild/helpers*.go`, `interpreter.go` | `ebuild_phase` |
| `MetadataCache` | `internal/cache`, `internal/repo/cache`, `cached_portage.go` | `metadata_cache` |
| `VersionCompare`, `SpecStrings` | `internal/pkg`, dependency strings | `algorithms` |
| `Policy` | configuration, masks, profiles, USE, sets | `algorithms` |
| `BinaryPackages` | `internal/binpkg` | `algorithms` |
| `SolverAids`, `Commands` | graph tools of `internal/solver`, depclean, commands of `internal/cli` | `algorithms` |
| `EclassInherit`, `EclassEnv` | `internal/eclass`, `internal/ebuild/eclass*.go` | `algorithms` |
| `Sources` | SRC_URI, Manifest, mirrors, `grpm fetch` | `algorithms` |

The `MC*` modules give TLC the graphs, trees, menus and instances it cannot read
from a `.cfg`; no `.cfg` replaces a definition. `*Proofs` hold the theorems
(section 5). `JobQueue` and `InstallStream`, `EmergeBuild` and `PackageInstall`,
`MetadataCache` and `Fetch` share a module of proofs, so the names of one of each
pair carry a prefix (`StreamInit`, `EmergeSpec`, `CacheInv`, ...).
Operators named `X_Y` that a comment calls a mutant are changed forms of `X`;
`PROJECT.json` pairs each with the property that must notice the change.

### BuildScheduler

The scheduler at the granularity of critical sections, channel operations and
atomic accesses. `main` is the control point of the goroutine inside `Start`,
`wpc`/`wtask` those of the workers, `cpc`/`ctask` that of `collectResults`.

| Code | Actions |
|---|---|
| `AddTask`, `AddDependency` | `AddTask`, `AddDependency` (the graph is built by the model, so all graphs are covered) |
| `Start` | `Start` or `StartCycle`, then `QueueReadyTask`/`SendReady` (`queueReadyTasks`, one turn of its loop each), `FinishStart`, `ReturnStart` |
| `worker`, `executeBuild` | `WorkerReceive`, `WorkerRefuse`, `WorkerAccept`, `BeginBuild`, `EndBuild`, `SendResult`, `WorkerExit` |
| `collectResults` | `CollectReceive`, `CollectFailure`/`CollectNoFailure`, `CollectCompleted`/`CollectNotCompleted`, `CollectEnd`, `CollectCanceled` |
| `cancelRemainingTasks` | `CancelRead`, `CancelWrite` (two critical sections), `CancelEnd` |
| `queueReadyDependents` | `QueueDependent` (its send does not block: a full queue drops the task), `QueueDependentsEnd` |
| `Stop`, the caller's context | `Stop`, `CancelCtx` |

`builds`, `succeeded`, `delivered` and `dropped` are history for the properties.
Loops over Go maps visit in any order. Statistics, times and buffers are left out.

`OrderedBuilds` is what the scheduler promises, without channels, statuses or
goroutines: lanes, packages, and a package only after what it needs.
`ImplementsPromise` maps a worker that has accepted a task to an occupied lane,
`succeeded` to `built` and `hasFailed` in Stop mode to `halted`; TLC checks it as
a property and `Refinement` proves it.

### KahnSort

`topologicalSort` as a fold of its two loops, `Dequeue` and `Relax`, on every
multigraph and every first order of the queue.
`BuildScheduler` only needs to know when it fails (`topologicalSortFails`), which
is what `SortsOrFindsCycle` checks and `SortsOrFails` proves for the algorithm, and
`StartRefusesCycles` carries over.

### JobQueue

The queue and the conflict detector. `Submit` of each job is a sequence of
steps: `SubmitSnapshot`, `FilterRunning`/`FilterPending` (the two `GetStatus`
calls of `filterActiveJobs`), `SubmitConflict` or `SubmitStore`, `SubmitEnqueue` or
`SubmitFull`. `executeJob` is `WorkerSkip`/`WorkerCheck`, `WorkerStart`,
`WorkerFinish`; `CancelJob` is `CancelContext`, `CancelStatus`; `Stop` is
`StopBegin`, then `StopEnd` or `StopTimeout`. What a job runs is the closure of
`InstallPackage`, whose installation goroutine (`InstallEnd`) goes on when the
closure returns early after a cancellation. Stripping versions from names is
abstracted to the constant `PackageOf`, resolution to `Affects` and, when it may
fail, `ResolveMayFail`. `steady` is history.

`JobService` is what the queue promises, without channel, statuses or locks: accepted
jobs wait in order, a free server takes the first, ends it, and its outcome changes only
when a cancellation comes too late. `ServesJobs` maps the channel to `waiting`, what
the workers hold to `serving`, and the status of an accepted job that is in neither to
its `outcome`; TLC checks it as a property and `QueueServesJobs` proves it.

### InstallStream

One RPC: the application service (`AppProgress`, `AppClose`, `AppResult`), the
worker with the closure (`JobReceive`, `JobForward`, `JobCallback`,
`JobResult`, ...), the handler (`HandlerInitial`, `HandlerForward`,
`HandlerTick`), a client that may leave (`Disconnect`) and one that may cancel
(`CancelStreamContext`, `CancelStreamStatus`). The handler's end is three steps, as
in the code: `HandlerTick` reads the status, `HandlerClose` closes `progressChan`,
`HandlerVerdict` sends the last event. A worker that meets the closed channel panics,
and since nothing recovers, nothing in the daemon moves any more (`Alive`).
Every event is sent on `progressChan` twice, as in the code.

### PackageInstall

Commands, installer, merger, unmerger, database, VarDB. `BeginCommand` loads the
database from the VarDB (`LoadInto`); `EndCommand` ends the process and `Crash`
kills it, both lose everything in memory. Per worker:

| Code | Actions |
|---|---|
| `Installer.Install` | `FindInstalled`, `FindNone` |
| `Installer.Uninstall`, `Unmerger` | `UninstallHas`, `UninstallGet`, `RemoveFile`, `RemoveFromDB`, `DropVarDB` |
| `Merger` | `CheckFile`, `CheckEnd`, `CopyFile`, `CopyNoName`, `CopyFail`, `AddToDB` |
| `VarDBWriter.Write` | `TruncateContents`, `FillContents`, `WriteSlot` |
| any I/O error | `IOFail`, `CopyFail`, `DropVarDB` with `err` |

The administrator may edit a file between commands (`UserEdit`). A file's hash is
abstracted to its content. Computing it may fail: `CopyFile` then goes on and records
`NoHash`, whose line in CONTENTS `parseContentsLine` refuses (`Parsed`), and
`RemoveFile` goes on without the comparison and so without a backup; the history
variable `unhashed` has the names to which the last step did that. One step each: the
copy of a file, the writing of CONTENTS after its truncation, the removal of a VarDB
entry (a partly removed entry has lost CONTENTS or SLOT and counts as removed for the
loader). Directories, symlinks, hooks, dry runs and the lists of shared and protected
system paths are left out; prefix matching of CONFIG_PROTECT is the constant
`ConfigPaths`. Paths have no white space: `parseContentsLine` splits its line there, and
would read another path.

### Fetch

`FetchOneSkips`/`FetchOne` decide per file, `TryURI` takes the next of the URIs
(mirrors by score, ties in any order, then the sources), `GetExistingSize`, `ExecuteRequest`,
`OpenOutputFile`, `CopyBlock`/`CopyEOF`/`CopyFails`, `Rename`, `VerifyDownload`,
`RemoveCorrupt` are the steps of one attempt. A file is an inode, so that a
rename moves it under a worker that still writes. Until `ServersRecover` a
server answers anything: 200, 206, 416 or an error, the right bytes, an older file or
junk. `Crash` ends the process and keeps the disk. `Content` is a sequence of
blocks; the checksum accepts the published one only.

### Resolver

`LoadRoot`, `CollectDependencies` (the worklist of the recursion, with its
skips for installed packages), `Encode` (all clauses at once), `SolveForced`,
`SolveRelaxed`, their time-outs, `ForcedUnsat`, `RelaxedUnsat`, `ExplainWhyUNSAT`.
The SAT solver is external: it returns a cheapest model of the clauses, or any
model when it runs out of time. Every instance is a tree, a VDB, options and
requests; the four families of `MCResolver` are dependencies and blockers against what is
installed, masks and keywords with every kind of request, USE dependencies
with flags on which tree and VDB may disagree, and blockers of a version that is
a candidate without having been visited.

### RsyncSync

`RsyncSyncer.Sync` (`Connect`, `SystemSync`, `SyncReturns` with the decisions of
`isRetryableError` and `isPermanentError`) around one transfer: `ReceiveList`,
the generator (`GenAcquire`, `GenWrite`), the receiver (`RecvLoop`, `RecvIndex`,
`RecvData`, `RecvRename`, `RecvRelease`), `Collect`, `DeleteExtraneous`, whose walk
passes over what it cannot read (`unseen`) without an error. The
mirror sends any part of its list, since its report of a list that is not
complete is only logged (`Parts`), answers, leaves out or resets (`MirrorAnswers`,
`MirrorResets`); `SystemSync` is the rsync program, which with `--delete` removes and
replaces one path at a time in any order, and keeps what it has done when it fails;
`Interrupt` and `CloseOnCancel` are the context; `Crash` a kill. Errors are kept
as far as the retry logic tells them apart by their text. Directories and
symbolic links, compression, the strong checksum (which the receiver reads
and ignores), and an rsync program that outlives the kill of its grpm are left out.

### EmergeBuild

`Emerge` sorts the solution (`topologicalSort` of `emerge.go`, which appends what a
cycle leaves over), `NextPackage`, `PhaseEnds`/`PhaseFails` for every phase in
turn, custom or default, `Merge`, `Cleanup`, `Kill`. A work directory remembers
which commands left files in it, which is what `MergedIsOwn` is about. The
installation itself is one step; `PackageInstall` has its detail.

### EbuildHelpers and BuildTree

One phase: a script of up to three calls from the menu of the phase. A
helper is an operator from state to state, composed of the file operations
in `BuildTree` as in Go; `Call` is `dispatchCommand` with banned commands,
`nonfatal` and `|| die`. The write that fails is counted, so that a helper with
several files can fail at each of them. `told` and `promised` are history. Paths are
sequences of components; where `unpack` compares strings instead (`HasPrefix`), a
directory beside `${WORKDIR}` whose name begins with the same letters passes.

### MetadataCache

The goroutines' calls, one step per lock, statement or file access: `LoadPackage` goes
through `parsedPackage`, `GetRow` (and `TouchRow` under the second lock in memory),
`CheckRow`, `ParseEbuild`, `StatForPut`, `CachePackage`. What `PortageRepository` parses
(`repoParse`) comes from what it has parsed before (`kept`), or else from the entry in
`metadata/md5-cache` (`md5`), neither compared with the ebuild, or else from the ebuild;
`EditTree` removes, renews or forgets that entry. `EnsureCache` and `RebuildCache`
clear, scan, add and stamp the index. Rows survive `ProcessEnds` when the backend is
SQLite. Time stamps have a second and a fraction because SQLite truncates them. No
content has the time stamp of another, or exactly the beginning of the second in which
another was written (`MtimeAssumption`): such a pair no cache could tell apart. In the
instance an edit falls into the second of an older content. Versions are numbers and
contents are numbered in the order in which they are written, so that each edit makes a
new one.

### The algorithms

Operators, each checked against a reference definition in its `MC` module, over
all inputs of a bounded set. `MCLanguage`, `MCPolicy`, `MCBinaries`,
`MCSolverAids`, `MCCommands` and `MCSources` extend one another and
add one kind of input each, so that one run covers them; an input is a state and
the algorithm a step from it.

* `VersionCompare`: `Compare` beside the algorithms of PMS chapter 3.
* `SpecStrings`: the parser of dependency strings that flattens into a list with
  group numbers, and REQUIRED_USE, beside what a tree of PMS chapter 8 means.
* `Policy`: masks of three layers, keywords, licences, `package.use` by
  specificity, profile stacking, both resolutions of USE; both implementations of
  @selected, @system, @world; the plan of an update.
* `BinaryPackages`: both writers and both readers of archives by the members they
  write and look for, `BinhostManager` with the place that `Add` writes into the package
  it is given (`AddFromElsewhere`, `AddFromRoot`), hosts of all types, `Selector`.
* `SolverAids`: cycles (with the array that its paths share), slot collisions,
  proposed USE changes, autounmask entries, ranking, depclean.
* `Commands`: install, remove, depclean, build, update with every option, as
  functions of a machine (VarDB, files, archives, snapshots).
* `EclassInherit`: the implementations of `inherit` with metadata and exported
  phases, and the cache of eclasses. `EclassEnv`: the loops over ABIs and pythons
  and the editing of flags, over the four places where a variable lives. Where a
  bash function of the same name exists the Go helper does not run; the model
  is of the Go helpers. Two of nine metadata variables, two of five architectures
  and three pythons stand for all. `InheritWithEnv`
  also leaves the shell's variables in `ExtraVars`, whether or not the inherit succeeds.
* `Sources`: evaluation, raw extraction as fallback, the parser, the Manifest,
  mirror expansion, the plans of a build and of `grpm fetch`.

## 3 Runs and what they show

| Run | Instance | Properties |
|---|---|---|
| `sched_safety` (1.6 million states) | 3 tasks, all graphs of up to 3 `AddDependency` calls (cycles, loops, repeated edges), 2 workers, both modes, every build may fail, the context may end at any point; symmetric tasks and workers | `DependenciesFirst`; `ResultsExact`: without repeated edges nothing is built twice and results are counted exactly; `ImplementsPromise` |
| `sched_progress` (278,000) | the same graphs, 1 worker (a queue of 2), `Stop` at any point | `StartReturnsRight`: only a stranded or dropped task blocks `Start`, and nil means success of independent tasks; `ContinueBuildsOthers` |
| `jobs_queue` (15,000) | 2 conflicting jobs, 2 workers, a queue of 1, concurrent `Submit`, cancel, failure, stop | `SteadyConflictRefused`; `CancelUndoneOnlyByStartingWorker`; `EveryoneEnds`: an accepted job is always in the queue, on a worker or final, it ends, and stopping releases workers; `ServesJobs`: the queue implements `JobService` |
| `stream_any_client` (17,000) | 6 events and channels of 10, the numbers of the code; a client that may cancel or leave | `PanicOnlyAfterCancel`; `VerdictTrue`; `BothSidesEnd`: worker released, a client that stays hears the verdict unless the daemon dies |
| `pkg_install` (2.2 million) | 3 commands (`emerge --replace` on 2 workers, `uninstall`), two versions of one package and another with a file in common, kills everywhere, one I/O error or hash that fails, one edit; symmetric workers | `IndexSound`; `UserConfigKept`: backed up unless it cannot be hashed; `InstalledKept`: reported installations are durable, sequential ones keep foreign files |
| `fetch_resume` (342,000) | 2 distfiles of 2 blocks, 2 mirrors and a source URI, 2 tries each, 2 calls before the servers recover and any number after it | `VerifiedForGood`: nil means verified, verified stays; `Recovers` |
| `resolve` (353,000) | 7 packages of 4 names, 5 option sets, four families of trees | `AnswerTrue`: the plan meets all dependencies, the explanation calls only impossible packages dead; `BlockersHonoured`, for packages that `collectDependencies` visited; `PreferredWhenPossible` |
| `rsync_sync` (590,000) | 2 mirrors with different lists that they may send in part, every tree before, 2 retries, 1 slot of flow control, 2 faults | `NilMeansMirrored`: the tree is the list received, but for names that could not be read; `ReplacedWholeDeletedLast`; `SyncEnds`: returns unless a worker starves, and always after an interrupt |
| `emerge_build` (2.1 million) | 2 overlapping commands, 3 slot keys, 5 graphs (chain, cycle, PDEPEND, ...), 3 option sets, 1 fault | `MergedIsOwn`; `DependenciesMergedFirst` |
| `ebuild_phase` (230,000) | every script of 3 calls in each of 6 phases, EAPI 3 and 8, 1 failing write | `DestinationsAsTold`; `DeliveredStays`; `DieEndsPhase` |
| `metadata_cache` (5.9 million) | 2 goroutines, 2 versions, both backends, a capacity of 1, 3 calls, 1 edit that `md5-cache` follows or not, 2 processes | `ServedCurrent`, for versions whose entry in `md5-cache` was never old; `StructuresAgree`: an ensured index has the highest version, eviction always finds a victim |
| `algorithms` (396,000) | all inputs of the `MC` chain | below |

`algorithms` checks, each against a reference:

| Property | Says | Inputs |
|---|---|---|
| `LanguageAsPMS` | versions compare, dependency strings parse and REQUIRED_USE evaluates as in the PMS | pairs of versions with zeros, letters, suffixes and revisions; expression trees; all flag sets |
| `SortsOrFindsCycle` | `topologicalSort` orders or fails exactly on cycles | multigraphs of 3 tasks and up to 4 edges, any first order |
| `HighestVisibleTaken` | the version loaded is the highest that layers, keywords and licences allow | masks of three layers |
| `USEAsConfigured` | the last word of the most specific layer wins, forced and masked flags last; the build has the flags of the plan | lines, profiles and flags where the two resolutions have the same input |
| `WorldIsOne` | both implementations of the sets agree | world files and profile chains |
| `HostServesWhatWasPublished` | a published archive is found with its version and flags until removed | sequences of operations on a host |
| `AidsTellTruth` | cycles, depths, collisions and proposals are true of the graph; depclean removes only what nothing needs, from a graph that has the edges | graphs of packages |
| `CommandsDoAsTold` | after a command the machine is what its report says | 12 machines; every option combination of one install; two menu commands on every machine, three on one |
| `EclassesAsPMS` | all ways to inherit give the metadata and phases of the PMS; the cache serves the last location; each round of an ABI or python loop sees its own flags and leaves nothing behind; flag edits do as told | 3 eclasses, 1,728 trees and lines, cyclic ones included; 3 repositories; rounds over 2 architectures and 3 pythons |
| `SourcesAsPMS` | the distfiles are those that SRC_URI names under the flags, and no error is swallowed | 1,223 ebuilds: strings of two items nested two deep, 4 Manifests, 4 flag sets |

These properties are stated where code and reference are meant to agree; each
precondition is one of the deviations of section 6, and a property without
it is stated beside and refuted.

Bounds, and why they are enough. Three tasks hold every shape in which a status
can be lost: a chain, a fork, a join, a repeated edge, a cycle. Two workers
allow two tasks under way at once; one worker has a queue of two, which is where
`queueReadyTasks` blocks and the send of `queueReadyDependents` can fail. Two
jobs are a conflict and two workers an overlap; a queue of one is full with one
job waiting. The stream has the capacities of the code: 6 events arrive twice,
12 sends into a channel of 10, so it fills up. Three commands are an
installation, an upgrade or removal (possibly killed) and what the next command
makes of it; `MaxCfg = 1` lets the `._cfg` names run out after one edit. One I/O error may be any of
an installation's, at any of its steps, and meets the kill and the edit; the theorems
about the same properties have no bound. The two faults of `rsync_sync` are enough for an
attempt that fails after a transfer went wrong, and for two failed attempts on one
mirror. Two
blocks make a partial file that is neither empty nor whole, and `JunkSizes` has
junk that is shorter, as long and longer than the file. One slot of flow control
makes the generator wait at the second file. One failing write is enough,
because it may be any write. A cache of one entry evicts on the second `Put`.
All counters that grow are capped in guards and named in the `.cfg`.

Deadlock is checked except where the program may stop. The scheduler model is
meant to hang when a task is lost, which `StartReturns` and
`ReturnsUnlessTaskLost` are about; the stream ends in `panic` or with a worker
blocked after the client left; installation, builds, phases and cache stop
after the last command, call or process.

## 4 Fairness

Weak fairness for goroutines: the Go runtime schedules every runnable
goroutine, and a build, an installation and an RPC step end. In `JobQueue` a
`Submit` or `CancelJob` that has begun goes on; nobody is obliged to submit,
cancel or stop, and the client of a stream is assumed to read on there. In
`InstallStream` the handler's `select` picks at random among ready cases, so the
ticker case is strongly fair. In `Fetch` a call goes on (its requests have
time-outs) and the package is fetched again as long as its fetch failed, which is
what a user or a later `emerge` does. In `RsyncSync` the goroutines of `Sync` are
fair and a mirror answers what it has received unless the fault budget lets it
stay silent or reset. No fairness is assumed for failures, cancellations,
disconnects, interrupts or kills. The other modules have no liveness property.

## 5 Proofs

Each `*Proofs` module proves for all values of the constants that an inductive
invariant (`IndInv`; `StreamInv`, `EmergeInv`, `CacheInv`, `FetchInv`, `PhaseInv` where
the name was taken) holds, with one lemma per process and one step per action,
and derives the listed theorems from it. TLC has checked each of them as an
invariant of the module's run.
Twenty-two of the properties that the runs check on small instances are theorems.

* **BuildSchedulerProofs**: `TypeCorrect` (`[]TypeOK`: the channels respect their
  capacity, `pendingCount` stays a natural number), `DependenciesAlwaysFirst`
  (`[]DependenciesFirst`), `AlwaysQuietAtEnd` and `Refinement`
  (`Spec => ImplementsPromise`). `DependenciesFirst` speaks of workers only; to be
  inductive it needs that whatever is in the queue, being sent or held has all its
  dependencies in `completedSet` (`OnlyReadyTasksUnderWay`), that this set and
  every status `Completed` come from builds that returned nil
  (`CompletedMeansSucceeded`), that nothing moves while the graph still changes
  (`NothingBeforeStart`), and that the collector has a task when it reads a
  status (`CollectorHasTask`). It holds although statuses are overwritten by
  three goroutines, because nobody but a successful build writes `Completed`. The
  refinement adds that workers are idle once `Start` has returned; each process's
  steps are then shown to be a step of `OrderedBuilds` or a stutter.
  `EveryResultOnce` (`[]ResultsExact`) needs a second invariant, `OnceInv`, about
  places: a task is in at most one of the queue, a sender's hand, a worker and the
  results channel (`OnePlace`), a task that was queued once cannot become ready again
  (`QueuedOnce`, `BuiltOnce`), because its dependencies complete once and
  no edge counts twice, and `pendingCount` is the number of tasks whose result has not
  been taken (`CountExact`). The statuses are no help, since three goroutines
  overwrite them.
  The module ends with Kahn's algorithm. `SortsOrFails`: for any tasks, any multigraph
  and any first queue `topologicalSort` fails if and only if there is a cycle, and what it
  has sorted is in topological order. `Sorting` is the invariant of both loops: an
  in-degree is the number of `AddDependency` calls whose dependency is not sorted, plus
  the places of the dependents that this turn has still to visit, so that a dependency
  added twice is counted down twice; zero means sorted or queued.
  `StartRefusesCycles` says that `topologicalSortFails`, by which `Start` decides in
  the model, is the outcome of the algorithm.
* **DaemonProofs**, `JobQueue`: `TypeCorrect`, `ConflictsRefused` (`[]SteadyConflictRefused`),
  `CancellationStays`, `NoJobLeftBehind` (`[]AcceptedHasOwner`, the safety part of
  `EveryoneEnds`) and `QueueServesJobs` (`ServesJobs`, the refinement). A steady job is
  one whose status has not been written since the check began; `CheckSound` says where
  such a job is during the check (not yet read, found active, or between the two reads
  and pending), `StoredSound` what follows when it ends. `ConflictsRefused` assumes
  `ResolveMayFail = FALSE`. `OwnerInv` carries `NoJobLeftBehind`: no job is twice in the
  channel, with two workers, or in both; what is there was accepted; and an accepted job
  that is nowhere has a final status. On it, and on `AskedInv` (only a job whose context
  is done is or will be `Cancelled`), rests the refinement: the send is `Accept`, a
  receive `Serve`, a skip or the final status `End`, a `CancelJob` of a job that has
  ended `CancelLate`, and all other steps are invisible. The theorem covers queues of
  any size, where the run has one slot and so no order.
* **DaemonProofs**, `InstallStream`: `StreamTypeCorrect`, `PanicNeedsCancel`
  (`[]PanicOnlyAfterCancel`) and `VerdictCorrect` (`[]VerdictTrue`), for any number
  of events and any channel sizes. `EndIsKnown` carries them: a status that says the
  job is over is the worker's last word about a result that is already in
  `errChan`, or the context is cancelled; only such a status is what the handler has
  read when it closes and sends.
* **EmergeProofs**, `PackageInstall`: `TypeCorrect`, `IndexAlwaysSound` (`[]IndexSound`) and
  `EditedConfigSurvives` (`UserConfigKept`, with the root `/`). The last needs
  `RecordsAsInstalled`: no record ever lists the edited content, so the unmerger's
  comparison, if there is one, sees the difference and keeps a backup; and `UnhashedIsOwn`
  and `MemoryEmpty`: a record without hash is in memory only while the process lives that
  wrote the file, during which nobody edits it, so that a missing comparison touches an
  edited file only when its hash fails in that very step (`unhashed`). `ReportedIsDurable`
  (`[]Durable`) rests on `Duties` (what each command does, and that no two workers
  have the same package) and `EntriesWhole` (a record is complete when it is written,
  and its package is not counted as installed between the truncation of CONTENTS and
  SLOT); `InstalledStaysInstalled` (`InstalledKept`) on `Checked` as well: what the
  collision check has passed stays passed until it is copied, since a copy
  changes its own path or a free `._cfg` name and nothing else.
* **EmergeProofs**, `EmergeBuild`: `BuildOrder`, what the loops of `topologicalSort` compute for
  every graph, from which `BuiltAfterDependencies` (`[]DependenciesMergedFirst`)
  follows with `OrderHeld` (what is left to build is in an order its
  dependencies allow); `UndisturbedMergesOwn` (`[]MergedIsOwn`) from `OwnDirectory`
  and `LeftEmpty`, which say whose files a work directory can hold; and `EmergeTypeCorrect`.
* **RepositoryProofs**, `MetadataCache`: `CacheTypesCorrect`, `ServedIsCurrent` (`[]ServedCurrent`)
  and `StructuresAlwaysAgree` (`[]StructuresAgree`), for any number of goroutines,
  versions, calls, edits and processes, any capacity and both backends. The
  inductive invariant is `CacheInv`. `ReadCurrent` says that a row, and an entry in
  the hands of a goroutine, has the time stamp of its own content, whatever the
  tree holds by now, and that what was parsed is what the tree holds; a
  valid entry is then the current content by `MtimeAssumption`.
  Both leave out the versions whose entry in `md5-cache` has been old
  (`hist.stale`), for which it would be false.
  `IndexWhole` says that the stored mtime never runs ahead of the root, and that an
  index under that mtime, or in the hands of a goroutine that has emptied it, is
  empty or whole: the second half is what a concurrent rebuild and a kill between
  `AddBatch` and `SetRepoMtime` need. `EvictionFindsVictim` is inductive as it is: every
  step on the rows keeps the order ahead of them (`RowsKept`), duplicates and keys
  without a row included.
* **RepositoryProofs**, `Fetch`: `FetchVerifies` (`VerifiedForGood`: nil means verified,
  and verified stays), for any files, sizes, mirrors, answers, resets, kills and
  retries, and one download at a time (`OneWorker`). `FetchInv` says that the inode of a
  partial file is nobody's final file and no other partial file (`PartialApart`), and
  that the call in progress is on track (`OnTrack`): every file before the one at hand
  is verified, the one at hand is not while it is being downloaded, and blocks go to its
  partial file only. With two downloads of one package at a time it is false: they write
  to one partial file, and one renames it while the other still writes.
* **EbuildHelpersProofs**: for any script of known commands, any tree, EAPI and failing
  write, `HelpersGoWhereTold` (`[]DestinationsAsTold`) and `DieIsFinal`
  (`[]DieEndsPhase`). Both need to know what each of the forty helpers leaves alone.
  The file operations of `BuildTree` keep everything but the tree, the error and the
  countdown to the failing write, and keep them in their types, folds over
  arguments, trees and archive members included; a helper then keeps the destinations,
  unless it is one of the four that set them, or gives them back on every path, which
  is the point for `doconfd`, `doenvd`, `doinitd` and `einstalldocs`. `PhaseInv` adds for
  `DieIsFinal` that between two calls no error is pending and helpers are not nonfatal.
* **RsyncSyncProofs**: `TypeCorrect`, `SuccessIsMirror` (`[]NilMeansMirrored`) and
  `NothingLostBeforeReplaced` (`ReplacedWholeDeletedLast`), whatever lists the mirrors
  send. `NoneLost` accounts for every request of the generator: it is under way, in the
  receiver's hand, answered or skipped, as long as the connection holds or has held
  until `NDX_DONE` was sent; `StreamOK` says that nothing comes after `NDX_DONE`, so the
  receiver cannot end its second phase with an answer outstanding; `EndOK` that deleting
  begins after that.
* **ResolverProofs**: for every tree, VDB, options and request, and for whichever
  model the SAT solver returns, `TypeCorrect`, `AnswersAreTrue` (`[]AnswerTrue`),
  `BlockedIsGone` (`[]BlockersHonoured`) and `NoAnswerMissed`
  (`[]PreferredWhenPossible`). The lemmas `ModelMeets`, `ModelApart`, `ModelRoots` and
  `ModelSlots` say what the clauses of each kind force on a model. `Visiting` says that
  the visited packages are closed under what they follow; with `--deep` the
  visited part of any answer is then itself a model (`AnswerIsModel`), so a
  failure means that there is none. The attempt to prove `BlockersHonoured` for every
  selected package failed, for the reason in section 6, on trees that the
  instances of `resolve` did not have then.
* **FoldFacts** has no component of its own: it is about `FoldLeft`, for every
  operation `op`, invariant `P` and sequence.

Induction. The induction rules of the library have an operator as a parameter, which the
provers cannot instantiate. `EmergeProofs` has induction over a *set* of numbers instead
(`SetInduction`), proved from the well-foundedness of `<`; a proof defines the set of
all n for which its claim holds. From it come `LeastMeasure` (a smallest value of a
function into the naturals), `Iteration` (repeating a step gives a sequence) and
`SortedExists`. For the loops over slices `FoldFacts` declares the operation as an
operator *constant*, proves that what each turn keeps the fold keeps (`FoldKeeps`) and
that a fold is its turns one after the other (`FoldRuns`), and is instantiated once per
loop (`LnFold == INSTANCE FoldFacts WITH op <- LnTurn, ...`).

Assumptions are the named `ASSUME`s of the modules: finite sets of tasks, workers, jobs
and packages, special values outside those sets, functions, records, paths and trees of
the right shape (`FilesAssumption`, `ScriptAssumption`, `TreeAssumption`), sizes that
are natural numbers, time stamps that tell contents apart (`MtimeAssumption`). TLC
evaluates them in every run. The theorems that need more say so: `ConflictsRefused` a
resolution that does not fail, `EditedConfigSurvives` the root `/`, `FetchVerifies` one
download at a time, `ReportedIsDurable` and `InstalledStaysInstalled` a system on which
nobody runs `grpm install` (section 6 says why), and the latter also the root `/` and no
`--force`, since another root or `--force` disables the collision check.

Only model-checked. Out of the prover's reach: liveness (fairness and `ENABLED`),
and modules that declare or
reach a `RECURSIVE` operator (`SpecStrings`, `Policy`, `SolverAids`,
`Commands`, `EclassInherit`, `Sources` and the `MC` modules of
`algorithms`; `SortsOrFindsCycle` is stated in one of these, so `SortsOrFails` restates
it). Not proved: `DeliveredStays`, which is about a script and its tree together: it
needs, for each helper, which paths it writes, and a menu in which no file tool
removes what was delivered; for an arbitrary menu it is not even true.

## 6 Where the code does not do what it says

The first table has the deviations in concurrent or persistent state. Each
property is stated in its module, and TLC refutes it with the instance given; no
run of the project repeats them. `findings` of `PROJECT.json` quote what the
code, or a document, says instead.

| Module | Property | Refuted by |
|---|---|---|
| BuildScheduler | `StartReturns` | `Pair`, `MayFail = {a}`: a task whose dependency fails never sends a result, and `collectResults` waits for it, in either mode |
| BuildScheduler | `NilMeansAllBuilt` | `queueReadyTasks` writes `Waiting` over the status of a task that the collector has queued and that has failed; also one task whose context ends while it builds, and a repeated edge (`Chain`, `MaxRepeats = 2`), which builds a package twice and lets its second result stand for another's |
| BuildScheduler | `NothingDropped` | `AllowedEdges <- FanOut`, 4 tasks, 1 worker, `MaxEdges = 3`: three dependents become ready at once and the queue holds two |
| BuildScheduler | `CancelReturns` | 4 independent tasks, 1 worker, `Interrupts = {"ctx"}`: nobody reads `results` any more |
| BuildScheduler | `StopReturns` | `Pair`, `MayFail = {a}`, `Interrupts = {"Stop"}`: `Stop` cancels a context nobody watches |
| JobQueue | `ConflictingNeverOverlap` | two concurrent `Submit` calls both pass; also with `OneSubmitAtATime = TRUE`: a job that turns Running between the two reads counts as neither, and a cancelled job's installation runs on |
| JobQueue | `CancelledForGood` | a worker between its check and its write of `Running` undoes a cancellation that was reported as successful |
| JobQueue | `FinishedStays` | one job, cancelled after it has completed |
| JobQueue | `RefusedForLiveJob` | a queue of 1, 3 jobs: a job that found the queue full stays in the map as Pending and blocks its package |
| JobQueue | `HighestPriorityFirst` | 2 jobs: nothing reads `Priority` |
| JobQueue | `SteadyConflictRefused` | `ResolveMayFail = TRUE`: a failed resolution leaves only the package itself (`conflict_detector.go:151` says "Better to be conservative") |
| InstallStream | `NoSendOnClosedStream`, `StayingClientHears` | `MayCancelJob = TRUE`: the handler closes `progressChan` while the worker still sends on it, and the daemon dies, maybe before the last event is sent |
| PackageInstall | `InstalledFilesStay` | an upgrade leaves the VarDB entry of the old version; a later command unmerges it again and removes files another package has by now |
| PackageInstall | `UserConfigAlwaysKept`, `AllReadBack` | `MaxErrors = 1`: the hash of an edited file cannot be computed, and it is removed without a backup; the hash of a new file cannot be computed, and no later command knows the file |
| PackageInstall | `InstalledKept` | `"install" \in Commands` with kills or I/O errors: `installPackageReal` writes the entry a second time and truncates CONTENTS of a valid entry. This is why `pkg_install` has no `"install"`; the other proofs do include it |
| Fetch | `FinalNameOnlyVerified` | the file is renamed before it is verified (`downloader.go:123` has the opposite order) |
| Fetch | `VerifiedForGood`, `Recovers` | two workers that fetch one distfile share its `.partial`; `ErrBody > Size` lets the body of a 416 answer be resumed from beyond the end for ever |
| RsyncSync | `AlwaysReturns` | the receiver fails, or the mirror leaves requests unanswered, while the generator waits for a slot |
| RsyncSync | `NothingElseLeft`, `MirroredKept` | a directory that the walk cannot read keeps what is in it, and `Sync` returns nil; files that the mirror could not read, and so did not list, are deleted |
| Resolver | `RequestsHonoured` | an exact request for a version of a package all of whose versions are masked: the root is loaded, no candidate is, and the answer is an empty plan without an error |
| Resolver | `BlockersAlwaysHonoured` | `a` depends on `b`, of which version 1 is installed; version 2, which blocks the installed `c`, is a candidate but never visited, so `c` has no variable: a plan that upgrades `b` leaves both (no `--deep`, the optimisation ran out of time) |
| MetadataCache | `AlwaysCurrent`, `QuietMeansCurrent`, `ModifiedMeansInvalid`, `ParsedWhole`, `OrderNamesRows` | an edit while a process runs, also when `RebuildCache` follows it, since `PortageRepository` keeps what it has parsed; an entry of `md5-cache` that is older than its ebuild, from which a row is made with the time stamp of the new one; an edit that leaves the mtime of the root alone; a row that has lost its dependencies; a key left in the LRU order |

The algorithms, each refuted in the `algorithms` instance (those of `MCLanguage`
with `FullTrees = TRUE`):

| Module | Property | What the code does |
|---|---|---|
| MCLanguage | `AllAlgorithmsExact` | letters, missing components and leading zeros of the first component compare otherwise |
| MCLanguage | `AnyOfGroupsFull`, `OperatorGroupsFull` | groups inside any-of and operator groups are flattened |
| MCPolicy | `EveryLayerAgrees`, `LaterLineWins`, `MasksStack` | USE is resolved twice from different sources; the earlier line of `package.use` wins; a negation in any layer unmasks, wildcard atoms never match |
| MCBinaries | `RequestedName`, `OwnArchivesReadable`, `CleanKeepsAdded`, `AddingAgainKeeps`, `HTTPHostServes` | names match by substring; the reader expects other members than the writer makes; `Clean` removes archives added after a scan; a package added again is copied onto itself and emptied; nothing is found on HTTP hosts |
| MCSolverAids | `ReportedCyclesExist`, `ProposalSeparates`, `WrittenOnce`, `OneAnswerForFlags`, `DepcleanKeepsNeeded` | cycles overwritten through a shared array; a proposal that activates the dependency it should avoid; autounmask lines appended again; VarDB keeps no dependencies, so depclean sees no edges |
| MCCommands | `PretendNeverInstalls`, `NoSnapshotHonoured`, `InstalledMeansThere`, `BuiltIsFound`, `FailureKeepsOld`, `CollisionsSeen` | `--ask` overrides both options; a stale VarDB entry passes for an installation; `build` and `install --binpkg` use different names; a failure comes after the old version is unmerged |
| MCSources | `FailedInheritSeen`, `ShellMetadataFull`, `OrdersAgree`, `LoaderEnds`, `ManagerCredits`, `OneEclassPerName` | a failed eclass counts as inherited; the ways to inherit disagree; cycles without a cache; first or last location |
| MCSources | `RestoredAfterFailure`, `FlagsPerABI`, `AppendedReachTools`, `LibdirsDisjoint`, `FilteredStays`, `TestFlagsAllOrNothing`, `AnyIsCompatible` | an error leaves a loop's environment behind; x86 before amd64 leaves `-m32`; `ExtraVars` hide the fields that flag edits change; `get_libdir` is constant |
| MCSources | `RawIsEnough`, `UnlistedRefused`, `OnlyOwnFiles`, `FetchedIsEnough`, `MissingVersionRefused`, `UnbalancedRefused`, `ArchivesOnce` | fallbacks that lose files without an error; an empty SRC_URI means the whole Manifest; `grpm fetch` knows no flags and no missing versions; a stray `)` ends the string |

What else the modelling brought up, and the models therefore have:

* *Installation*: a worker is blocked for good when the stream's client leaves
  (`MayDisconnect`); two concurrent installations overwrite each other's files, since
  the collision check sees neither; collision and CONFIG_PROTECT checks have no
  effect with `--root` (`RootIsSlash = FALSE`); `findInstalledVersion` ignores slots.
* *Solver*: slots in any-of alternatives are ignored; VDB flags are only OR-ed in;
  build-time dependencies of a reinstalled root are not checked; packages that
  the tree has lost are prohibited under `--deep`; with `--newuse` and without
  `--deep`, dependencies that were never explored are encoded, so that there may
  be no answer where one exists; `--emptytree` never removes blocked installed
  packages; `WithBdeps` is never read; the weight of any-of positions does
  not dominate sums of version ranks. `Regular` and the preconditions of `PlanSound`
  name them.
* *Synchronisation*: the exit status of the rsync program matches no retry
  pattern; the program removes files before their replacements have arrived, and
  directories in the place of files, which the native client never does: with it a
  directory where the mirror has a file fails for good.
* *Builds*: there is no lock on a work directory and a stale one is reused; the
  default test phase never fails; an ebuild that cannot be parsed silently
  builds with default phases; `--keep-going` still builds dependents of
  packages that failed; `pkg_preinst` and `pkg_postinst` are never run.
* *Helpers*: `dolib` is registered as itself and not as `DolibBanned`; `PIPESTATUS` is
  never set, so `assert` sees nothing; symbolic modes lose `u+s`, and `-R` applies
  the mode of the top; `mkdir`, `cat`, `grep` and `install` use the directory of the
  process; an exit status other than 0 never fails a phase by itself.
* *Caches*: `entryToPackage` loses dependencies and enables all of IUSE; SQLite
  truncates time stamps; `InvalidateAll` and `Clear` leave `repo_mtime`.
* *Policy*: `loadBestAcceptableVersion` ignores `package.mask`;
  `ACCEPT_KEYWORDS="~amd64"` alone does not accept `amd64`; `package.accept_keywords`
  and `package.license` are never consulted; a versioned atom in the world file is
  skipped by update; profiles that are each other's parents recurse for ever.

## 7 What is not modelled, and why

* *Daemon life cycle*: one straight sequence of calls into the gRPC library, the
  file system and the queue, whose own `Stop` is in `JobQueue`. `RemovePackage`
  and `UpdateSystem` of the service are stubs; queries change no state.
* *Text and bytes*: syntax of the shell, of ebuilds and configuration files,
  archive and wire formats, formatting of output. They are functions of large inputs; the models
  begin with what was parsed and keep what conversions lose.
* *Other programs and the operating system*: hooks, git, zfs and btrfs, compilers and
  build tools with the eclasses that only call them, privilege separation, sandbox.
* *Process-wide state of parallel builds*: `emerge --jobs` runs phases in goroutines
  that share one working directory and one environment. `EmergeBuild` is of the
  sequential command, `BuildScheduler` of the parallel one with builds as
  single steps; the interference of two interpreters is outside both.
* *Code without callers*: `CachedPortageRepository` is constructed nowhere but
  modelled as if it were used; `Upgrade`, `internal/virtual` and `SrcURIFetcher` are not.
* *Generated code* `api/gen`, and directories, symlinks and hooks of the merger.

## 8 Plan

Done: scheduler and job queue with their abstract specifications, stream,
installation, fetching, resolution, synchronisation, builds, phases, caches and the
algorithms of section 3. Left, in order:

1. Theorems: the paths that each helper writes, and with them `DeliveredStays` for
   menus without file tools.
2. Abstract specifications: active jobs with exclusive packages, implemented by
   `JobQueue` when submissions are serialised and checked atomically; a map from
   package to files, implemented by the database and its index.
3. Components: start and stop of the daemon composed with `JobQueue`; two
   phases that run in one process.
