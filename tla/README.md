# helmfile-validate, specified

`helmfile-validate` looks for the template functions and hooks a helmfile uses and fails when a forbidden one is
among them. To read helmfiles the way helmfile does it carries a fork of helmfile below `pkg/helmfile`. This
directory holds TLA+ specifications of both: the scanner of `main.go`, and those parts of the fork that run
concurrently, can fail half way or must keep an order. TLC checks them on small instances, and TLAPS proves the
central results for every value of the constants.

## 1. The system

| Component | State it keeps | Operations | Modelled by |
|---|---|---|---|
| Scanner (`main.go`, `tracking`, `tmpl/file_renderer.go`) | the files read so far, what was found in them, the exit code | flags, find, parse, load, collect hooks, track, scan, verdict | `Scan` |
| State loading (`state/create.go`, `storage.go`, `envvals_loader.go`) | the state file being built from its bases and default values | `ParseAndLoad`, bases, values files, expansion of nested helmfiles | `Scan` (as the scanner uses it) |
| Walk of the helmfile tree (`app/app.go`: `visitStatesWithContext`) | the working directory of the process, two channels per call, one goroutine per file | find, load, visit nested helmfiles, converge | `Visit` |
| `sync`, `apply`, `destroy` (`app/app.go`, `app/run.go`, `state/state_run.go`) | the list of releases, the plan, what is to be deleted and updated | select, deduplicate, plan, detect, confirm, preapply, batches | `Converge` |
| Release operations (`state/state.go`: `SyncReleases`, `DeleteReleasesForSync`, `DeleteReleases`) | the cluster, a mutex, the lists of affected releases | presync, query, uninstall, upgrade, reinstall, hooks | `SyncReleases` |
| Worker pool (`state/state_run.go`: `scatterGather`) | two channels, a wait group | producer, workers, aggregator | `ScatterGather`, abstractly `ParallelFor` |
| Chart cache (`state/state.go`: `getOCIChart`, `acquireChartLock`; `app/run.go`) | directories on disk, a map per process, a mutex and a lock file per chart | look, lock, download, use, remove | `ChartCache` |
| Preparation of charts, values and secrets (`state/state.go`: `PrepareCharts`, `prepareSyncReleases`, `DiffReleases`, `TemplateReleases`, ...) | a `Chart.yaml` per local chart, generated files per release | rewrite, chartify, restore, build, generate, call helm, remove | `Prepare` |
| Remote files (`remote`) | a cache on disk | locate, fetch, use | `RemoteCache`, composed in `Shared` |
| Helm execer, repositories, results (`helmexec/exec.go`, `app/context.go`, `app/app.go`) | extra arguments, decrypted secrets, repositories added, results of the command | add repositories, build, set arguments, decrypt, run, merge | `HelmExec`, composed in `Shared` |
| Chart dependencies and lock file (`state/chart_dependency.go`) | a file per state file | resolve, update | only that it fails (`Prepare`) |
| Environments, merging of values, filters, templates, HCL, YAML, policy, formatters | none, or only their argument | pure functions on trees and text | partly `Scan`; otherwise not modelled |

How they interact:

- A command (`App.Sync`, ...) calls the walk with a function `converge`. The walk calls it once per state file, and
  from a goroutine per file when there are several. All of them share the process: its working directory, the map
  of downloaded charts, the helm execer, the repositories added so far, the cache of remote files.
- `converge` prepares charts (`withPreparedCharts`, with the pool, the chart cache and chartify), and then `sync`, `apply` or
  `delete` goes through the plan, a batch at a time.
- Each batch is a call of a release operation, which is a loop body given to the pool.
- The scanner uses the state loader alone, over a file system that records what is read; it runs none of the
  commands.

What is hard in it: the channels of the pool and the returns inside loop bodies (a lost send stops the command for
ever); one mutex over steps that may fail; a two-level lock with timeouts around a directory that other processes
share; a working directory changed by goroutines; error values of which one kind is tolerated; an order of releases
that must hold in both directions, across lists in which a release may occur twice; files that are rewritten,
generated and removed around calls that may fail; arguments, secrets and repositories shared by state files that
are processed at the same time; and a scanner whose verdict
must not get better because something failed to load. `PROJECT.json` lists these as hazards, each at its line, with
the properties that would catch it.

## 2. Modules

### ScatterGather and ParallelFor

`ScatterGather` is `scatterGather` with the three closures its callers give it. A step is a channel operation or the
processing of an input: `Produce` and `CloseJobs` (producer), `Take`, `Work`, `PutResult` or `HandResult`, `Stop`
(workers), `Gather` and `GatherDone` (aggregator, in the caller), `WaitDone` (`waitGroup.Wait`). `call` says which
kind of call it is: the limit given by `--concurrency`, channels without a buffer or as large as the input, and
whether the aggregator returns at the first error, as that of `PrepareCharts` does. The job channel is first in,
first out and is represented by two counters; the order of the results only orders messages, and so the result
channel is a set.

`ParallelFor` is what callers rely on: every input is started once, by an idle slot, and the call returns only when
all are finished. `ImplementsFor` is the refinement, with a worker that holds an unprocessed input as a busy slot.

### SyncReleases

Extends `ScatterGather`: the workers' `Work` is replaced by the loop bodies of `SyncReleases` (with
`performSyncOrReinstallOfRelease`), `DeleteReleasesForSync` and `DeleteReleases`, one action per call of helm, of a
hook, of the mutex and of a list. Helm, the cluster and the hooks are external: each call succeeds or fails, and one
that fails may have had its effect. The unprotected appends of `DeleteReleases` are a read and a write. The two
returns of a failed reinstall that do not unlock are there as they are in the code (`ReUninstallFails`).

`asked` keeps what helm was asked to do for a release. At the return, `SummaryExact` holds the lists against it
(`Complete`): in a sync or an apply a release helm was asked to change is in one of them, a release of which nothing
was asked needed nothing or is among the errors, and a release whose query after a forbidden upgrade failed
(`"dropped"`) is among the errors and nowhere else, as in the code. `DeleteReleases` with one worker lists everything;
with several, entries may be lost, and what is left to say is that no list is empty that should have an entry and
that no entry is wrong.

### ChartCache

One chart that several workers want; workers belong to runs (state files being converged), runs to processes. Per
worker it follows `getOCIChart` and `forcedDownloadChart`: the map, the optimistic look, the shared lock, the
exclusive lock with its attempts and timeouts, the double check, the removal, the download, the release of both
locks. A directory is absent, without `Chart.yaml`, partial or complete; `findChartDirectory` cannot tell the last
two apart. `EndRun` removes the temporary directory of a run, `Crash` stops a process with all its workers.

### Scan

The scanner as a sequence of phases, one action each, except that the recorded files are looked at one by one in any
order. A file is what the program learns of it: whether it is there, renders, parses, what it names and calls. The
loader's rules (a base of a base is refused; bases before default values; the first entry without a match ends the
expansion) are operators, used by the actions that load the main and the nested helmfiles. The path of a base is
opened as it is written, relative to the working directory: `asBase` of the input says which file stands there, the
base itself, another file, or none (`Opened`).

`SurvivesFailures` is stated in the steps the program takes. Whatever fails, the hooks of the main helmfile are
reported and the main helmfile and its bases are looked at. The hooks of the bases, nested helmfiles and values files
need a state that loaded, and those after an entry without a match are reached only when every entry matches; where
the program gives up on them the property claims nothing, and the findings say so. The count of `CountsExact` is the
number of files that call a function: the program never counts calls.

### Visit

A visit is a call of `visitStatesWithContext`, a job the processing of one file, both named by the way down from the
root. `Find` starts a goroutine per file or hands over to the sequential walk (`FindAgain`, `NextFile`, `FileDone`,
`WalkDone`); `Resolve`, `Chdir`, `Load`, `CallNested`, `NestedReturns`, `ExecuteTemplates`, `Converge`, `ChdirBack`
are the steps of one file, with their failures. The working directory is one variable of the process. A path is
looked up relative to the directory of the file when a goroutine found it, and relative to the working directory
otherwise, which is what `JoinBase` does with a base path of `"."`. Helmfiles may nest one another for ever: `Visits`,
the visits there can be, bounds how far down the model goes, and a nested helmfile outside it is not entered.

`OutcomeTold` says what the first call tells. A goroutine keeps what its nested helmfiles matched to itself
(`Heard`), so that where files have goroutines the result of no match counts only what the files of a call match
themselves; a walk hears of all of it.

### Converge

One run of `sync`, `apply` or `destroy` on one state file. The input has the entries the selectors select, what is
desired, what helm diff reports, what each entry needs, and the flags about needs. `Select` to `Plan` is
`getSelectedReleases` and `PlanReleases`; `Detect` is `DetectReleasesToBeDeleted...` and `diff`; `NextBatch` takes
any group of ids that waits for none of the rest, which includes the groups the graph library computes, and reverses
for deletions; `Delete`, `Upgrade` and `Fails` process a batch, and abstract the steps of `SyncReleases`. A graph
with a circle or an undefined need outside the plan may or may not be an error of the library: `PlanFails` allows
both.

### Prepare

One command on one state file, from its charts to the last temporary file. In the phase `charts` a pool of workers
takes releases: `PrepareChartify` generates patches, values and secrets, `ReadChartYaml`, `TruncateChartYaml` and
`WriteChartYaml` are `rewriteChartDependencies`, `Chartify` runs with the result, `Restore` and `Rewrite` are the
deferred restoration (a write is two steps, because `os.WriteFile` truncates first), `Clean` the deferred removal of
the files. `BuildDeps` and `Select` come between the charts and the operation. `sync` and `diff` prepare all releases
(`PrepareRelease`), give up or go on (`ReleasesPrepared`), call helm (`CallHelm`) and remove what they know of
(`RemoveFiles`); `template`, `lint` and `write-values` go through their releases one at a time (`Render`) and remove
the files when they have generated them. `there` has the files of a release that exist, `recorded` those its caller
knows of: what the two differ in is what a failure half way leaves behind.

### RemoteCache, HelmExec, StateFiles and Shared

What the state files of one process share. `RemoteCache` is `Locate`, `Fetch` and the getters for one source that
several state files load: look for the entry, download it, remove it after an error, use it; nothing is locked.
`HelmExec` follows a state file from its loading, where the secrets of its environment are decrypted, over
`SetExtraArgs` of `template`, `SyncReposOnce`, `BuildDeps`, the arguments of its own, the secrets of its releases and
the main call of helm to the merging of its result. The secrets of both kinds go through `DecryptSecret` and its one
cache: `loaded` tells which is in hand (`Wanted`) and where a state file goes on (`Decrypted`). A state file says of a
repository what kind it is (`RepoKinds`): `helm repo add` and `az` leave a URL in `repo`, `helm registry login` leaves
credentials in `logins`, and for an unknown type, or a registry without credentials, `AddRepo` does nothing and
succeeds. `StateFiles` names the state files.
`Shared` composes the two: `Load(f)` before `Process(f)`, one file after the other or all at once, with `Kill`, the
panics of the getters, and `Restart`, which runs the command again with what is on disk: the cache, and helm's
repositories and credentials.

`ReposReady` says of each repository of a state file that helm has it as some state file says that names it
(`Registered`): as this one says, unless they disagree. A name another state file gives an unknown type may be missing
then. `ArgsOwn` is about the calls a state file makes between its loading and the end of its main call; the secrets
of an environment are decrypted before that, with the arguments of the state file before, which is a finding.

## 3. Runs

| Run | Question | Bounds |
|---|---|---|
| `scatter_gather` | Is every input processed once, no error lost, does the call return, and is it a parallel for? | 3 inputs; limits -1, 0, 1, 2, 5; both channels; both aggregators |
| `sync_releases` | Are uninstalls serialised, the lists and errors true of the cluster, no lost release unreported? | 2 releases, 1 or 2 workers, all wishes, any failure |
| `sync_leak` (violation) | Does the call return without exception? No: the mutex is leaked by a failed reinstall. | the same |
| `chart_cache` | Do locks exclude, are they given back, is a chart in use complete, is nobody starved? | 3 workers, 2 runs, 1 or 2 processes, 2 attempts, crashes |
| `chart_cache_shared` (violation) | Is a chart in use left alone? No, by a refresh of another process. | the same, without crashes |
| `scan` | Do the report and the exit code follow from the files, and what is looked at whatever fails to load? | 7 files, 3 readings of the path of the base, 4 functions, 47 directories, 8 command lines and the erroneous ones |
| `visit` | Are errors and matches reported, the order kept, every file processed, the working directory restored, does the walk return? | two trees up to three levels deep, two files per directory, every outcome, 4 modes |
| `visit_race` (violation) | Is the file that is loaded the one that was found? Not with goroutines. | the same |
| `converge` | Are needs respected both ways, is only what is selected touched, does success mean converged, does every run return? | 4 entries of 3 releases, one of them twice; needs in a chain, a fan, a circle, undefined; all selections |
| `prepare` | Does helm find its files, is nothing left behind, are charts restored, is a command that cannot prepare a release one that calls no helm? | 2 releases of 1 or 2 charts or none, 0 to 2 workers, 6 commands, any failure |
| `chart_restored` (violation) | Is every `Chart.yaml` as it was? Not when two releases of the chart are chartified at once. | the same |
| `shared` | Are remote files whole, arguments a file's own, repositories added, secrets and results told, does the command end, also when it is run again? | 2 state files, 2 repositories, one of any kind for each file, 2 URLs, 2 secrets of environments and releases, 3 arguments, 1 restart |

Why the bounds are enough: the pool needs more inputs than workers and fewer, and a worker that is late with a
result while another takes a second input: three inputs and every width do. The mutex of `SyncReleases` and the
reads and writes of a list involve two workers. The cache needs two workers of one run (mutex), one of another run
of the same process (its temporary directory) or of another process (the lock file); two attempts are the first and
the last. The trees of `visit` have the three kinds of visits (a goroutine below a goroutine's file, a walk below
it, a walk below a walk), equal names in different directories, a directory found by two ways, and goroutines below
a walk, whose files nest in turn. Three releases
make a chain, so that an order is transitive and a batch may hold more than one release. The files of a release
depend on the other releases only through a common chart and through the first error, for which two releases do.
Two state files make one that goes before and one that comes after, or two at once; one restart meets what one
process has left behind, and a second would find the same.

`converge`, `sync_releases`, `prepare` and `shared` have behaviours of different commands in one state space: the
command is part of the input. The inputs of `shared` are not multiplied: `MCSpec` lets the kinds of sources vary with
a plain command, and the commands with a local source, as the two meet only in the order of their steps.
`sync_releases` and `sync_leak` have deadlock checking off: after a leaked mutex the program really stops,
which the second shows and `ReturnsUnlessLeaked` of the first delimits.

Type invariants are not among the properties of the runs: theorems have them, for every module.

Each property was also tried against a plausible mistake in the code: an operator next to the original, marked as a
mutant or seeded bug in a comment, makes TLC find the property violated when it takes the original's place.

### Fairness

Weak fairness of each goroutine (`FairPoolSpec`, `FairSyncSpec`, `FairCacheSpec`, `FairVisitSpec`) is what the Go
scheduler gives a goroutine that can run; helm, hooks and the file system answer, with success or an error. Locks
are waited for under weak fairness as well: each worker takes a lock a bounded number of times, and so a waiting
worker is not overtaken for ever. `FairConvSpec` has one goroutine at this level of detail. `SharedSpec` asks only
that some goroutine that can go on does; nobody has to kill the process or to run the command again, and that is
enough, since no goroutine can go on for ever. `Scan` and `Prepare` need no fairness for what is checked of them:
these properties are about states.

## 4. Proofs

| Theorem | Says | Argument |
|---|---|---|
| `ScatterGatherProofs!PoolInvariant` | `PoolInv` holds for any number of inputs, workers and either kind of channel | inductive: types, `Channels` (the two counters and the buffer), `Conservation` (each input taken is in one place), `CallerProgress` |
| `AllProcessed`, `ErrorsReported` | at return all inputs are processed, no error is lost | from `PoolInv`: a worker stops only when the closed channel is drained, and the caller waits for all workers |
| `Refinement` | the pool implements `ParallelFor` | step by step under the refinement mapping, with `PoolInv` |
| `SyncReleasesProofs!UsesPool`, `PoolResults` | release operations are uses of the pool, and inherit its results | every step of a loop body leaves the pool's variables alone or is the pool's own |
| `SyncInvariant`, `Serialised` | uninstalls and their hooks never overlap in a sync or apply | inductive: a worker inside a loop body holds an input (`Busy`), one at an uninstall is the owner of the mutex |
| `ReleasesInvariant` | what the lists hold and the cluster has lost follows from how far each release is | inductive: `ListInv` for sync and apply (`ReleaseOK`, release by release: also what helm was asked for it), `RemoveInv` for `DeleteReleases` (`Removing`, `Evidence`: also the snapshot a worker will write back holds only what is true), `NotesInv`: a single worker of `DeleteReleases` has listed what it has done |
| `SummaryTrue`, `SyncConverged`, `LossReported` | `SummaryExact`, `NoErrorMeansConverged`, `LostReleaseReported` | each from `SyncInv`, which has that all inputs are processed at the return, and the two invariants above |
| `ChartCacheProofs!LockInvariant` | what a worker holds follows from where it is (`HoldsAsPc`), readers and writers exclude each other (`Exclusive`) | inductive with the types |
| `OneWriter`, `TimeoutsAreForeign`, `NothingLeaks` | `WriterAlone`, `MutexShields`, `NoLockLeak` | each follows from `LockInv` |
| `KeepInvariant` | what explains the content of a directory | inductive relative to `LockInv` and `WriterAlone`: `EndedQuiet` (an ended run has no worker), `Explained` (an incomplete chart is being written, or an error or a crash left it), `Recorded` and `HandedOut` (what a process has recorded, or a worker was given, is kept, but for a refresh by another process or the end of another run) |
| `ChartsUsable`, `FetchedOnce` | `UsableChart`, `NoRefetch` | from `KeepInv` |
| `ScanProofs!Report` | types; the report counts each file once and lists exactly the callers of a function | inductive: `ReportInv`, with `MainFound` (phases after `find` have a main file) |
| `ExitCode` | the exit code is 1 exactly when a looked-at file calls a forbidden function or forbidden hooks were found | with `Report`, at the step `Verdict` |
| `NothingHidden` | `SurvivesFailures`, within the limits it names | `KeptInv`: what was parsed and loaded is tracked (`ParsedKept`, `LoadedKept`), and what is tracked is looked at or still to do (`LookedAt`) |
| `ConvergeProofs!NeedsOrder`, `DependentsOrder`, `ConvTypes` | `NeedsFirst`, `DependentsFirst`, and the types `ConvTypeOK` | inductive: `OrderInv`, that while nothing has failed every id of a plan is left, in the batch or done with, and that what a batch waited for is done with |
| `Once` | `OncePerRelease` | from `OrderInv`: once duplicates are removed an id stands for one entry, and only listed entries are processed |
| `OnlySelected` | `OnlySelectedTouched` | a second invariant on top, `Choice`: plans and batches contain only what was chosen |
| `SuccessConverged` | `SuccessMeansConverged` | `Achieved`, on top of `OrderInv`: what is selected stays planned, what is planned is to be deleted or updated (`Detected`), and an error of the deletions is kept until the updates are over |
| `VisitProofs!VisitInvariant`, `VisitTypes` | `LocalInv`, of which the types are part | inductive: a call, a file and what lies one level below agree (`CallOK`, `FileOK`, `NestedOK`, `HeardFile`, `HeardSub`) |
| `NestedInOrder` | `NestedFirst` | from `LocalInv` |
| `TreeInvariant` | `TreeInv`: who runs has a caller that runs, who has begun one that has begun, and who has failed one that runs or has failed too; what a call returned is true of all below it (`Told`) | every step is a `TreeStep`: what begins is a child of what runs; what ends has no child that runs and takes on the trouble of its children; one thing at a time. The induction is on this form alone |
| `CallsComplete`, `OutcomeIsTold` | `CallComplete`, `OutcomeTold` | from `LocalInv` and `TreeInv` |
| `WalkInvariant` | `WalkInv`: without goroutines what runs is a `Chain`, and the process is in the directory that the end of the chain needs | inductive relative to the other two: whoever steps is the end of the chain (`Top`), and `ChdirBack` leaves the directory to its caller as it was |
| `WalkKeepsPlace` | `WalkKeepsDirectory` | from `WalkInv` |
| `PrepareProofs!PrepTypes` | the types, and where a release may be in each phase (`PlaceOK`) | inductive; the steps of one release change nothing of another one (`Frame`) |
| `LeavesNothing`, `FindsFiles` | `NothingLeft`, `HelmFindsFiles` | `WhyOK`: which failure a release may have in which phase; `FilesOK`, `FoundOK`: which of its files exist while it waits, is done, and after the removal |
| `ServesOrTells` | `ServedOrTold` | `ServedInv`: nothing is served before the phase of helm, and in it a listed release is served, waits or has failed |
| `RestoresCharts` | `RestoredUnlessShared` | `YamlInv`: the content of a `Chart.yaml` follows from the step of the one release that works on it (`OwnerOK`); with a single worker that there is only one is counted (`Alone`) |
| `SharedProofs!SharedTypes` | the types; who asks for a secret has one; which steps come before and after the loading | inductive |
| `LoadsWholeFiles` | `LoadsWhole` | `LoadInv`: a partial entry is being written or known to be cut short, and once it was loaded nobody writes it (`TurnOK`) |
| `OwnArgs`, `TellsResults` | `ArgsOwn`, `ResultsTold` | `OrderInv`: a file before the one that moves is done, one after it has not begun; on top of it `ArgsOK` and `Told`, that the result is that of the files done |
| `FindsRepos` | `ReposReady` | `ReposInv`: what is recorded, in this process or in a call of `SyncRepos`, is as some state file says (`Provided`); no step of another state file undoes that, it can only put its own word in the place (`AddRepoProvides`) |
| `TellsSecrets` | `SecretsTold` | `SecretInv`: an entry of the cache once made stays, and is empty for `.hcl` files only |

The invariants have to be stronger than the results. That no two workers write the same directory, for instance,
does not follow from itself: a worker reaches the download with two locks taken at different steps, of which the
mutex is shared by one process and the lock file by all, so that the induction must carry what each worker holds at
each step and how holdings exclude each other. Nor does it follow from `NeedsFirst` that the next batch respects it:
that what a batch needs is updated follows from where the ids of the plan are (`Updating`), and that no update brings
a deleted dependent back from an id standing for one entry (`Distinct`), which is true only after the duplicates are
removed, and in `destroy`, which leaves them, because it updates nothing. And that a state file loads no partial
remote file does not follow from the steps of `Fetch` alone: the file before it must be through with its own, which
is a fact about the order in which the command goes on (`OrderInv`), and the same fact keeps the shared arguments
and results apart. That a chart in use is complete follows from nothing a worker knows: it was handed the path by the
map of its process, so that the invariant is about what is recorded (`Recorded`), and the worker that records it has
to be told apart from one that has only found a directory there. And the properties of a tree of calls are about all
that lies below a call, of which a step sees one level: `TreeInv` says of each pair of a call and something below it
what `TreeStep` says of neighbours, which is why no induction on the depth is needed, and the theorems hold for
trees of any depth.

The invariants were checked with TLC before they were proved, and one attempt corrected a property: `OutcomeTold` had
said that a walk hears of every release processed in the tree. Its proof failed at a walk whose nested helmfile is a
directory with several files: these have goroutines, and what those nest is not counted. The trees of `visit` had no
nested helmfile there; now they have, and the property says what the code tells.

The theorems assume what the modules assume of their constants: `PoolAssumption` (a maximal width of at least the
number of inputs), `CacheAssumption` (paths are distinct, at least one attempt), `ScanAssumption` (finitely many
files, categories for all functions), `ConvergeAssumption` (every entry has an id, inputs are inputs), `PrepareAssumption`
(finitely many releases, `NoChart` is no chart), `VisitAssumption` (every visit is one of a file of a visit, a directory
holds at most `MaxFiles` files and tells them apart by their names), `StateFilesAssumption`, `RemoteAssumption`,
`HelmAssumption` and `SharedAssumption` (sources and inputs are what their types say, `NoUrl` and `NoSecret` are neither). TLC evaluates
these assumptions in the runs. The theorems of `SharedProofs` are about `SharedSpec`, of which the run checks
the part `MCSpec` selects; they hold for any number of state files and restarts, and do not limit which source meets
which run.

Every safety property of the passing runs is stated by a theorem. Model-checked only is liveness, which is out of the
provers' reach: `CallReturns`, `ReturnsUnlessLeaked`, `Served`, `VisitReturns`, `RunReturns`, `CommandEnds`. The
properties of the runs that expect a violation are false, and have no theorem.

## 5. Disagreements found

`PROJECT.json` lists them under `findings`, with the lines and what the code or its documentation says there. Shown
by a run: the leaked mutex (`sync_leak`); charts deleted while in use (`chart_cache_shared`); the working directory
shared by goroutines (`visit_race`); a `Chart.yaml` that is not restored when two releases share it
(`chart_restored`). Met while modelling, and part of the modules: charts removed with the temporary directory of
another state file; bases looked up in the wrong directory, where another file may stand; nested helmfiles and values
files that a base, a default values file or an entry without a match hides from the scanner; `destroy` of a release
listed twice; entries of the summary that parallel deletions lose, and a release no list has after a failed query;
matches in nested helmfiles that parallel mode forgets; values files removed before `template`, `lint` and
`write-values` use them; arguments of one state file in the calls of the next, and in the decryption of its
environment; an error of a secret that is not told to the second who asks; repositories of an unknown type that count
as added; panics of the getters; results of `diff` and `lint` lost in parallel. Where a property holds only outside
one of these, its comment names the exception. Outside the modules: the lock file looked up in the wrong directory,
and sentences of documentation that say more than the code does, or something else: the README counts calls of a
function where the program counts files.

## 6. Not modelled, and why

- Text: templates, YAML, HCL, URLs, version constraints and the printed report. A file is what the program learns of it.
- The merging of values and the inheritance of environments and selectors: pure functions on trees.
- What helm, chartify, go-getter, the graph library and the flock library do inside. They appear as actions that
  succeed or fail, with what they may leave behind.
- The lock file of chart dependencies: helm resolves the versions, and the program copies one file in and out.
- The command lines of helm: each is a list of flags computed from the state file.
- Cleanup hooks of releases without a change: their errors are logged and nothing else happens.
- Several charts at a time in `ChartCache`: locks and paths of different charts have nothing in common. Several
  remote sources in `RemoteCache`, for the same reason.
- `fetch`, `list`, `status`, `test`: one call of helm per release, or none.

## 7. Plan

The order followed the weight of the components: the pool, because every operation runs on it; the operations that
change a cluster; the cache they share; the scanner, which is the program's own purpose; the walk and the commands
above them; the preparation of charts and files; what state files share. What is left, in this order:

1. Proofs: abstract specifications of what a component promises, with the refinement proved: that one release at a
   time goes through `SyncReleases` as `Delete`, `Upgrade` and `Fails` of `Converge` have it, and that the walk of
   `Visit`, seen from outside, is one call that converges each file once.
2. Pure algorithms against reference definitions: transitive needs, grouping by dependency, merging of arrays.
3. The lock file, with the version constraints as an order.

## 8. Reading and running

`tlc -config MCVisit.cfg MCVisit` checks a module's instance; the `MC` modules give the constants, one `.cfg` per
run. `tlapm ScanProofs.tla` checks the proofs of a module. `map` in `PROJECT.json` gives the lines of the source that
each definition stands for; definitions keep the source's names where they can.
